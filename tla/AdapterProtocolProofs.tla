------------------------ MODULE AdapterProtocolProofs ------------------------
(***************************************************************************)
(* What holds of the two ends of the Agent Adapter protocol.               *)
(*                                                                         *)
(* The Bridge's end, for any set of commands, agents and Events: its       *)
(* tables have their types, the driver's waits and the delayed terminal    *)
(* Event are looked after, an answer comes from the owner, and the adapter *)
(* implements CommandHandover.  The argument rests on one fact that no     *)
(* table states: a command is in one place at a time.  It is in the queue, *)
(* or one answer carries it, or one agent holds it, or it was handled, and *)
(* before its release it is nowhere.                                       *)
(*                                                                         *)
(* Pi's end, for every session, every order of callbacks, timers and       *)
(* answers, and every bound.  The properties speak of what the Bridge was  *)
(* told; whether it is so depends on requests that were made long before   *)
(* they are answered.  The invariant therefore says of each delivery under *)
(* way what its run, its inputs and its order are to those of today        *)
(* (PushInv), of the reducer that what it has pending is about the last    *)
(* run and that nothing else of that run is at the Bridge unless its       *)
(* answer was lost (ReducerInv), of the client's queue that what it will   *)
(* report or register is still so when its turn comes (HandledInv,         *)
(* ClientInv).  The last two need that an order given to a delivery is     *)
(* above every one in use: the set of orders has a greatest element as     *)
(* long as it has a bound (OrdersInv).                                     *)
(***************************************************************************)
EXTENDS AgentAdapter, PiExtension, FiniteSetTheorems, SequenceTheorems, TLAPS

-----------------------------------------------------------------------------
(* The Bridge's end: the invariant *)

\* A command that was not released is in no table and with no agent.
NewIsNowhere ==
    \A c \in Commands : driver[c] = "new" =>
        /\ c \notin QueuedCommands \union bound
        /\ ~Held(c)
        /\ handled[c] = 0

\* A queued command was not handed out, and one that is held was not handled.
OnePlace ==
    \A c \in Commands : /\ c \in QueuedCommands => ~Held(c)
                        /\ c \in QueuedCommands \/ Held(c) => handled[c] = 0

\* One answer carries a command, or one agent holds it.
OneHolder ==
    /\ \A r, s \in replies : r.cmd = s.cmd => r = s
    /\ \A a, b \in Agents : /\ agents[a].doing = "holding" /\ agents[b].doing = "holding"
                            /\ agents[a].cmd = agents[b].cmd
                            => a = b
    /\ \A r \in replies, a \in Agents : agents[a].doing = "holding" => agents[a].cmd # r.cmd

\* An agent that holds or answers a command has one, and an answer is about a
\* command that was handled.
AgentsHaveCommands ==
    \A a \in Agents :
        /\ agents[a].doing \in {"holding", "answering"} => agents[a].cmd \in Commands
        /\ agents[a].doing = "answering" => handled[agents[a].cmd] > 0

Placement == NewIsNowhere /\ OnePlace /\ OneHolder /\ AgentsHaveCommands

AdapterInv == AdapterTypeOK /\ Placement /\ WaitingIsBound /\ DelayedIsGated

-----------------------------------------------------------------------------
(* The queue *)

\* Taking the head of a queue without repetitions leaves the others.
LEMMA QueueTail ==
    ASSUME queue \in Seq(Commands), queue # <<>>, queue' = Tail(queue),
           \A i, k \in DOMAIN queue : queue[i] = queue[k] => i = k
    PROVE  /\ Head(queue) \in QueuedCommands
           /\ Head(queue) \in Commands
           /\ queue' \in Seq(Commands)
           /\ \A i, k \in DOMAIN queue' : queue'[i] = queue'[k] => i = k
           /\ QueuedCommands' = QueuedCommands \ {Head(queue)}
<1>1. /\ Len(queue) \in Nat \ {0}
      /\ DOMAIN queue = 1..Len(queue)
      /\ \A i \in 1..Len(queue) : queue[i] \in Commands
      /\ Head(queue) = queue[1]
  BY EmptySeq, LenProperties, ElementOfSeq
<1>2. /\ queue' \in Seq(Commands)
      /\ Len(queue') = Len(queue) - 1
      /\ DOMAIN queue' = 1..Len(queue) - 1
      /\ \A i \in 1..Len(queue) - 1 : queue'[i] = queue[i + 1]
  BY <1>1, HeadTailProperties, LenProperties
<1>3. \A i \in DOMAIN queue' : i + 1 \in DOMAIN queue /\ i + 1 # 1
  BY <1>1, <1>2
<1>4. \A i \in DOMAIN queue : i = 1 \/ (i - 1 \in DOMAIN queue' /\ queue'[i - 1] = queue[i])
  BY <1>1, <1>2
<1>5. \A i, k \in DOMAIN queue' : queue'[i] = queue'[k] => i = k
  BY <1>1, <1>2, <1>3
<1>6. Head(queue) \in QueuedCommands /\ Head(queue) \in Commands
  BY <1>1 DEF QueuedCommands
<1>7. QueuedCommands' \subseteq QueuedCommands \ {Head(queue)}
  BY <1>1, <1>2, <1>3 DEF QueuedCommands
<1>8. QueuedCommands \ {Head(queue)} \subseteq QueuedCommands'
  BY <1>1, <1>4 DEF QueuedCommands
<1> QED BY <1>2, <1>5, <1>6, <1>7, <1>8

\* Appending a command that is not queued keeps the queue without repetitions.
LEMMA QueueAppend ==
    ASSUME queue \in Seq(Commands), NEW c \in Commands \ QueuedCommands,
           queue' = Append(queue, c),
           \A i, k \in DOMAIN queue : queue[i] = queue[k] => i = k
    PROVE  /\ queue' \in Seq(Commands)
           /\ \A i, k \in DOMAIN queue' : queue'[i] = queue'[k] => i = k
           /\ QueuedCommands' = QueuedCommands \union {c}
<1>1. /\ Len(queue) \in Nat
      /\ DOMAIN queue = 1..Len(queue)
      /\ \A i \in 1..Len(queue) : queue[i] \in Commands
  BY LenProperties, ElementOfSeq
<1>2. /\ queue' \in Seq(Commands)
      /\ DOMAIN queue' = 1..Len(queue) + 1
      /\ \A i \in 1..Len(queue) : queue'[i] = queue[i]
      /\ queue'[Len(queue) + 1] = c
  BY <1>1, AppendProperties, LenProperties
<1>3. \A i \in 1..Len(queue) : queue[i] # c
  BY <1>1 DEF QueuedCommands
<1>4. \A i, k \in DOMAIN queue' : queue'[i] = queue'[k] => i = k
  BY <1>1, <1>2, <1>3
<1>5. QueuedCommands' \subseteq QueuedCommands \union {c}
  BY <1>1, <1>2 DEF QueuedCommands
<1>6. QueuedCommands \subseteq QueuedCommands' /\ c \in QueuedCommands'
  BY <1>1, <1>2 DEF QueuedCommands
<1> QED BY <1>2, <1>4, <1>5, <1>6

-----------------------------------------------------------------------------
(* Types *)

\* Losing the session empties the tables that AdapterTypeOK ties to an owner.
LEMMA LoseTypes ==
    ASSUME AdapterTypeOK, LoseOwnership
    PROVE  /\ queue' = <<>> /\ bound' = {} /\ inFlight' = {}
           /\ queue' \in Seq(Commands) /\ QueuedCommands' = {}
           /\ \A i, k \in DOMAIN queue' : queue'[i] = queue'[k] => i = k
           /\ delayed' = NoEvent /\ retry' = FALSE /\ refused' = FALSE
           /\ orphaned' \subseteq Commands
           /\ driver' \in [Commands -> DriverState]
           /\ UNCHANGED <<polls, results, pushed>>
  BY DEF AdapterTypeOK, LoseOwnership, CancelTerminal, DriverState, QueuedCommands

\* The registry's operations on ownership keep the types.
LEMMA OwnerTypes == ASSUME AdapterTypeOK, OwnerSteps PROVE AdapterTypeOK'
<1> USE NamesAssumption, LimitsAssumption DEF NamesAssumption, LimitsAssumption
<1> DEFINE Tables == <<queue, bound, inFlight, orphaned, results, delayed, retry, refused,
                        pushed>>
<1>0. ASSUME live' \in Session, live' # NoSession,
             live'.agent \in Agents, live'.lease # 0, leases' \in Leases,
             polls' \in Seq(Waiter), restarts' = restarts, agents' \in [Agents -> Agent],
             UNCHANGED <<replies, handled, releasedTo>>,
             \/ LoseOwnership
             \/ UNCHANGED <<Tables, driver>>
             \/ CancelTerminal /\ UNCHANGED <<commandVars, pushed, driver>>
      PROVE  AdapterTypeOK'
  <2>1. CASE LoseOwnership
    BY <1>0, <2>1, LoseTypes DEF AdapterTypeOK, HasSession
  <2>2. CASE UNCHANGED <<Tables, driver>>
    <3>1. QueuedCommands' = QueuedCommands
      BY <2>2 DEF QueuedCommands
    <3> QED BY <1>0, <2>2, <3>1 DEF AdapterTypeOK, HasSession
  <2>3. CASE CancelTerminal /\ UNCHANGED <<commandVars, pushed, driver>>
    <3>1. QueuedCommands' = QueuedCommands
      BY <2>3 DEF QueuedCommands, commandVars
    <3> QED BY <1>0, <2>3, <3>1 DEF AdapterTypeOK, HasSession, CancelTerminal, commandVars
  <2> QED BY <1>0, <2>1, <2>2, <2>3
<1>a. ASSUME live' = NoSession, LoseOwnership, UNCHANGED <<leases, restarts, replies, handled, releasedTo>>,
             agents' \in [Agents -> Agent]
      PROVE  AdapterTypeOK'
  <2>1. live' \in Session /\ ~HasSession'
    BY <1>a DEF NoSession, Session, Leases, HasSession
  <2> QED BY <1>a, <2>1, LoseTypes DEF AdapterTypeOK
<1>t. /\ agents \in [Agents -> Agent] /\ live \in Session /\ leases \in Leases
      /\ HasSession => live.agent \in Agents /\ live.lease # 0
  BY DEF AdapterTypeOK
<1>e. ASSUME NEW age \in 0..OwnerLeaseTtl + 1, HasSession, live' = [live EXCEPT !.age = age]
      PROVE  /\ live' \in Session /\ live' # NoSession
             /\ live'.agent \in Agents /\ live'.lease # 0
  BY <1>t, <1>e DEF Session, NoSession
<1>1. CASE Tick
  <2>1. live.age \in 0..OwnerLeaseTtl + 1 /\ live.age + 1 \in 0..OwnerLeaseTtl + 1
    BY <1>1, <1>t DEF Tick, Session
  <2>2. /\ live' \in Session /\ live' # NoSession /\ live'.agent \in Agents /\ live'.lease # 0
    BY <1>1, <1>e, <2>1 DEF Tick
  <2> QED BY <1>1, <1>0, <2>2 DEF Tick, AdapterTypeOK, commandVars, terminalVars,
         driverVars, agentVars
<1>2. CASE Expire
  BY <1>2, <1>a DEF Expire, agentVars, AdapterTypeOK
<1>3. CASE Restart
  <2>1. /\ live' = NoSession /\ queue' = <<>> /\ polls' = <<>> /\ bound' = {}
        /\ inFlight' = {} /\ orphaned' = {} /\ results' = {} /\ delayed' = NoEvent
        /\ retry' = FALSE /\ refused' = FALSE /\ restarts' \in 0..MaxRestarts
        /\ UNCHANGED <<leases, pushed, releasedTo, replies, handled>>
    BY <1>3 DEF Restart, CancelTerminal, AdapterTypeOK
  <2>2. driver' \in [Commands -> DriverState]
    BY <1>3 DEF Restart, AdapterTypeOK, DriverState
  <2>3. agents' \in [Agents -> Agent]
    BY <1>3, <1>t DEF Restart, Agent
  <2>4. live' \in Session /\ ~HasSession'
    BY <2>1 DEF NoSession, Session, Leases, HasSession
  <2>5. /\ queue' \in Seq(Commands) /\ polls' \in Seq(Waiter) /\ QueuedCommands' = {}
        /\ \A i, k \in DOMAIN queue' : queue'[i] = queue'[k] => i = k
    BY <2>1 DEF QueuedCommands
  <2> QED BY <2>1, <2>2, <2>3, <2>4, <2>5 DEF AdapterTypeOK
<1>4. ASSUME NEW a \in Agents, NEW b \in BOOLEAN, Register(a, b) PROVE AdapterTypeOK'
  <2>1. /\ leases' \in Leases /\ leases' # 0 /\ leases' = leases + 1
        /\ live' = [agent |-> a, lease |-> leases', age |-> 0]
        /\ agents' = IF b THEN [agents EXCEPT ![a].lease = leases'] ELSE agents
    BY <1>4 DEF Register, AdapterTypeOK, Leases
  <2>2. agents' \in [Agents -> Agent]
    BY <1>t, <2>1 DEF Agent
  <2>3. live' \in Session /\ live' # NoSession /\ live'.agent \in Agents /\ live'.lease # 0
    BY <2>1 DEF Session, NoSession
  <2>4. LoseOwnership \/ UNCHANGED <<Tables, driver, polls>>
    BY <1>4 DEF Register, commandVars, terminalVars
  <2>5. polls' \in Seq(Waiter)
    BY <2>4 DEF LoseOwnership, AdapterTypeOK
  <2> QED BY <1>0, <1>4, <2>1, <2>2, <2>3, <2>4, <2>5 DEF Register
<1>5. ASSUME NEW a \in Agents, NEW b \in BOOLEAN, Renew(a, b) PROVE AdapterTypeOK'
  <2>1. /\ live' \in Session /\ live' # NoSession /\ live'.agent \in Agents /\ live'.lease # 0
    BY <1>5, <1>e DEF Renew, Owns
  <2> QED BY <1>5, <1>0, <2>1 DEF Renew, AdapterTypeOK, commandVars, driverVars, agentVars
<1>6. ASSUME NEW a \in Agents, LearnLease(a) PROVE AdapterTypeOK'
  <2>1. /\ live' \in Session /\ live' # NoSession /\ live'.agent \in Agents /\ live'.lease # 0
    BY <1>6, <1>e DEF LearnLease
  <2>2. agents' \in [Agents -> Agent]
    BY <1>6, <1>t DEF LearnLease, Agent, Session
  <2> QED BY <1>6, <1>0, <2>1, <2>2 DEF LearnLease, AdapterTypeOK, commandVars, terminalVars, driverVars
<1>7. ASSUME NEW a \in Agents, Unregister(a) PROVE AdapterTypeOK'
  <2>1. agents' \in [Agents -> Agent]
    <3>1. agents' = [agents EXCEPT ![a].lease = 0, ![a].cmdLease = 0] /\ 0 \in Leases
      BY <1>7 DEF Unregister, Leases
    <3> QED BY <1>t, <3>1 DEF Agent
  <2>2. CASE live' = NoSession /\ LoseOwnership
    BY <1>7, <1>a, <2>1, <2>2 DEF Unregister
  <2>3. CASE UNCHANGED <<live, commandVars, terminalVars, driver>>
    <3>1. QueuedCommands' = QueuedCommands /\ (HasSession' <=> HasSession)
      BY <2>3 DEF QueuedCommands, commandVars, HasSession
    <3> QED BY <1>7, <2>1, <2>3, <3>1 DEF Unregister, AdapterTypeOK, commandVars, terminalVars
  <2> QED BY <1>7, <2>2, <2>3 DEF Unregister
<1> QED BY <1>1, <1>2, <1>3, <1>4, <1>5, <1>6, <1>7 DEF OwnerSteps

\* The terminal Event's steps keep the types.
LEMMA EventTypes == ASSUME AdapterTypeOK, EventSteps PROVE AdapterTypeOK'
<1>1. CASE RetryTerminal
  BY <1>1 DEF RetryTerminal, Commit, AdapterTypeOK, HasSession, ownerVars, commandVars,
     driverVars, agentVars, QueuedCommands
<1>2. ASSUME NEW a \in Agents, NEW e \in Events, PushEvent(a, e) PROVE AdapterTypeOK'
  <2>1. HasSession /\ UNCHANGED <<ownerVars, commandVars, restarts, driverVars, agentVars>>
    BY <1>2 DEF PushEvent, Owns
  <2>2. /\ delayed' \in Events \union {NoEvent} /\ pushed' \subseteq Events
        /\ retry' \in BOOLEAN /\ refused' \in BOOLEAN
    BY <1>2 DEF PushEvent, PushAgain, PushReserved, PushNew, Stage, Commit, CancelTerminal,
       AdapterTypeOK
  <2>3. QueuedCommands' = QueuedCommands /\ HasSession'
    BY <2>1 DEF ownerVars, commandVars, QueuedCommands, HasSession
  <2> QED BY <2>1, <2>2, <2>3 DEF AdapterTypeOK, ownerVars, commandVars, driverVars, agentVars
<1> QED BY <1>1, <1>2 DEF EventSteps

\* What it means to give an agent another step, command and lease for it.
LEMMA AgentSteps ==
    ASSUME agents \in [Agents -> Agent], NEW a \in Agents,
           NEW step \in {"idle", "polling", "holding", "answering", "exited"},
           NEW c \in Commands \union {NoCommand}, NEW l \in Leases,
           agents' = [agents EXCEPT ![a].doing = step, ![a].cmd = c, ![a].cmdLease = l]
    PROVE  /\ agents' \in [Agents -> Agent]
           /\ agents'[a].lease = agents[a].lease /\ agents'[a].doing = step
           /\ agents'[a].cmd = c /\ agents'[a].cmdLease = l
           /\ \A b \in Agents \ {a} : agents'[b] = agents[b]
<1>r. /\ agents[a] \in Agent
      /\ [agents[a] EXCEPT !.doing = step, !.cmd = c, !.cmdLease = l] \in Agent
  <2>1. agents[a] \in Agent
    OBVIOUS
  <2> QED BY <2>1 DEF Agent
<1>s. agents' = [agents EXCEPT ![a] = [agents[a] EXCEPT !.doing = step, !.cmd = c, !.cmdLease = l]]
  BY Zenon
<1>1. agents' \in [Agents -> Agent]
  BY <1>r, <1>s
<1>2. /\ agents'[a].lease = agents[a].lease /\ agents'[a].doing = step
      /\ agents'[a].cmd = c /\ agents'[a].cmdLease = l
  BY DEF Agent
<1>3. \A b \in Agents \ {a} : agents'[b] = agents[b]
  OBVIOUS
<1> QED BY <1>1, <1>2, <1>3

\* A flush keeps the delayed Event or empties its place.
LEMMA FlushTypes ==
    ASSUME AdapterTypeOK, NEW q, NEW f, Flush(q, f)
    PROVE  delayed' \in {delayed, NoEvent} /\ retry' \in BOOLEAN /\ refused' \in BOOLEAN
  BY DEF Flush, Commit, AdapterTypeOK

\* The steps of the driver and of the agents keep the types.
LEMMA CommandTypes == ASSUME AdapterTypeOK, Placement, CommandSteps PROVE AdapterTypeOK'
<1> USE NamesAssumption, LimitsAssumption DEF NamesAssumption, LimitsAssumption
<1>t. /\ agents \in [Agents -> Agent] /\ live \in Session /\ polls \in Seq(Waiter)
      /\ replies \subseteq Reply /\ driver \in [Commands -> DriverState]
      /\ handled \in [Commands -> Nat] /\ releasedTo \in [Commands -> Leases]
      /\ 0 \in Leases
  BY DEF AdapterTypeOK, Leases
<1>o. /\ QueuedCommands' = QueuedCommands \/ queue' # queue
      /\ HasSession' = HasSession \/ live' # live
  BY DEF QueuedCommands, HasSession
<1>w. ASSUME NEW i \in DOMAIN polls
      PROVE  polls[i] \in Waiter
  BY <1>t, LenProperties, ElementOfSeq
<1>a. ASSUME NEW a \in Agents, NEW step \in {"idle", "polling", "holding", "answering", "exited"}
      PROVE  [agents EXCEPT ![a].doing = step] \in [Agents -> Agent]
  <2>1. [agents EXCEPT ![a].doing = step] = [agents EXCEPT ![a] = [agents[a] EXCEPT !.doing = step]]
    BY Zenon
  <2>2. agents[a] \in Agent
    BY <1>t
  <2>3. [agents[a] EXCEPT !.doing = step] \in Agent
    BY <2>2 DEF Agent
  <2> QED BY <1>t, <2>1, <2>3
<1>1. ASSUME NEW c \in Commands, EnqueueCommand(c) PROVE AdapterTypeOK'
  <2>0. /\ HasSession /\ bound' = bound \union {c} /\ driver[c] = "new"
        /\ UNCHANGED <<ownerVars, orphaned, results, terminalVars, restarts, agents, handled>>
    BY <1>1 DEF EnqueueCommand
  <2>1. /\ live.lease \in Leases /\ HasSession /\ c \notin QueuedCommands /\ c \notin bound
        /\ bound' = bound \union {c}
        /\ UNCHANGED <<ownerVars, orphaned, results, terminalVars, restarts, agents, handled>>
    BY <2>0, <1>t DEF Session, Placement, NewIsNowhere
  <2>2. driver' \in [Commands -> DriverState] /\ releasedTo' \in [Commands -> Leases]
    <3>1. /\ driver' = [driver EXCEPT ![c] = "waiting"] /\ "waiting" \in DriverState
          /\ releasedTo' = [releasedTo EXCEPT ![c] = live.lease]
      BY <1>1 DEF EnqueueCommand, DriverState
    <3> QED BY <1>t, <2>1, <3>1
  <2>3. CASE polls # <<>> /\ HandOver(c)
    <3>1. polls' \in Seq(Waiter) /\ 1 \in DOMAIN polls
      BY <1>t, <2>3, HeadTailProperties, EmptySeq, LenProperties DEF HandOver
    <3>2. [agent |-> polls[1].agent, lease |-> polls[1].lease, cmd |-> c] \in Reply
      BY <3>1, <1>w DEF Waiter, Reply
    <3> QED BY <1>o, <2>1, <2>2, <2>3, <3>1, <3>2 DEF HandOver, AdapterTypeOK, ownerVars, terminalVars
  <2>4. CASE queue' = Append(queue, c) /\ UNCHANGED <<polls, inFlight, replies>>
    <3>1. /\ queue' \in Seq(Commands)
          /\ \A i, k \in DOMAIN queue' : queue'[i] = queue'[k] => i = k
          /\ QueuedCommands' = QueuedCommands \union {c}
      BY <2>1, <2>4, QueueAppend DEF AdapterTypeOK
    <3> QED BY <1>o, <2>1, <2>2, <2>4, <3>1 DEF AdapterTypeOK, ownerVars, terminalVars
  <2> QED BY <1>1, <2>3, <2>4 DEF EnqueueCommand
<1>2. ASSUME NEW c \in Commands, DriverTimeout(c) PROVE AdapterTypeOK'
  <2>1. driver' \in [Commands -> DriverState]
    BY <1>2, <1>t DEF DriverTimeout, DriverState
  <2> QED BY <1>2, <1>o, <2>1, FlushTypes DEF DriverTimeout, Abandon, AdapterTypeOK, ownerVars, agentVars
<1>3. ASSUME NEW i \in DOMAIN polls, PollTimeout(i) PROVE AdapterTypeOK'
  <2>1. agents' \in [Agents -> Agent]
    BY <1>3, <1>a, <1>t, <1>w DEF PollTimeout, Waiter
  <2>2. polls' \in Seq(Waiter)
    <3>1. Len(polls) \in Nat \ {0} /\ DOMAIN polls = 1..Len(polls)
      BY <1>t, EmptySeq, LenProperties
    <3>2. polls' \in [1..Len(polls) - 1 -> Waiter]
      BY <1>3, <1>w, <3>1 DEF PollTimeout
    <3> QED BY <3>1, <3>2, SeqDef
  <2> QED BY <1>3, <1>o, <2>1, <2>2 DEF PollTimeout, AdapterTypeOK, ownerVars, terminalVars, driverVars
<1>4. ASSUME NEW r \in replies, LoseReply(r) PROVE AdapterTypeOK'
  <2>1. agents' \in [Agents -> Agent]
    BY <1>4, <1>a, <1>t DEF LoseReply, Reply
  <2> QED BY <1>4, <1>o, <2>1 DEF LoseReply, AdapterTypeOK, ownerVars, commandVars, terminalVars, driverVars
<1>5. ASSUME NEW a \in Agents, Poll(a) PROVE AdapterTypeOK'
  <2>1. /\ Head(queue) \in QueuedCommands
        /\ Head(queue) \in Commands
        /\ queue' \in Seq(Commands)
        /\ \A i, k \in DOMAIN queue' : queue'[i] = queue'[k] => i = k
        /\ QueuedCommands' = QueuedCommands \ {Head(queue)}
    BY <1>5, QueueTail DEF Poll, AdapterTypeOK
  <2>2. agents' \in [Agents -> Agent]
    BY <1>5, <1>a DEF Poll
  <2>3. agents[a].lease \in Leases \ {0} /\ HasSession
    BY <1>5, <1>t DEF Poll, Owns, AdapterTypeOK, Agent
  <2>4. replies' \subseteq Reply
    BY <1>5, <1>t, <2>1, <2>3 DEF Poll, Reply
  <2> QED BY <1>5, <1>o, <2>1, <2>2, <2>3, <2>4 DEF Poll, AdapterTypeOK, ownerVars, terminalVars, driverVars
<1>6. ASSUME NEW a \in Agents, WaitForCommand(a) PROVE AdapterTypeOK'
  <2>1. agents' \in [Agents -> Agent]
    BY <1>6, <1>a DEF WaitForCommand
  <2>2. [agent |-> a, lease |-> agents[a].lease] \in Waiter
    BY <1>6, <1>t DEF WaitForCommand, Owns, AdapterTypeOK, Agent, Waiter
  <2>3. polls' \in Seq(Waiter)
    BY <1>6, <1>t, <2>2, AppendProperties DEF WaitForCommand
  <2> QED BY <1>6, <1>o, <2>1, <2>3 DEF WaitForCommand, AdapterTypeOK, ownerVars, terminalVars, driverVars
<1>7. ASSUME NEW a \in Agents, Receive(a) PROVE AdapterTypeOK'
  <2>1. PICK r \in replies :
           /\ replies' = replies \ {r}
           /\ agents' = [agents EXCEPT ![a].doing = "holding", ![a].cmd = r.cmd,
                                       ![a].cmdLease = r.lease]
    BY <1>7 DEF Receive
  <2>2. r.cmd \in Commands /\ r.lease \in Leases
    BY <1>t DEF Reply
  <2>3. agents' \in [Agents -> Agent]
    BY <1>t, <2>1, <2>2, AgentSteps
  <2> QED BY <1>7, <1>o, <2>1, <2>3 DEF Receive, AdapterTypeOK, ownerVars, commandVars, terminalVars, driverVars
<1>8. ASSUME NEW a \in Agents, NEW b \in BOOLEAN, Handle(a, b) PROVE AdapterTypeOK'
  <2>1. agents' \in [Agents -> Agent]
    BY <1>8, <1>a, <1>t, AgentSteps DEF Handle
  <2>2. handled' \in [Commands -> Nat]
    <3>1. agents[a].cmd \in Commands
      BY <1>8 DEF Handle, Placement, AgentsHaveCommands
    <3> QED BY <1>8, <1>t, <3>1 DEF Handle
  <2> QED BY <1>8, <1>o, <2>1, <2>2 DEF Handle, AdapterTypeOK, ownerVars, commandVars, terminalVars, driverVars
<1>9. ASSUME NEW a \in Agents, SubmitResult(a) PROVE AdapterTypeOK'
  <2>1. agents' \in [Agents -> Agent]
    BY <1>9, <1>t, AgentSteps DEF SubmitResult, Submitted
  <2>2. driver' \in [Commands -> DriverState]
    BY <1>9, <1>t DEF SubmitResult, DriverState
  <2>3. agents[a].cmd \in Commands
    BY <1>9 DEF SubmitResult, Acceptable, AdapterTypeOK
  <2> QED BY <1>9, <1>o, <2>1, <2>2, <2>3, FlushTypes DEF SubmitResult, AdapterTypeOK, ownerVars
<1>10. ASSUME NEW a \in Agents, ResultRefused(a) PROVE AdapterTypeOK'
  <2>1. agents' \in [Agents -> Agent]
    BY <1>10, <1>t, AgentSteps DEF ResultRefused, Submitted
  <2> QED BY <1>10, <1>o, <2>1 DEF ResultRefused, AdapterTypeOK, ownerVars, commandVars, terminalVars, driverVars
<1>11. ASSUME NEW a \in Agents, Exit(a) PROVE AdapterTypeOK'
  <2>1. agents' \in [Agents -> Agent]
    BY <1>11, <1>t DEF Exit, Agent, NewAgent
  <2> QED BY <1>11, <1>o, <2>1 DEF Exit, AdapterTypeOK, ownerVars, commandVars, terminalVars, driverVars
<1> QED BY <1>1, <1>2, <1>3, <1>4, <1>5, <1>6, <1>7, <1>8, <1>9, <1>10, <1>11 DEF CommandSteps

-----------------------------------------------------------------------------
(* Where a command is *)

\* A step that hands no command out: the queue, the bound commands and the
\* answers on their way only shrink, and an agent at most drops its command.
Calm ==
    /\ QueuedCommands' \subseteq QueuedCommands
    /\ bound' \subseteq bound
    /\ replies' \subseteq replies
    /\ handled' = handled
    /\ \A c \in Commands : driver'[c] = "new" <=> driver[c] = "new"
    /\ \A a \in Agents : agents'[a].doing \in {"holding", "answering"} =>
           agents'[a].doing = agents[a].doing /\ agents'[a].cmd = agents[a].cmd

\* The steps that hand nothing out: all but the release of a command, the
\* answer to a poll from the queue, its receipt and the handling.
CalmSteps ==
    \/ OwnerSteps
    \/ EventSteps
    \/ \E c \in Commands : DriverTimeout(c)
    \/ \E i \in DOMAIN polls : PollTimeout(i)
    \/ \E r \in replies : LoseReply(r)
    \/ \E a \in Agents : WaitForCommand(a) \/ SubmitResult(a) \/ ResultRefused(a) \/ Exit(a)

\* Losing the session hands nothing out.
LEMMA LoseIsCalm ==
    ASSUME AdapterTypeOK, LoseOwnership
    PROVE  /\ QueuedCommands' \subseteq QueuedCommands
           /\ bound' \subseteq bound
           /\ \A c \in Commands : driver'[c] = "new" <=> driver[c] = "new"
  BY LoseTypes DEF LoseOwnership, AdapterTypeOK

\* Each of the calm steps is calm.
LEMMA CalmStepsAreCalm == ASSUME AdapterTypeOK, CalmSteps PROVE Calm
<1>t. /\ agents \in [Agents -> Agent] /\ driver \in [Commands -> DriverState]
      /\ replies \subseteq Reply /\ polls \in Seq(Waiter)
  BY DEF AdapterTypeOK
<1>l. 0 \in Leases
  BY LimitsAssumption DEF LimitsAssumption, Leases
<1>q. queue' = queue => QueuedCommands' = QueuedCommands
  BY DEF QueuedCommands
<1>w. ASSUME NEW i \in DOMAIN polls
      PROVE  polls[i] \in Waiter
  BY <1>t, LenProperties, ElementOfSeq
<1>1. CASE Tick
  BY <1>1, <1>q DEF Tick, Calm, commandVars, driverVars, agentVars
<1>2. CASE Expire
  BY <1>2, LoseIsCalm DEF Expire, Calm, agentVars
<1>3. CASE Restart
  <2>1. QueuedCommands' = {} /\ bound' = {} /\ replies' = replies /\ handled' = handled
    BY <1>3 DEF Restart, QueuedCommands
  <2>2. \A c \in Commands : driver'[c] = "new" <=> driver[c] = "new"
    BY <1>3 DEF Restart
  <2>3. \A a \in Agents : (agents'[a].doing = agents[a].doing /\ agents'[a].cmd = agents[a].cmd)
                            \/ agents'[a].doing = "idle"
    BY <1>3, <1>t DEF Restart, Agent
  <2> QED BY <2>1, <2>2, <2>3 DEF Calm
<1>4. ASSUME NEW a \in Agents, NEW b \in BOOLEAN, Register(a, b) PROVE Calm
  <2>1. \A x \in Agents : agents'[x].doing = agents[x].doing /\ agents'[x].cmd = agents[x].cmd
    BY <1>4, <1>t DEF Register, Agent
  <2> QED BY <1>4, <1>q, <2>1, LoseIsCalm DEF Register, Calm, commandVars
<1>5. ASSUME NEW a \in Agents, NEW b \in BOOLEAN, Renew(a, b) PROVE Calm
  BY <1>5, <1>q DEF Renew, Calm, commandVars, driverVars, agentVars
<1>6. ASSUME NEW a \in Agents, LearnLease(a) PROVE Calm
  <2>1. \A x \in Agents : agents'[x].doing = agents[x].doing /\ agents'[x].cmd = agents[x].cmd
    BY <1>6, <1>t DEF LearnLease, Agent
  <2> QED BY <1>6, <1>q, <2>1 DEF LearnLease, Calm, commandVars, driverVars
<1>7. ASSUME NEW a \in Agents, Unregister(a) PROVE Calm
  <2>1. \A x \in Agents : agents'[x].doing = agents[x].doing /\ agents'[x].cmd = agents[x].cmd
    BY <1>7, <1>t DEF Unregister, Agent
  <2> QED BY <1>7, <1>q, <2>1, LoseIsCalm DEF Unregister, Calm, commandVars
<1>8. ASSUME NEW c \in Commands, DriverTimeout(c) PROVE Calm
  BY <1>8, <1>t, <1>q DEF DriverTimeout, Abandon, Calm, agentVars
<1>9. ASSUME NEW i \in DOMAIN polls, PollTimeout(i) PROVE Calm
  <2>1. polls[i].agent \in Agents
    BY <1>w DEF Waiter
  <2>2. \A x \in Agents : (agents'[x].doing = agents[x].doing /\ agents'[x].cmd = agents[x].cmd)
                            \/ agents'[x].doing = "idle"
    BY <1>9, <1>t, <2>1 DEF PollTimeout, Agent
  <2> QED BY <1>9, <1>q, <2>2 DEF PollTimeout, Calm, driverVars
<1>10. ASSUME NEW r \in replies, LoseReply(r) PROVE Calm
  <2>1. \A x \in Agents : (agents'[x].doing = agents[x].doing /\ agents'[x].cmd = agents[x].cmd)
                            \/ agents'[x].doing = "idle"
    BY <1>10, <1>t DEF LoseReply, Agent, Reply
  <2> QED BY <1>10, <1>q, <2>1 DEF LoseReply, Calm, commandVars, driverVars
<1>11. ASSUME NEW a \in Agents, WaitForCommand(a) PROVE Calm
  <2>1. \A x \in Agents : (agents'[x].doing = agents[x].doing /\ agents'[x].cmd = agents[x].cmd)
                            \/ agents'[x].doing = "polling"
    BY <1>11, <1>t DEF WaitForCommand, Agent
  <2> QED BY <1>11, <1>q, <2>1 DEF WaitForCommand, Calm, driverVars
<1>12. ASSUME NEW a \in Agents, SubmitResult(a) PROVE Calm
  <2>1. \A x \in Agents \ {a} : agents'[x] = agents[x]
    BY <1>12, <1>t, <1>l, AgentSteps DEF SubmitResult, Submitted
  <2>2. agents'[a].doing = "idle"
    BY <1>12, <1>t, <1>l, AgentSteps DEF SubmitResult, Submitted
  <2>3. \A c \in Commands : driver'[c] = "new" <=> driver[c] = "new"
    BY <1>12, <1>t DEF SubmitResult
  <2> QED BY <1>12, <1>q, <2>1, <2>2, <2>3 DEF SubmitResult, Calm
<1>13. ASSUME NEW a \in Agents, ResultRefused(a) PROVE Calm
  <2>1. \A x \in Agents \ {a} : agents'[x] = agents[x]
    BY <1>13, <1>t, <1>l, AgentSteps DEF ResultRefused, Submitted
  <2>2. agents'[a].doing = "idle"
    BY <1>13, <1>t, <1>l, AgentSteps DEF ResultRefused, Submitted
  <2> QED BY <1>13, <1>q, <2>1, <2>2 DEF ResultRefused, Calm, commandVars, driverVars
<1>14. ASSUME NEW a \in Agents, Exit(a) PROVE Calm
  <2>1. /\ \A x \in Agents \ {a} : agents'[x] = agents[x]
        /\ agents'[a].doing = "exited"
    BY <1>14, <1>t DEF Exit, NewAgent
  <2> QED BY <1>14, <1>q, <2>1 DEF Exit, Calm, commandVars, driverVars
<1>15. CASE RetryTerminal
  BY <1>15, <1>q DEF RetryTerminal, Calm, commandVars, driverVars, agentVars
<1>16. ASSUME NEW a \in Agents, NEW e \in Events, PushEvent(a, e) PROVE Calm
  BY <1>16, <1>q DEF PushEvent, Calm, commandVars, driverVars, agentVars
<1> QED BY <1>1, <1>2, <1>3, <1>4, <1>5, <1>6, <1>7, <1>8, <1>9, <1>10, <1>11, <1>12, <1>13,
       <1>14, <1>15, <1>16 DEF CalmSteps, OwnerSteps, EventSteps

\* A calm step leaves every command in one place.
LEMMA CalmPlacement == ASSUME Placement, Calm PROVE Placement'
<1>1. \A c \in Commands : Held(c)' => Held(c)
  BY DEF Calm, Held
<1>2. NewIsNowhere'
  BY <1>1 DEF Placement, NewIsNowhere, Calm
<1>3. OnePlace'
  BY <1>1 DEF Placement, OnePlace, Calm
<1>4. OneHolder'
  BY DEF Placement, OneHolder, Calm
<1>5. AgentsHaveCommands'
  BY DEF Placement, AgentsHaveCommands, Calm
<1> QED BY <1>2, <1>3, <1>4, <1>5 DEF Placement

\* A released command goes to the queue, or with an answer.
LEMMA EnqueueMoves ==
    ASSUME AdapterTypeOK, Placement, NEW c \in Commands, EnqueueCommand(c)
    PROVE  /\ driver[c] = "new" /\ driver' = [driver EXCEPT ![c] = "waiting"]
           /\ bound' = bound \union {c}
           /\ UNCHANGED <<agents, handled>>
           /\ \/ QueuedCommands' = QueuedCommands \union {c} /\ replies' = replies
              \/ /\ QueuedCommands' = QueuedCommands
                 /\ \E r : r.cmd = c /\ replies' = replies \union {r}
<1>1. /\ driver[c] = "new" /\ driver' = [driver EXCEPT ![c] = "waiting"]
      /\ bound' = bound \union {c}
      /\ UNCHANGED <<agents, handled>>
  BY DEF EnqueueCommand
<1>2. CASE HandOver(c)
  BY <1>1, <1>2 DEF HandOver, QueuedCommands
<1>3. CASE queue' = Append(queue, c) /\ UNCHANGED <<polls, inFlight, replies>>
  <2>1. c \notin QueuedCommands
    BY <1>1 DEF Placement, NewIsNowhere
  <2>2. QueuedCommands' = QueuedCommands \union {c}
    BY <1>3, <2>1, QueueAppend DEF AdapterTypeOK
  <2> QED BY <1>1, <1>3, <2>2
<1> QED BY <1>1, <1>2, <1>3 DEF EnqueueCommand

\* A poll answered from the queue takes its head along.
LEMMA PollMoves ==
    ASSUME AdapterTypeOK, NEW a \in Agents, Poll(a)
    PROVE  \E c \in QueuedCommands, r \in Reply :
              /\ c \in Commands
              /\ QueuedCommands' = QueuedCommands \ {c}
              /\ bound' = bound \union {c}
              /\ r.cmd = c /\ replies' = replies \union {r}
              /\ UNCHANGED <<driver, handled>>
              /\ agents' = [agents EXCEPT ![a].doing = "polling"]
              /\ agents[a].doing = "idle"
<1>1. /\ Head(queue) \in QueuedCommands /\ Head(queue) \in Commands
      /\ QueuedCommands' = QueuedCommands \ {Head(queue)}
  BY QueueTail DEF Poll, AdapterTypeOK
<1>2. /\ [agent |-> a, lease |-> agents[a].lease, cmd |-> Head(queue)].cmd = Head(queue)
      /\ [agent |-> a, lease |-> agents[a].lease, cmd |-> Head(queue)] \in Reply
  BY <1>1 DEF Poll, Owns, AdapterTypeOK, Agent, Reply
<1> QED BY <1>1, <1>2 DEF Poll, driverVars

\* An answer that arrives puts its command in the agent's hands.
LEMMA ReceiveMoves ==
    ASSUME AdapterTypeOK, NEW a \in Agents, Receive(a)
    PROVE  \E r \in replies :
              /\ r.cmd \in Commands
              /\ replies' = replies \ {r}
              /\ UNCHANGED <<queue, bound, driver, handled>>
              /\ QueuedCommands' = QueuedCommands
              /\ agents[a].doing = "polling"
              /\ agents'[a].doing = "holding" /\ agents'[a].cmd = r.cmd
              /\ \A b \in Agents \ {a} : agents'[b] = agents[b]
<1>1. PICK r \in replies :
         /\ replies' = replies \ {r}
         /\ agents' = [agents EXCEPT ![a].doing = "holding", ![a].cmd = r.cmd,
                                     ![a].cmdLease = r.lease]
  BY DEF Receive
<1>2. r.cmd \in Commands /\ r.lease \in Leases
  BY DEF AdapterTypeOK, Reply
<1>3. /\ agents'[a].doing = "holding" /\ agents'[a].cmd = r.cmd
      /\ \A b \in Agents \ {a} : agents'[b] = agents[b]
  BY <1>1, <1>2, AgentSteps DEF AdapterTypeOK
<1>4. QueuedCommands' = QueuedCommands
  BY DEF Receive, commandVars, QueuedCommands
<1> QED BY <1>1, <1>2, <1>3, <1>4 DEF Receive, commandVars, driverVars

\* An agent that acts on its command holds it no longer.
LEMMA HandleMoves ==
    ASSUME AdapterTypeOK, Placement, NEW a \in Agents, NEW certain \in BOOLEAN, Handle(a, certain)
    PROVE  /\ agents[a].doing = "holding" /\ agents[a].cmd \in Commands
           /\ handled' = [handled EXCEPT ![agents[a].cmd] = @ + 1]
           /\ handled \in [Commands -> Nat]
           /\ UNCHANGED <<queue, bound, driver, replies>>
           /\ QueuedCommands' = QueuedCommands
           /\ \/ agents'[a].doing = "answering" /\ agents'[a].cmd = agents[a].cmd
              \/ agents'[a].doing = "idle"
           /\ \A b \in Agents \ {a} : agents'[b] = agents[b]
<1>1. agents[a].doing = "holding" /\ agents[a].cmd \in Commands
  BY DEF Handle, Placement, AgentsHaveCommands
<1>2. 0 \in Leases /\ agents \in [Agents -> Agent]
  BY LimitsAssumption DEF LimitsAssumption, Leases, AdapterTypeOK
<1>3. CASE agents' = [agents EXCEPT ![a].doing = "answering"]
  <2>1. /\ agents'[a].doing = "answering" /\ agents'[a].cmd = agents[a].cmd
        /\ \A b \in Agents \ {a} : agents'[b] = agents[b]
    BY <1>2, <1>3 DEF Agent
  <2> QED BY <1>1, <2>1 DEF Handle, commandVars, driverVars, AdapterTypeOK, QueuedCommands
<1>4. CASE agents' = [agents EXCEPT ![a].doing = "idle", ![a].cmd = NoCommand, ![a].cmdLease = 0]
  <2>1. agents'[a].doing = "idle" /\ \A b \in Agents \ {a} : agents'[b] = agents[b]
    BY <1>2, <1>4, AgentSteps
  <2> QED BY <1>1, <2>1 DEF Handle, commandVars, driverVars, AdapterTypeOK, QueuedCommands
<1> QED BY <1>3, <1>4 DEF Handle

\* Every command stays in one place.
LEMMA PlacementStep == ASSUME AdapterTypeOK, Placement, AdapterNext PROVE Placement'
<1>t. agents \in [Agents -> Agent] /\ driver \in [Commands -> DriverState]
  BY DEF AdapterTypeOK
<1>1. CASE CalmSteps
  BY <1>1, CalmStepsAreCalm, CalmPlacement
<1>2. ASSUME NEW c \in Commands, EnqueueCommand(c) PROVE Placement'
  <2>m. /\ driver[c] = "new" /\ driver' = [driver EXCEPT ![c] = "waiting"]
        /\ bound' = bound \union {c}
        /\ UNCHANGED <<agents, handled>>
    BY <1>2, EnqueueMoves
  <2>0. /\ c \notin QueuedCommands /\ ~Held(c) /\ handled[c] = 0
        /\ driver'[c] = "waiting"
        /\ \A d \in Commands \ {c} : driver'[d] = driver[d]
    BY <1>t, <2>m DEF Placement, NewIsNowhere
  <2>1. CASE QueuedCommands' = QueuedCommands \union {c} /\ replies' = replies
    <3>1. \A d \in Commands : Held(d)' = Held(d)
      BY <2>m, <2>1 DEF Held
    <3>2. NewIsNowhere' /\ OnePlace'
      BY <2>m, <2>0, <2>1, <3>1 DEF Placement, NewIsNowhere, OnePlace
    <3>3. OneHolder' /\ AgentsHaveCommands'
      BY <2>m, <2>1 DEF Placement, OneHolder, AgentsHaveCommands
    <3> QED BY <3>2, <3>3 DEF Placement
  <2>2. ASSUME QueuedCommands' = QueuedCommands,
               NEW r, r.cmd = c, replies' = replies \union {r}
        PROVE  Placement'
    <3>1. \A d \in Commands \ {c} : Held(d)' => Held(d)
      BY <2>m, <2>2 DEF Held
    <3>2. NewIsNowhere' /\ OnePlace'
      BY <2>m, <2>0, <2>2, <3>1 DEF Placement, NewIsNowhere, OnePlace
    <3>3. OneHolder'
      BY <2>m, <2>0, <2>2 DEF Placement, OneHolder, Held
    <3>4. AgentsHaveCommands'
      BY <2>m DEF Placement, AgentsHaveCommands
    <3> QED BY <3>2, <3>3, <3>4 DEF Placement
  <2> QED BY <1>2, EnqueueMoves, <2>1, <2>2
<1>3. ASSUME NEW a \in Agents, Poll(a) PROVE Placement'
  <2>1. PICK c \in QueuedCommands, r \in Reply :
              /\ c \in Commands
              /\ QueuedCommands' = QueuedCommands \ {c}
              /\ bound' = bound \union {c}
              /\ r.cmd = c /\ replies' = replies \union {r}
              /\ UNCHANGED <<driver, handled>>
              /\ agents' = [agents EXCEPT ![a].doing = "polling"]
              /\ agents[a].doing = "idle"
    BY <1>3, PollMoves
  <2>2. /\ agents'[a].doing = "polling"
        /\ \A b \in Agents \ {a} : agents'[b] = agents[b]
    BY <1>t, <2>1 DEF Agent
  <2>3. ~Held(c) /\ handled[c] = 0 /\ driver[c] # "new"
    BY <2>1 DEF Placement, OnePlace, NewIsNowhere
  <2>4. \A d \in Commands \ {c} : Held(d)' => Held(d)
    BY <2>1, <2>2 DEF Held
  <2>5. NewIsNowhere' /\ OnePlace'
    BY <2>1, <2>3, <2>4 DEF Placement, NewIsNowhere, OnePlace
  <2>6. OneHolder'
    BY <2>1, <2>2, <2>3 DEF Placement, OneHolder, Held
  <2>7. AgentsHaveCommands'
    BY <2>1, <2>2 DEF Placement, AgentsHaveCommands
  <2> QED BY <2>5, <2>6, <2>7 DEF Placement
<1>4. ASSUME NEW a \in Agents, Receive(a) PROVE Placement'
  <2>1. PICK r \in replies :
              /\ r.cmd \in Commands
              /\ replies' = replies \ {r}
              /\ UNCHANGED <<queue, bound, driver, handled>>
              /\ QueuedCommands' = QueuedCommands
              /\ agents[a].doing = "polling"
              /\ agents'[a].doing = "holding" /\ agents'[a].cmd = r.cmd
              /\ \A b \in Agents \ {a} : agents'[b] = agents[b]
    BY <1>4, ReceiveMoves
  <2>2. \A d \in Commands : Held(d)' => Held(d)
    BY <2>1 DEF Held
  <2>3. NewIsNowhere' /\ OnePlace'
    BY <2>1, <2>2 DEF Placement, NewIsNowhere, OnePlace
  <2>4. OneHolder'
    BY <2>1 DEF Placement, OneHolder
  <2>5. AgentsHaveCommands'
    BY <2>1 DEF Placement, AgentsHaveCommands
  <2> QED BY <2>3, <2>4, <2>5 DEF Placement
<1>5. ASSUME NEW a \in Agents, NEW certain \in BOOLEAN, Handle(a, certain) PROVE Placement'
  <2>1. PICK c \in Commands :
        /\ agents[a].doing = "holding" /\ agents[a].cmd = c
        /\ handled' = [handled EXCEPT ![c] = @ + 1]
        /\ handled \in [Commands -> Nat]
        /\ UNCHANGED <<queue, bound, driver, replies>>
        /\ QueuedCommands' = QueuedCommands
        /\ \/ agents'[a].doing = "answering" /\ agents'[a].cmd = c
           \/ agents'[a].doing = "idle"
        /\ \A b \in Agents \ {a} : agents'[b] = agents[b]
    BY <1>5, HandleMoves
  <2>2. /\ Held(c) /\ ~Held(c)'
        /\ \A d \in Commands : Held(d)' => Held(d)
    BY <2>1 DEF Held, Placement, OneHolder
  <2>3. /\ handled'[c] > 0
        /\ \A d \in Commands \ {c} : handled'[d] = handled[d]
    BY <2>1
  <2>4. c \notin QueuedCommands /\ driver[c] # "new"
    BY <2>1, <2>2 DEF Placement, OnePlace, NewIsNowhere
  <2>5. NewIsNowhere' /\ OnePlace'
    BY <2>1, <2>2, <2>3, <2>4 DEF Placement, NewIsNowhere, OnePlace
  <2>6. OneHolder'
    BY <2>1 DEF Placement, OneHolder
  <2>7. AgentsHaveCommands'
    BY <2>1, <2>3 DEF Placement, AgentsHaveCommands
  <2> QED BY <2>5, <2>6, <2>7 DEF Placement
<1> QED BY <1>1, <1>2, <1>3, <1>4, <1>5 DEF AdapterNext, CommandSteps, CalmSteps

-----------------------------------------------------------------------------
(* The driver's waits and the delayed terminal Event *)

\* Whoever loses the session ends the waits: no command is waiting afterwards.
LEMMA LoseEndsWaits ==
    ASSUME AdapterTypeOK, WaitingIsBound, LoseOwnership
    PROVE  \A c \in Commands : driver'[c] # "waiting"
  BY DEF AdapterTypeOK, WaitingIsBound, LoseOwnership

\* The driver's wait is for a command of the owner that is queued or in flight.
LEMMA WaitingStep == ASSUME AdapterTypeOK, Placement, WaitingIsBound, AdapterNext PROVE WaitingIsBound'
<1>t. /\ driver \in [Commands -> DriverState] /\ live \in Session
      /\ releasedTo \in [Commands -> Leases]
  BY DEF AdapterTypeOK
<1>q. queue' = queue => QueuedCommands' = QueuedCommands
  BY DEF QueuedCommands
<1>n. ASSUME \A c \in Commands : driver'[c] # "waiting" PROVE WaitingIsBound'
  BY <1>n DEF WaitingIsBound
<1>k. ASSUME HasSession', live'.lease = live.lease,
             UNCHANGED <<bound, inFlight, driver, releasedTo>>, QueuedCommands' = QueuedCommands
      PROVE  WaitingIsBound'
  BY <1>k DEF WaitingIsBound
<1>u. ASSUME UNCHANGED <<live, queue, bound, inFlight, driver, releasedTo>>
      PROVE  WaitingIsBound'
  BY <1>u, <1>q DEF WaitingIsBound, HasSession
<1>1. CASE OwnerSteps
  <2>a. ASSUME HasSession, NEW age, live' = [live EXCEPT !.age = age]
        PROVE  HasSession' /\ live'.lease = live.lease
    <3>1. live'.lease = live.lease /\ live'.agent = live.agent
      BY <1>t, <2>a DEF Session
    <3>2. live.agent \in Agents /\ NoSession.agent = NoAgent
      BY <2>a DEF AdapterTypeOK, NoSession
    <3> QED BY <3>1, <3>2, NamesAssumption DEF NamesAssumption, HasSession
  <2>1. CASE Tick
    BY <1>k, <1>q, <2>a, <2>1 DEF Tick, commandVars, driverVars
  <2>2. CASE Expire
    BY <1>n, <2>2, LoseEndsWaits DEF Expire
  <2>3. CASE Restart
    BY <1>n, <2>3, <1>t DEF Restart
  <2>4. ASSUME NEW a \in Agents, NEW b \in BOOLEAN, Register(a, b) PROVE WaitingIsBound'
    <3>1. CASE Expired
      BY <1>n, <2>4, <3>1, LoseEndsWaits DEF Register
    <3>2. CASE ~HasSession
      BY <1>n, <2>4, <3>2 DEF Register, Expired, WaitingIsBound
    <3> QED BY <2>4, <3>1, <3>2 DEF Register
  <2>5. ASSUME NEW a \in Agents, NEW b \in BOOLEAN, Renew(a, b) PROVE WaitingIsBound'
    BY <1>k, <1>q, <2>a, <2>5 DEF Renew, Owns, commandVars, driverVars
  <2>6. ASSUME NEW a \in Agents, LearnLease(a) PROVE WaitingIsBound'
    BY <1>k, <1>q, <2>a, <2>6 DEF LearnLease, commandVars, driverVars
  <2>7. ASSUME NEW a \in Agents, Unregister(a) PROVE WaitingIsBound'
    BY <1>n, <1>u, <2>7, LoseEndsWaits DEF Unregister, commandVars
  <2> QED BY <1>1, <2>1, <2>2, <2>3, <2>4, <2>5, <2>6, <2>7 DEF OwnerSteps
<1>2. ASSUME NEW c \in Commands, EnqueueCommand(c) PROVE WaitingIsBound'
  <2>1. /\ HasSession' /\ live' = live /\ HasSession
        /\ releasedTo' = [releasedTo EXCEPT ![c] = live.lease]
        /\ driver' = [driver EXCEPT ![c] = "waiting"]
        /\ bound' = bound \union {c}
    BY <1>2 DEF EnqueueCommand, ownerVars, HasSession
  <2>2. /\ c \in QueuedCommands' \union inFlight'
        /\ QueuedCommands \union inFlight \subseteq QueuedCommands' \union inFlight'
    <3>1. CASE HandOver(c)
      BY <1>q, <3>1 DEF HandOver
    <3>2. CASE queue' = Append(queue, c) /\ UNCHANGED <<polls, inFlight, replies>>
      <4>1. c \notin QueuedCommands
        BY <1>2 DEF EnqueueCommand, Placement, NewIsNowhere
      <4>2. QueuedCommands' = QueuedCommands \union {c}
        BY <3>2, <4>1, QueueAppend DEF AdapterTypeOK
      <4> QED BY <3>2, <4>2
    <3> QED BY <1>2, <3>1, <3>2 DEF EnqueueCommand
  <2> QED BY <1>t, <2>1, <2>2 DEF WaitingIsBound
<1>3. ASSUME NEW c \in Commands, DriverTimeout(c) PROVE WaitingIsBound'
  BY <1>t, <1>q, <1>3 DEF DriverTimeout, Abandon, WaitingIsBound, ownerVars, HasSession
<1>4. ASSUME NEW a \in Agents, Poll(a) PROVE WaitingIsBound'
  <2>1. QueuedCommands' = QueuedCommands \ {Head(queue)}
    BY <1>4, QueueTail DEF Poll, AdapterTypeOK
  <2> QED BY <1>4, <2>1 DEF Poll, WaitingIsBound, ownerVars, driverVars, HasSession
<1>5. ASSUME NEW a \in Agents, SubmitResult(a) PROVE WaitingIsBound'
  BY <1>t, <1>q, <1>5 DEF SubmitResult, WaitingIsBound, ownerVars, HasSession
<1>6. ASSUME NEW i \in DOMAIN polls, PollTimeout(i) PROVE WaitingIsBound'
  BY <1>u, <1>6 DEF PollTimeout, ownerVars, driverVars
<1>7. ASSUME NEW r \in replies, LoseReply(r) PROVE WaitingIsBound'
  BY <1>u, <1>7 DEF LoseReply, ownerVars, commandVars, driverVars
<1>8. ASSUME NEW a \in Agents,
             \/ WaitForCommand(a) \/ Receive(a) \/ Handle(a, TRUE) \/ Handle(a, FALSE)
             \/ ResultRefused(a) \/ Exit(a)
      PROVE  WaitingIsBound'
  BY <1>u, <1>8 DEF WaitForCommand, Receive, Handle, ResultRefused, Exit, ownerVars,
     commandVars, driverVars
<1>9. CASE EventSteps
  BY <1>u, <1>9 DEF EventSteps, RetryTerminal, PushEvent, ownerVars, commandVars, driverVars
<1> QED BY <1>1, <1>2, <1>3, <1>4, <1>5, <1>6, <1>7, <1>8, <1>9 DEF AdapterNext, CommandSteps

\* A flush that keeps the Event leaves work behind, or a retry.
LEMMA FlushGates ==
    ASSUME DelayedIsGated, NEW q, NEW f, Flush(q, f), queue' = q, inFlight' = f
    PROVE  DelayedIsGated'
  BY DEF Flush, Commit, DelayedIsGated, WorkPending

\* A delayed terminal Event waits for work, for a retry, or for its producer.
LEMMA DelayedStep == ASSUME AdapterTypeOK, DelayedIsGated, AdapterNext PROVE DelayedIsGated'
<1>1. CASE LoseOwnership \/ CancelTerminal
  BY <1>1 DEF LoseOwnership, CancelTerminal, DelayedIsGated
<1>2. CASE UNCHANGED <<queue, inFlight, delayed, retry, refused>>
  BY <1>2 DEF DelayedIsGated, WorkPending
<1>3. CASE OwnerSteps
  BY <1>1, <1>2, <1>3 DEF OwnerSteps, Tick, Expire, Restart, Register, Renew, LearnLease,
     Unregister, commandVars, terminalVars
<1>4. ASSUME NEW c \in Commands, EnqueueCommand(c) PROVE DelayedIsGated'
  <2>1. queue' # <<>> \/ inFlight' # {}
    <3>1. CASE HandOver(c)
      BY <3>1 DEF HandOver
    <3>2. CASE queue' = Append(queue, c)
      BY <3>2, AppendProperties DEF AdapterTypeOK
    <3> QED BY <1>4, <3>1, <3>2 DEF EnqueueCommand
  <2> QED BY <2>1 DEF DelayedIsGated, WorkPending
<1>5. ASSUME NEW c \in Commands, DriverTimeout(c) PROVE DelayedIsGated'
  BY <1>5, FlushGates DEF DriverTimeout, Abandon
<1>6. ASSUME NEW a \in Agents, Poll(a) PROVE DelayedIsGated'
  BY <1>6 DEF Poll, DelayedIsGated, WorkPending
<1>7. ASSUME NEW a \in Agents, SubmitResult(a) PROVE DelayedIsGated'
  BY <1>7, FlushGates DEF SubmitResult
<1>8. ASSUME NEW i \in DOMAIN polls, PollTimeout(i) PROVE DelayedIsGated'
  BY <1>2, <1>8 DEF PollTimeout, terminalVars
<1>9. ASSUME NEW r \in replies, LoseReply(r) PROVE DelayedIsGated'
  BY <1>2, <1>9 DEF LoseReply, commandVars, terminalVars
<1>10. ASSUME NEW a \in Agents,
             \/ WaitForCommand(a) \/ Receive(a) \/ Handle(a, TRUE) \/ Handle(a, FALSE)
             \/ ResultRefused(a) \/ Exit(a)
      PROVE  DelayedIsGated'
  BY <1>2, <1>10 DEF WaitForCommand, Receive, Handle, ResultRefused, Exit, commandVars, terminalVars
<1>11. CASE RetryTerminal
  BY <1>11 DEF RetryTerminal, Commit, DelayedIsGated, WorkPending, commandVars
<1>12. ASSUME NEW a \in Agents, NEW e \in Events, PushEvent(a, e) PROVE DelayedIsGated'
  BY <1>12 DEF PushEvent, PushAgain, PushReserved, PushNew, Stage, Commit, CancelTerminal,
     DelayedIsGated, WorkPending, commandVars
<1> QED BY <1>3, <1>4, <1>5, <1>6, <1>7, <1>8, <1>9, <1>10, <1>11, <1>12
        DEF AdapterNext, CommandSteps, EventSteps

-----------------------------------------------------------------------------
(* Verdicts *)

\* Only an accepted result ends a wait with an answer; every other step leaves
\* a verdict alone, gives up a wait, or releases the command.
LEMMA VerdictSteps ==
    ASSUME AdapterTypeOK, AdapterNext, NEW c \in Commands
    PROVE  \/ driver'[c] = driver[c]
           \/ driver[c] = "waiting" /\ driver'[c] = "unknown"
           \/ EnqueueCommand(c)
           \/ /\ driver[c] = "waiting" /\ driver'[c] = "answered"
              /\ \E a \in Agents : SubmitResult(a) /\ agents[a].cmd = c
<1>t. driver \in [Commands -> DriverState]
  BY DEF AdapterTypeOK
<1>1. CASE UNCHANGED driver
  BY <1>1
<1>2. CASE LoseOwnership
  BY <1>2 DEF LoseOwnership
<1>3. CASE OwnerSteps
  BY <1>1, <1>2, <1>3 DEF OwnerSteps, Tick, Expire, Restart, Register, Renew, LearnLease,
     Unregister, driverVars
<1>4. CASE EventSteps
  BY <1>1, <1>4 DEF EventSteps, RetryTerminal, PushEvent, driverVars
<1>5. ASSUME NEW d \in Commands, EnqueueCommand(d), d # c PROVE driver'[c] = driver[c]
  BY <1>t, <1>5 DEF EnqueueCommand
<1>6. ASSUME NEW d \in Commands, DriverTimeout(d)
      PROVE  driver'[c] = driver[c] \/ (driver[c] = "waiting" /\ driver'[c] = "unknown")
  BY <1>t, <1>6 DEF DriverTimeout
<1>7. ASSUME NEW a \in Agents, SubmitResult(a)
      PROVE  \/ driver'[c] = driver[c]
             \/ /\ driver[c] = "waiting" /\ driver'[c] = "answered"
                /\ agents[a].cmd = c
  BY <1>t, <1>7 DEF SubmitResult
<1>8. ASSUME NEW i \in DOMAIN polls, PollTimeout(i) PROVE UNCHANGED driver
  BY <1>8 DEF PollTimeout, driverVars
<1>9. ASSUME NEW r \in replies, LoseReply(r) PROVE UNCHANGED driver
  BY <1>9 DEF LoseReply, driverVars
<1>10. ASSUME NEW a \in Agents,
             \/ Poll(a) \/ WaitForCommand(a) \/ Receive(a) \/ Handle(a, TRUE)
             \/ Handle(a, FALSE) \/ ResultRefused(a) \/ Exit(a)
      PROVE  UNCHANGED driver
  BY <1>10 DEF Poll, WaitForCommand, Receive, Handle, ResultRefused, Exit, driverVars
<1> QED BY <1>1, <1>3, <1>4, <1>5, <1>6, <1>7, <1>8, <1>9, <1>10 DEF AdapterNext, CommandSteps

\* The submission that ends a wait carries the lease of the release.
LEMMA AnswerStep ==
    ASSUME AdapterTypeOK, WaitingIsBound, [AdapterNext]_adapterVars
    PROVE  \A c \in Commands : driver[c] = "waiting" /\ driver'[c] = "answered" =>
              \E a \in Agents : /\ agents[a].doing = "answering"
                                /\ agents[a].cmd = c
                                /\ agents[a].cmdLease = releasedTo[c]
<1> SUFFICES ASSUME NEW c \in Commands, driver[c] = "waiting", driver'[c] = "answered"
             PROVE  \E a \in Agents : /\ agents[a].doing = "answering"
                                      /\ agents[a].cmd = c
                                      /\ agents[a].cmdLease = releasedTo[c]
  OBVIOUS
<1>1. AdapterNext
  BY DEF adapterVars, driverVars
<1>2. PICK a \in Agents : SubmitResult(a) /\ agents[a].cmd = c
  BY <1>1, VerdictSteps DEF EnqueueCommand
<1>3. /\ agents[a].doing = "answering"
      /\ Owns(a, agents[a].cmdLease)
  BY <1>2 DEF SubmitResult, Acceptable
<1>4. agents[a].cmdLease = releasedTo[c]
  BY <1>3 DEF Owns, WaitingIsBound
<1> QED BY <1>2, <1>3, <1>4

-----------------------------------------------------------------------------
(* The theorems *)

\* The inductive invariant holds at the start.
LEMMA InitInv == AdapterInit => AdapterInv
<1> SUFFICES ASSUME AdapterInit PROVE AdapterInv
  OBVIOUS
<1>1. /\ QueuedCommands = {} /\ queue \in Seq(Commands) /\ polls \in Seq(Waiter)
      /\ \A i, k \in DOMAIN queue : queue[i] = queue[k] => i = k
  BY DEF AdapterInit, QueuedCommands
<1>2. live \in Session /\ 0 \in Leases /\ restarts \in 0..MaxRestarts /\ ~HasSession
  BY LimitsAssumption DEF LimitsAssumption, AdapterInit, NoSession, Session, Leases, HasSession
<1>3. agents \in [Agents -> Agent]
  BY <1>2 DEF AdapterInit, NewAgent, Agent
<1>4. AdapterTypeOK
  BY <1>1, <1>2, <1>3 DEF AdapterInit, AdapterTypeOK, DriverState
<1>5. \A c \in Commands : ~Held(c)
  BY DEF AdapterInit, Held, NewAgent
<1>6. NewIsNowhere /\ OnePlace
  BY <1>1, <1>5 DEF AdapterInit, NewIsNowhere, OnePlace
<1>7. OneHolder /\ AgentsHaveCommands
  BY DEF AdapterInit, OneHolder, AgentsHaveCommands, NewAgent
<1>8. WaitingIsBound /\ DelayedIsGated
  BY DEF AdapterInit, WaitingIsBound, DelayedIsGated
<1> QED BY <1>4, <1>6, <1>7, <1>8 DEF AdapterInv, Placement

\* Every step keeps it.
LEMMA InvStep == AdapterInv /\ [AdapterNext]_adapterVars => AdapterInv'
<1> SUFFICES ASSUME AdapterInv, [AdapterNext]_adapterVars PROVE AdapterInv'
  OBVIOUS
<1>1. CASE AdapterNext
  <2>1. AdapterTypeOK'
    BY <1>1, OwnerTypes, EventTypes, CommandTypes DEF AdapterInv, AdapterNext
  <2> QED BY <1>1, <2>1, PlacementStep, WaitingStep, DelayedStep DEF AdapterInv
<1>2. CASE UNCHANGED adapterVars
  <2> USE <1>2 DEF adapterVars, ownerVars, commandVars, terminalVars, agentVars, driverVars, AdapterInv
  <2>1. AdapterTypeOK'
    BY DEF AdapterTypeOK, HasSession, QueuedCommands
  <2>2. Placement'
    BY DEF Placement, NewIsNowhere, OnePlace, OneHolder, AgentsHaveCommands, Held, QueuedCommands
  <2>3. WaitingIsBound' /\ DelayedIsGated'
    BY DEF WaitingIsBound, DelayedIsGated, HasSession, QueuedCommands, WorkPending
  <2> QED BY <2>1, <2>2, <2>3
<1> QED BY <1>1, <1>2

\* The adapter keeps its tables, one place for every command, the driver's
\* waits and the delayed Event.
THEOREM AdapterInvariance == AdapterSpec => []AdapterInv
BY InitInv, InvStep, PTL DEF AdapterSpec

\* Every table of the adapter keeps its type: what is in flight is bound, what
\* is queued is not in flight, and nothing is bound without an owner.
THEOREM AdapterTypeCorrect == AdapterSpec => []AdapterTypeOK
BY AdapterInvariance, PTL DEF AdapterInv

\* The driver never waits for a command that the registry has dropped.
THEOREM WaitsAreBound == AdapterSpec => []WaitingIsBound
BY AdapterInvariance, PTL DEF AdapterInv

\* A delayed terminal Event always waits for something that will release it: work
\* under way, a retry, or, when the write that accepts it failed, its producer's
\* repetition.
THEOREM DelayedEventIsGated == AdapterSpec => []DelayedIsGated
BY AdapterInvariance, PTL DEF AdapterInv

\* The driver is answered only under the lease the command was released to.
THEOREM OwnersAnswer == AdapterSpec => AnswersComeFromTheOwner
<1>1. AdapterInv /\ [AdapterNext]_adapterVars =>
         [\A c \in Commands : driver[c] = "waiting" /\ driver'[c] = "answered" =>
             \E a \in Agents : /\ agents[a].doing = "answering"
                               /\ agents[a].cmd = c
                               /\ agents[a].cmdLease = releasedTo[c]]_adapterVars
  BY AnswerStep DEF AdapterInv
<1> QED BY <1>1, AdapterInvariance, PTL DEF AdapterSpec, AnswersComeFromTheOwner

-----------------------------------------------------------------------------
(* The adapter implements the handover *)

\* Where a step leaves a command, by where it was.
LEMMA PlaceMoves ==
    ASSUME Placement, Calm, NEW c \in Commands
    PROVE  \/ Place(c)' = Place(c)
           \/ Place(c) \in {"offered", "taken"} /\ Place(c)' = "dropped"
<1>1. /\ Held(c)' => Held(c)
      /\ c \in QueuedCommands' => c \in QueuedCommands
      /\ handled'[c] = handled[c]
      /\ driver'[c] = "new" <=> driver[c] = "new"
  BY DEF Calm, Held
<1>2. /\ c \in QueuedCommands => ~Held(c)
      /\ c \in QueuedCommands \/ Held(c) => handled[c] = 0 /\ driver[c] # "new"
  BY DEF Placement, OnePlace, NewIsNowhere
<1> QED BY <1>1, <1>2 DEF Place

\* A calm step that answers nobody loses commands and waits, at most.
LEMMA CalmRefines ==
    ASSUME Placement, Calm,
           \A c \in Commands : \/ driver'[c] = driver[c]
                               \/ driver[c] = "waiting" /\ driver'[c] = "unknown"
    PROVE  Handover!Next
<1>a. PICK lost \in SUBSET Commands : lost = {c \in Commands : Place(c)' # Place(c)}
  OBVIOUS
<1>b. PICK given \in SUBSET Commands : given = {c \in Commands : driver'[c] # driver[c]}
  OBVIOUS
<1>1. \A c \in lost : Place(c) \in {"offered", "taken"} /\ Place(c)' = "dropped"
  BY <1>a, PlaceMoves
<1>2. \A c \in given : driver[c] = "waiting" /\ driver'[c] = "unknown"
  BY <1>b
<1>3. [c \in Commands |-> Place(c)]' =
         [c \in Commands |-> IF c \in lost THEN "dropped" ELSE [d \in Commands |-> Place(d)][c]]
  BY <1>a, <1>1
<1>4. [c \in Commands |-> IF driver[c] = "new" THEN "none" ELSE driver[c]]' =
         [c \in Commands |-> IF c \in given THEN "unknown"
                             ELSE [d \in Commands |-> IF driver[d] = "new" THEN "none"
                                                      ELSE driver[d]][c]]
  BY <1>b, <1>2
<1>5. Handover!Lose(lost, given)
  BY <1>1, <1>2, <1>3, <1>4 DEF Handover!Lose
<1> QED BY <1>5 DEF Handover!Next

\* An accepted result answers a command that was handled.
LEMMA SubmitRefines ==
    ASSUME AdapterTypeOK, Placement, NEW a \in Agents, SubmitResult(a),
           driver[agents[a].cmd] = "waiting"
    PROVE  Handover!Next
<1>1. PICK c \in Commands : agents[a].cmd = c
  BY DEF SubmitResult, Placement, AgentsHaveCommands
<1>2. agents[a].doing = "answering" /\ handled[c] > 0 /\ handled[c] \in Nat
  BY <1>1 DEF SubmitResult, Placement, AgentsHaveCommands, AdapterTypeOK
<1>3. c \notin QueuedCommands /\ ~Held(c)
  BY <1>2 DEF Placement, OnePlace
<1>4. Place(c) = "handled"
  BY <1>2, <1>3 DEF Place
<1>5. driver[c] = "waiting" /\ driver' = [driver EXCEPT ![c] = "answered"]
      /\ driver \in [Commands -> DriverState]
  BY <1>1 DEF SubmitResult, AdapterTypeOK
<1>6. \A d \in Commands : Place(d)' = Place(d)
  <2>1. 0 \in Leases
    BY LimitsAssumption DEF LimitsAssumption, Leases
  <2>2. agents'[a].doing = "idle" /\ \A b \in Agents \ {a} : agents'[b] = agents[b]
    BY <2>1, AgentSteps DEF SubmitResult, Submitted, AdapterTypeOK
  <2>3. \A d \in Commands : Held(d)' <=> Held(d)
    BY <1>2, <2>2 DEF SubmitResult, Held
  <2>4. /\ QueuedCommands' = QueuedCommands /\ handled' = handled
        /\ \A d \in Commands : driver'[d] = "new" <=> driver[d] = "new"
    BY <1>5 DEF SubmitResult, QueuedCommands
  <2> QED BY <2>3, <2>4 DEF Place
<1>7. [d \in Commands |-> Place(d)]' = [d \in Commands |-> Place(d)]
  BY <1>6
<1>8. [d \in Commands |-> IF driver[d] = "new" THEN "none" ELSE driver[d]]' =
         [[d \in Commands |-> IF driver[d] = "new" THEN "none" ELSE driver[d]]
             EXCEPT ![c] = "answered"]
  BY <1>5
<1>9. Handover!Answer(c)
  BY <1>4, <1>5, <1>7, <1>8 DEF Handover!Answer
<1> QED BY <1>9 DEF Handover!Next

\* The release of a command is the handover's.
LEMMA EnqueueRefines ==
    ASSUME AdapterTypeOK, Placement, NEW c \in Commands, EnqueueCommand(c)
    PROVE  Handover!Next
<1>1. /\ driver[c] = "new" /\ driver' = [driver EXCEPT ![c] = "waiting"]
      /\ driver \in [Commands -> DriverState]
      /\ UNCHANGED <<agents, handled>>
  BY EnqueueMoves DEF AdapterTypeOK
<1>2. c \notin QueuedCommands /\ ~Held(c) /\ handled[c] = 0
  BY <1>1 DEF Placement, NewIsNowhere
<1>3. Place(c) = "new"
  BY <1>1, <1>2 DEF Place
<1>4. /\ driver'[c] = "waiting"
      /\ \A d \in Commands \ {c} : driver'[d] = driver[d]
  BY <1>1
<1>5. \E to \in {"offered", "taken"} :
         Place(c)' = to /\ \A d \in Commands \ {c} : Place(d)' = Place(d)
  <2>1. CASE QueuedCommands' = QueuedCommands \union {c} /\ replies' = replies
    <3>1. \A d \in Commands : Held(d)' <=> Held(d)
      BY <1>1, <2>1 DEF Held
    <3>2. Place(c)' = "offered"
      BY <2>1 DEF Place
    <3>3. \A d \in Commands \ {c} : Place(d)' = Place(d)
      BY <1>1, <1>4, <2>1, <3>1 DEF Place
    <3> QED BY <3>2, <3>3
  <2>2. ASSUME QueuedCommands' = QueuedCommands,
               NEW r, r.cmd = c, replies' = replies \union {r}
        PROVE  /\ Place(c)' = "taken"
               /\ \A d \in Commands \ {c} : Place(d)' = Place(d)
    <3>1. Held(c)' /\ \A d \in Commands \ {c} : Held(d)' <=> Held(d)
      BY <1>1, <2>2 DEF Held
    <3>2. Place(c)' = "taken"
      BY <1>2, <2>2, <3>1 DEF Place
    <3>3. \A d \in Commands \ {c} : Place(d)' = Place(d)
      BY <1>1, <1>4, <2>2, <3>1 DEF Place
    <3> QED BY <3>2, <3>3
  <2> QED BY <2>1, <2>2, EnqueueMoves
<1>6. PICK to \in {"offered", "taken"} :
         Place(c)' = to /\ \A d \in Commands \ {c} : Place(d)' = Place(d)
  BY <1>5
<1>7. [d \in Commands |-> Place(d)]' = [[d \in Commands |-> Place(d)] EXCEPT ![c] = to]
  BY <1>6
<1>8. [d \in Commands |-> IF driver[d] = "new" THEN "none" ELSE driver[d]]' =
         [[d \in Commands |-> IF driver[d] = "new" THEN "none" ELSE driver[d]]
             EXCEPT ![c] = "waiting"]
  BY <1>1, <1>4
<1>9. Handover!Release(c)
  BY <1>1, <1>3, <1>7, <1>8 DEF Handover!Release
<1> QED BY <1>9 DEF Handover!Next

\* A poll answered from the queue takes the command.
LEMMA PollRefines ==
    ASSUME AdapterTypeOK, Placement, NEW a \in Agents, Poll(a)
    PROVE  Handover!Next
<1>1. PICK c \in QueuedCommands, r \in Reply :
            /\ c \in Commands
            /\ QueuedCommands' = QueuedCommands \ {c}
            /\ r.cmd = c /\ replies' = replies \union {r}
            /\ UNCHANGED <<driver, handled>>
            /\ agents' = [agents EXCEPT ![a].doing = "polling"]
            /\ agents[a].doing = "idle"
  BY PollMoves
<1>2. /\ agents'[a].doing = "polling"
      /\ \A b \in Agents \ {a} : agents'[b] = agents[b]
  BY <1>1 DEF AdapterTypeOK, Agent
<1>3. Held(c)' /\ \A d \in Commands \ {c} : Held(d)' <=> Held(d)
  BY <1>1, <1>2 DEF Held
<1>4. Place(c) = "offered" /\ Place(c)' = "taken"
  BY <1>1, <1>3 DEF Place
<1>5. \A d \in Commands \ {c} : Place(d)' = Place(d)
  BY <1>1, <1>3 DEF Place
<1>6. [d \in Commands |-> Place(d)]' = [[d \in Commands |-> Place(d)] EXCEPT ![c] = "taken"]
  BY <1>4, <1>5
<1>7. Handover!Take(c)
  BY <1>1, <1>4, <1>6 DEF Handover!Take
<1> QED BY <1>1, <1>7 DEF Handover!Next

\* The receipt of an answer is a stutter: the command was taken before.
LEMMA ReceiveRefines ==
    ASSUME AdapterTypeOK, Placement, NEW a \in Agents, Receive(a)
    PROVE  UNCHANGED <<[c \in Commands |-> Place(c)],
                       [c \in Commands |-> IF driver[c] = "new" THEN "none" ELSE driver[c]]>>
<1>1. PICK r \in replies :
          /\ r.cmd \in Commands
          /\ replies' = replies \ {r}
          /\ UNCHANGED <<queue, bound, driver, handled>>
          /\ QueuedCommands' = QueuedCommands
          /\ agents[a].doing = "polling"
          /\ agents'[a].doing = "holding" /\ agents'[a].cmd = r.cmd
          /\ \A b \in Agents \ {a} : agents'[b] = agents[b]
  BY ReceiveMoves
<1>2. \A c \in Commands : Held(c)' <=> Held(c)
  BY <1>1 DEF Held
<1>3. \A c \in Commands : Place(c)' = Place(c)
  BY <1>1, <1>2 DEF Place
<1> QED BY <1>1, <1>3

\* The handling of a command is the handover's.
LEMMA HandleRefines ==
    ASSUME AdapterTypeOK, Placement, NEW a \in Agents, NEW certain \in BOOLEAN, Handle(a, certain)
    PROVE  Handover!Next
<1>1. PICK c \in Commands :
          /\ agents[a].doing = "holding" /\ agents[a].cmd = c
          /\ handled' = [handled EXCEPT ![c] = @ + 1]
          /\ handled \in [Commands -> Nat]
          /\ UNCHANGED <<queue, bound, driver, replies>>
          /\ QueuedCommands' = QueuedCommands
          /\ \/ agents'[a].doing = "answering" /\ agents'[a].cmd = c
             \/ agents'[a].doing = "idle"
          /\ \A b \in Agents \ {a} : agents'[b] = agents[b]
  BY HandleMoves
<1>2. Held(c) /\ ~Held(c)' /\ \A d \in Commands \ {c} : Held(d)' <=> Held(d)
  BY <1>1 DEF Held, Placement, OneHolder
<1>3. c \notin QueuedCommands /\ handled[c] = 0
  BY <1>2 DEF Placement, OnePlace
<1>4. handled'[c] > 0 /\ \A d \in Commands \ {c} : handled'[d] = handled[d]
  BY <1>1
<1>5. Place(c) = "taken" /\ Place(c)' = "handled"
  BY <1>1, <1>2, <1>3, <1>4 DEF Place
<1>6. \A d \in Commands \ {c} : Place(d)' = Place(d)
  BY <1>1, <1>2, <1>4 DEF Place
<1>7. [d \in Commands |-> Place(d)]' = [[d \in Commands |-> Place(d)] EXCEPT ![c] = "handled"]
  BY <1>5, <1>6
<1>8. Handover!Handle(c)
  BY <1>1, <1>5, <1>7 DEF Handover!Handle
<1> QED BY <1>8 DEF Handover!Next

\* The adapter starts where the handover starts.
LEMMA InitRefines == AdapterInit => Handover!Init
<1> SUFFICES ASSUME AdapterInit PROVE Handover!Init
  OBVIOUS
<1>1. \A c \in Commands : Place(c) = "new"
  BY DEF AdapterInit, Place, QueuedCommands, Held, NewAgent
<1> QED BY <1>1 DEF AdapterInit, Handover!Init

\* Every step of the adapter is a step of the handover, or a stutter.
LEMMA StepRefines ==
    AdapterInv /\ [AdapterNext]_adapterVars =>
        [Handover!Next]_<<[c \in Commands |-> Place(c)],
                          [c \in Commands |-> IF driver[c] = "new" THEN "none" ELSE driver[c]]>>
<1> SUFFICES ASSUME AdapterInv, [AdapterNext]_adapterVars
             PROVE  \/ Handover!Next
                    \/ UNCHANGED <<[c \in Commands |-> Place(c)],
                          [c \in Commands |-> IF driver[c] = "new" THEN "none" ELSE driver[c]]>>
  OBVIOUS
<1>i. AdapterTypeOK /\ Placement
  BY DEF AdapterInv
<1>1. CASE UNCHANGED adapterVars
  BY <1>1 DEF adapterVars, commandVars, agentVars, driverVars, Place, QueuedCommands, Held
<1>2. CASE AdapterNext /\ CalmSteps
  <2>1. Calm
    BY <1>i, <1>2, CalmStepsAreCalm
  <2>2. CASE \E a \in Agents : SubmitResult(a) /\ driver[agents[a].cmd] = "waiting"
    BY <1>i, <2>2, SubmitRefines
  <2>3. CASE ~\E a \in Agents : SubmitResult(a) /\ driver[agents[a].cmd] = "waiting"
    <3>1. ASSUME NEW c \in Commands, EnqueueCommand(c) PROVE FALSE
      <4>1. driver[c] = "new" /\ driver' = [driver EXCEPT ![c] = "waiting"]
            /\ driver \in [Commands -> DriverState]
        BY <1>i, <3>1, EnqueueMoves DEF AdapterTypeOK
      <4> QED BY <2>1, <4>1 DEF Calm
    <3>2. \A c \in Commands : \/ driver'[c] = driver[c]
                              \/ driver[c] = "waiting" /\ driver'[c] = "unknown"
      BY <1>i, <1>2, <2>3, <3>1, VerdictSteps
    <3> QED BY <1>i, <2>1, <3>2, CalmRefines
  <2> QED BY <2>2, <2>3
<1>3. ASSUME NEW c \in Commands, EnqueueCommand(c) PROVE Handover!Next
  BY <1>i, <1>3, EnqueueRefines
<1>4. ASSUME NEW a \in Agents, Poll(a) PROVE Handover!Next
  BY <1>i, <1>4, PollRefines
<1>5. ASSUME NEW a \in Agents, NEW certain \in BOOLEAN, Handle(a, certain) PROVE Handover!Next
  BY <1>i, <1>5, HandleRefines
<1>6. ASSUME NEW a \in Agents, Receive(a)
      PROVE  UNCHANGED <<[c \in Commands |-> Place(c)],
                 [c \in Commands |-> IF driver[c] = "new" THEN "none" ELSE driver[c]]>>
  BY <1>i, <1>6, ReceiveRefines
<1> QED BY <1>1, <1>2, <1>3, <1>4, <1>5, <1>6 DEF AdapterNext, CommandSteps, CalmSteps

\* The adapter implements the handover: each released command is taken once,
\* handled once, and answered only after it was handled, whatever is queued,
\* lost, timed out, left behind by an agent or cut off by a restart.
THEOREM AdapterImplementsHandover == AdapterSpec => ImplementsHandover
BY InitRefines, StepRefines, AdapterInvariance, PTL
   DEF AdapterSpec, ImplementsHandover, Handover!Spec

-----------------------------------------------------------------------------
(* Pi's end: the invariant *)

\* Every delivery under way was given its order: there is an upper bound.
OrdersInv == \E b \in Nat : \A p \in pushes : p.order <= b
\* The extension has its state as long as Pi has the session open (index.ts:89).
OpenInv == ext = None <=> pi.phase = "none"
\* What every other part of the invariant rests on.
PiTypeInv == TypeOK /\ OpenInv /\ OrdersInv

\* A set of numbers that has a bound has a greatest element.
LEMMA Greatest ==
    ASSUME NEW S \in SUBSET Nat, S # {}, NEW b \in Nat, \A s \in S : s <= b
    PROVE  \E m \in S : \A s \in S : s <= m
<1> DEFINE Above(s) == (s + 1) .. b
           T == {Above(s) : s \in S}
<1>1. T # {} /\ T \subseteq FiniteSubsetsOf(0 .. b)
  <2>1. \A s \in S : Above(s) \in SUBSET (0 .. b)
    OBVIOUS
  <2>2. \A s \in S : IsFiniteSet(Above(s))
    BY FS_Interval
  <2>3. \A s \in S : Above(s) \in FiniteSubsetsOf(0 .. b)
    BY <2>1, <2>2 DEF FiniteSubsetsOf
  <2> HIDE DEF Above
  <2> QED BY <2>3
<1>2. PICK x \in T : \A y \in T : <<y, x>> \notin StrictSubsetOrdering(0 .. b)
  BY <1>1, FS_StrictSubsetOrderingWellFounded, WFMin, Zenon
<1>3. PICK m \in S : x = Above(m)
  BY <1>2
<1>4. ASSUME NEW s \in S, s > m PROVE FALSE
  <2>1. /\ Above(s) \subseteq Above(m) /\ Above(s) # Above(m)
        /\ Above(s) \in SUBSET (0 .. b) /\ Above(m) \in SUBSET (0 .. b)
    BY <1>4
  <2>2. <<Above(s), Above(m)>> \in StrictSubsetOrdering(0 .. b)
    <3> HIDE DEF Above
    <3> QED BY <2>1 DEF StrictSubsetOrdering
  <2>3. Above(s) \in T
    OBVIOUS
  <2> QED BY <2>2, <2>3, <1>2, <1>3
<1> QED BY <1>3, <1>4

\* A delivery's order is above that of every other one and of the last Event stored.
LEMMA OrderIsNew ==
    ASSUME TypeOK, OrdersInv
    PROVE  /\ allocateProducerEventOrder \in Nat
           /\ allocateProducerEventOrder > bridge.order
           /\ \A p \in pushes : allocateProducerEventOrder > p.order
<1> DEFINE used == {p.order : p \in pushes} \cup {bridge.order}
<1>1. used \in SUBSET Nat /\ used # {}
  BY DEF TypeOK, Pushes, Bridges
<1>2. PICK b \in Nat : \A p \in pushes : p.order <= b
  BY DEF OrdersInv
<1>3. PICK c \in Nat : \A u \in used : u <= c
  <2> DEFINE c == IF b < bridge.order THEN bridge.order ELSE b
  <2>1. c \in Nat /\ \A u \in used : u <= c
    BY <1>2 DEF TypeOK, Pushes, Bridges
  <2> HIDE DEF c, used
  <2> QED BY <2>1
<1>4. \E m \in used : \A u \in used : u <= m
  <2> HIDE DEF used
  <2> QED BY <1>1, <1>3, Greatest
<1> DEFINE top == CHOOSE m \in used : \A u \in used : u <= m
<1>5. top \in used /\ \A u \in used : u <= top
  <2> HIDE DEF used
  <2> QED BY <1>4
<1>6. allocateProducerEventOrder = 1 + top
  BY DEF allocateProducerEventOrder
<1>7. top \in Nat
  BY <1>1, <1>5
<1>8. bridge.order <= top /\ \A p \in pushes : p.order <= top
  BY <1>5
<1>9. bridge.order \in Nat /\ \A p \in pushes : p.order \in Nat
  BY DEF TypeOK, Pushes, Bridges
<1> HIDE DEF top, used
<1> QED BY <1>6, <1>7, <1>8, <1>9

-----------------------------------------------------------------------------

\* A record keeps its type when a field gets a value of the field's type.
LEMMA StateFields ==
    ASSUME NEW x \in States
    PROVE  /\ \A v \in Nat : /\ [x EXCEPT !.flow = v] \in States /\ [x EXCEPT !.seq = v] \in States
                             /\ [x EXCEPT !.cur = v] \in States /\ [x EXCEPT !.settled = v] \in States
                             /\ [x EXCEPT !.cursor = v] \in States
           /\ \A v \in BOOLEAN : /\ [x EXCEPT !.running = v] \in States /\ [x EXCEPT !.emitted = v] \in States
                                 /\ [x EXCEPT !.sending = v] \in States
           /\ \A v \in Nat \cup {None} : [x EXCEPT !.timer = v] \in States
           /\ \A v \in Results \cup {None} : [x EXCEPT !.result = v] \in States
           /\ \A v \in Alerts \cup {None} : [x EXCEPT !.alert = v] \in States
           /\ \A v \in Candidates \cup {None} : [x EXCEPT !.cand = v] \in States
           /\ \A v \in Leaves : [x EXCEPT !.leaf = v] \in States
           /\ x.flow \in Nat /\ x.seq \in Nat /\ x.cur \in Nat /\ x.settled \in Nat /\ x.cursor \in Nat
           /\ x.running \in BOOLEAN /\ x.emitted \in BOOLEAN /\ x.sending \in BOOLEAN
           /\ x.timer \in Nat \cup {None} /\ x.result \in Results \cup {None}
           /\ x.alert \in Alerts \cup {None} /\ x.cand \in Candidates \cup {None} /\ x.leaf \in Leaves
BY DEF States

\* The same of the client's record.
LEMMA ClientFields ==
    ASSUME NEW c \in Clients
    PROVE  /\ \A v \in Nat : [c EXCEPT !.lease = v] \in Clients /\ [c EXCEPT !.gen = v] \in Clients
           /\ \A v \in Seq(Items) : [c EXCEPT !.queue = v] \in Clients
           /\ \A v \in {"none", "queued", "retry", "done"} : [c EXCEPT !.reg = v] \in Clients
           /\ c.lease \in Nat /\ c.gen \in Nat /\ c.queue \in Seq(Items)
BY DEF Clients

\* The same of the Bridge's record.
LEMMA BridgeFields ==
    ASSUME NEW b \in Bridges
    PROVE  /\ \A v \in Nat : /\ [b EXCEPT !.lease = v] \in Bridges /\ [b EXCEPT !.issued = v] \in Bridges
                             /\ [b EXCEPT !.order = v] \in Bridges
           /\ \A v \in Seq([run : Nat, inputs : Nat]) : [b EXCEPT !.events = v] \in Bridges
           /\ \A v \in SUBSET Nat : [b EXCEPT !.handled = v] \in Bridges /\ [b EXCEPT !.lost = v] \in Bridges
           /\ \A v \in BOOLEAN : [b EXCEPT !.sure = v] \in Bridges
           /\ b.lease \in Nat /\ b.issued \in Nat /\ b.order \in Nat /\ b.sure \in BOOLEAN
           /\ b.events \in Seq([run : Nat, inputs : Nat])
           /\ b.handled \in SUBSET Nat /\ b.lost \in SUBSET Nat
BY DEF Bridges

\* The reducer's helpers make a state of a state.
LEMMA HelpersKeepTypes ==
    ASSUME NEW x \in States
    PROVE  /\ invalidatePendingTerminal(x) \in States
           /\ schedulePendingTerminal(x) \in States
           /\ beginNewLowLevelRun(x) \in States
           /\ clearBranchSensitiveState(x) \in States
           /\ InputEndsPending(x) \in States
           /\ \A p \in Pushes : Released(x, p) \in States
<1>1. \A y \in States : invalidatePendingTerminal(y) \in States
  BY StateFields DEF invalidatePendingTerminal
<1>2. invalidatePendingTerminal(x).flow = x.flow
  BY DEF invalidatePendingTerminal, States
<1> HIDE DEF invalidatePendingTerminal
<1>3. schedulePendingTerminal(x) \in States
  BY StateFields DEF schedulePendingTerminal
<1> DEFINE y == invalidatePendingTerminal(x)
<1>y. y \in States /\ y.flow \in Nat /\ y.seq \in Nat /\ x.seq \in Nat
  BY <1>1, <1>2, StateFields
<1> HIDE DEF y
<1>z. /\ [y EXCEPT !.result = None].flow = y.flow
      /\ [y EXCEPT !.result = None, !.emitted = FALSE].flow = y.flow
      /\ [y EXCEPT !.result = None, !.emitted = FALSE, !.flow = y.flow + 1].seq = y.seq
      /\ [y EXCEPT !.result = None, !.emitted = FALSE, !.cand = None].flow = y.flow
  BY <1>y DEF States
<1>n. y.flow + 1 \in Nat /\ y.seq + 1 \in Nat /\ x.seq + 1 \in Nat /\ 0 \in Nat
  BY <1>y
<1>f. \A z \in States :
        /\ [z EXCEPT !.result = None] \in States /\ [z EXCEPT !.cand = None] \in States
        /\ [z EXCEPT !.emitted = FALSE] \in States
        /\ [z EXCEPT !.flow = y.flow + 1] \in States /\ [z EXCEPT !.seq = y.seq + 1] \in States
        /\ [z EXCEPT !.cur = x.seq + 1] \in States /\ [z EXCEPT !.cur = 0] \in States
        /\ [z EXCEPT !.settled = 0] \in States
        /\ [z EXCEPT !.running = TRUE] \in States /\ [z EXCEPT !.running = FALSE] \in States
  BY <1>n, StateFields
<1>4. beginNewLowLevelRun(x) \in States
  <2>1. beginNewLowLevelRun(x) = [y EXCEPT
          !.result = None, !.emitted = FALSE, !.flow = y.flow + 1, !.seq = y.seq + 1,
          !.cur = x.seq + 1, !.settled = 0, !.running = TRUE]
    BY <1>z DEF beginNewLowLevelRun, y
  <2> QED BY <2>1, <1>y, <1>f
<1>5. clearBranchSensitiveState(x) \in States
  <2>1. clearBranchSensitiveState(x) = [y EXCEPT
          !.result = None, !.emitted = FALSE, !.cand = None, !.flow = y.flow + 1,
          !.running = FALSE, !.cur = 0, !.settled = 0]
    BY <1>z DEF clearBranchSensitiveState, y
  <2> QED BY <2>1, <1>y, <1>f
<1>6. InputEndsPending(x) \in States
  <2>1. InputEndsPending(x) = [y EXCEPT
          !.result = None, !.flow = y.flow + 1, !.running = FALSE, !.cur = 0, !.settled = 0]
    BY <1>z DEF InputEndsPending, y
  <2> QED BY <2>1, <1>y, <1>f
<1>7. \A p \in Pushes : Released(x, p) \in States
  BY StateFields DEF Released
<1> QED BY <1>1, <1>3, <1>4, <1>5, <1>6, <1>7

\* A client with one thing more to do is a client.
LEMMA EnqueueKeepsTypes ==
    ASSUME NEW c \in Clients, NEW item \in Items
    PROVE  Enqueue(c, item) \in Clients
<1>1. Append(c.queue, item) \in Seq(Items)
  BY ClientFields, AppendProperties
<1> QED BY <1>1, ClientFields DEF Enqueue

\* What the extension enqueues are items.
LEMMA ItemsAreTyped ==
    /\ \A e \in Nat : HandleItem(e) \in Items /\ RegisterItem(e) \in Items
    /\ UnregisterItem \in Items /\ HeartbeatItem \in Items
BY DEF HandleItem, RegisterItem, UnregisterItem, HeartbeatItem, Items

\* A counted input or run leaves the counts well formed.
LEMMA CountedIsTyped ==
    ASSUME TypeOK
    PROVE  /\ Counts => Counted(n) \in [runs : Nat, inputs : Nat, events : 0 .. MaxEvents]
           /\ Counted(n).runs = n.runs /\ Counted(n).inputs = n.inputs
BY PiBounds DEF TypeOK, Counts, Counted

-----------------------------------------------------------------------------
(* What the steps do to the reducer's state. *)

\* The fields that a settlement, the quiet window and a delivery do not touch.
Kept(x, y) ==
    /\ y.flow = x.flow /\ y.cursor = x.cursor /\ y.leaf = x.leaf

\* The settlement of a run takes its result, and may leave an alert for it.
Settled ==
    /\ ext' \in States /\ Kept(ext, ext') /\ ext'.cand = ext.cand /\ ext'.sending = ext.sending
    /\ \/ /\ ext.alert # None \/ ext.cur = 0
          /\ ext' = ext /\ status' = status
       \/ /\ ext.alert = None /\ ext'.alert = None /\ ext'.result = None
          /\ \/ status' = status
             \/ ext.result # None /\ (ext.result # None => ext.result.outcome = "aborted") /\ status' = "idle"
       \/ /\ ext.alert = None /\ ext.result # None /\ ext'.result = None /\ status' = status
          /\ ext'.alert \in Alerts /\ ext'.alert.run = n.runs /\ ext'.alert.outcome = ext.result.outcome

\* A settlement does this.
LEMMA SettleDoes == ASSUME TypeOK, ext # None, Settle PROVE Settled
<1>x. ext \in States
  BY DEF TypeOK
<1> DEFINE gen == ext.cur
           result == ext.result
           taken == [ext EXCEPT !.result = None, !.cur = 0]
           settled == [taken EXCEPT !.settled = gen]
           still == [taken EXCEPT !.running = FALSE]
           done == [settled EXCEPT !.emitted = TRUE]
           alert == [run |-> n.runs, gen |-> gen, flow |-> settled.flow, outcome |-> result.outcome,
                     print |-> Fingerprint(settled.leaf, result.outcome)]
           submitted == [settled EXCEPT !.alert = alert]
<1>f. \A z \in States : /\ [z EXCEPT !.result = None] \in States /\ [z EXCEPT !.cur = 0] \in States
                        /\ [z EXCEPT !.running = FALSE] \in States /\ [z EXCEPT !.emitted = TRUE] \in States
  BY StateFields
<1>g. gen \in Nat /\ \A z \in States : [z EXCEPT !.settled = gen] \in States
  BY <1>x, StateFields
<1>1. taken \in States /\ settled \in States /\ still \in States /\ done \in States
  <2>1. taken \in States
    BY <1>x, <1>f
  <2>2. settled \in States
    BY <2>1, <1>g
  <2> HIDE DEF taken, settled
  <2> QED BY <2>1, <2>2, <1>f
<1>2. \A y \in {taken, settled, still, done} :
        /\ Kept(ext, y) /\ y.cand = ext.cand /\ y.sending = ext.sending /\ y.alert = ext.alert
        /\ y.result = None
  BY <1>x DEF Kept, States
<1>3. ASSUME result # None, result.outcome \notin {"absent", "aborted"}
      PROVE  /\ alert \in Alerts /\ schedulePendingTerminal(submitted) \in States
             /\ Kept(ext, schedulePendingTerminal(submitted))
             /\ schedulePendingTerminal(submitted).cand = ext.cand
             /\ schedulePendingTerminal(submitted).sending = ext.sending
             /\ schedulePendingTerminal(submitted).result = None
             /\ schedulePendingTerminal(submitted).alert = alert
  <2>1. result \in Results /\ result.outcome \in Outcomes
    BY <1>3, <1>x, StateFields DEF Results
  <2>2. alert \in Alerts
    BY <2>1, <1>1, <1>g, StateFields DEF Alerts, Fingerprint, TypeOK
  <2> HIDE DEF settled, alert
  <2>3. submitted \in States
    BY <1>1, <2>2, StateFields
  <2>4. schedulePendingTerminal(submitted) \in States
    BY <2>3, HelpersKeepTypes
  <2>5. LET y == schedulePendingTerminal(submitted)
        IN /\ Kept(settled, y) /\ y.cand = settled.cand /\ y.sending = settled.sending
           /\ y.result = settled.result /\ y.alert = alert
    BY <1>1 DEF schedulePendingTerminal, Kept, States
  <2> QED BY <2>2, <2>4, <2>5, <1>2 DEF Kept
<1>4. CASE ext' = ext /\ status' = status /\ (ext.alert # None \/ ext.cur = 0)
  BY <1>4, <1>x DEF Settled, Kept
<1>5. CASE ext.alert = None /\ ext' \in {taken, settled, still} /\ status' = status
  <2> HIDE DEF taken, settled, still, done
  <2> QED BY <1>5, <1>1, <1>2 DEF Settled
<1>6. CASE ext.alert = None /\ ext' = done /\ status' = "idle" /\ result # None /\ result.outcome = "aborted"
  <2> HIDE DEF taken, settled, still, done
  <2> QED BY <1>6, <1>1, <1>2 DEF Settled
<1>7. CASE /\ ext.alert = None /\ result # None /\ result.outcome \notin {"absent", "aborted"}
           /\ ext' = schedulePendingTerminal(submitted) /\ status' = status
  <2>1. alert.run = n.runs /\ alert.outcome = result.outcome
    OBVIOUS
  <2> HIDE DEF alert, submitted
  <2> QED BY <2>1, <1>7, <1>3 DEF Settled
<1> QED
  <2> HIDE DEF Settled
  <2> QED BY <1>4, <1>5, <1>6, <1>7 DEF Settle, SubmitCandidate

\* An input is noted, may have what it acknowledges reported, and ends what was
\* pending unless Pi queues it.
Typed ==
    /\ ext' \in States /\ ext'.cursor = ext.cursor + 1 /\ ext'.leaf = ext.leaf
    /\ ext.cand = None => ext'.cand = None
    /\ ext.cand # None => ext'.cand # None /\ ext'.cand.event = ext.cand.event
    /\ \/ /\ pi.phase \in {"running", "ended"} /\ pi' = pi
          /\ ext'.alert = ext.alert /\ ext'.sending = ext.sending /\ ext'.result = ext.result
          /\ ext'.flow = ext.flow /\ ext'.settled = ext.settled /\ ext'.cur = ext.cur
       \/ ext'.alert = None /\ ext'.result = None /\ pi' = [pi EXCEPT !.outcome = None]
    /\ \/ client' = client
       \/ /\ ext.cand # None /\ (ext.cand # None => HandleItem(ext.cand.event) \in Items)
          /\ client' = Enqueue(client, HandleItem(ext.cand.event))

\* An input does this.
LEMMA InputDoes == ASSUME TypeOK, ext # None, Input PROVE Typed
<1> DEFINE typed == [ext EXCEPT !.cursor = @ + 1]
           noted == IF Reports(typed) THEN [typed EXCEPT !.cand.reported = TRUE] ELSE typed
           ended == InputEndsPending(noted)
<1>1. ext \in States
  BY DEF TypeOK
<1>2. /\ typed \in States /\ typed.cand = ext.cand /\ typed.cursor = ext.cursor + 1 /\ typed.leaf = ext.leaf
      /\ typed.alert = ext.alert /\ typed.sending = ext.sending /\ typed.result = ext.result
      /\ typed.flow = ext.flow /\ typed.settled = ext.settled /\ typed.cur = ext.cur
  <2>1. ext.cursor + 1 \in Nat
    BY <1>1, StateFields
  <2> QED BY <1>1, <2>1, StateFields DEF States
<1>3. /\ noted \in States /\ noted.cursor = ext.cursor + 1 /\ noted.leaf = ext.leaf
      /\ noted.alert = ext.alert /\ noted.sending = ext.sending /\ noted.result = ext.result
      /\ noted.flow = ext.flow /\ noted.settled = ext.settled /\ noted.cur = ext.cur
      /\ ext.cand = None => noted.cand = None
      /\ ext.cand # None => noted.cand # None /\ noted.cand.event = ext.cand.event
  <2> HIDE DEF typed
  <2>1. CASE typed.cand # None
    <3> DEFINE cand == [typed.cand EXCEPT !.reported = TRUE]
    <3>1. typed.cand \in Candidates
      BY <1>2, <2>1, StateFields
    <3>2. cand \in Candidates /\ cand.event = typed.cand.event /\ cand # None
      BY <3>1, NoneAssumption DEF Candidates
    <3>3. [typed EXCEPT !.cand.reported = TRUE] = [typed EXCEPT !.cand = cand]
      OBVIOUS
    <3> HIDE DEF cand
    <3>4. LET y == [typed EXCEPT !.cand = cand]
          IN /\ y \in States /\ y.cand = cand /\ y.cursor = typed.cursor /\ y.leaf = typed.leaf
             /\ y.alert = typed.alert /\ y.sending = typed.sending /\ y.result = typed.result
             /\ y.flow = typed.flow /\ y.settled = typed.settled /\ y.cur = typed.cur
      BY <1>2, <3>2 DEF States
    <3> QED BY <3>2, <3>3, <3>4, <1>2, <2>1
  <2>2. CASE typed.cand = None
    BY <1>2, <2>2 DEF Reports
  <2> QED BY <2>1, <2>2
<1>4. /\ ended \in States /\ ended.cursor = noted.cursor /\ ended.leaf = noted.leaf
      /\ ended.alert = None /\ ended.result = None /\ ended.cand = noted.cand
  <2> HIDE DEF noted
  <2>1. ended \in States
    BY <1>3, HelpersKeepTypes
  <2> QED BY <1>3, <2>1 DEF InputEndsPending, invalidatePendingTerminal, States
<1>5. Reports(typed) => ext.cand # None /\ (ext.cand # None => HandleItem(ext.cand.event) \in Items)
  <2>1. ext.cand # None => ext.cand.event \in Nat
    BY <1>1, StateFields DEF Candidates
  <2> QED BY <1>2, <2>1, ItemsAreTyped DEF Reports
<1>6. \/ pi.phase \in {"running", "ended"} /\ pi' = pi /\ ext' = noted
      \/ pi' = [pi EXCEPT !.outcome = None] /\ ext' = ended
  BY DEF Input
<1>7. client' = IF Reports(typed) THEN Enqueue(client, HandleItem(ext.cand.event)) ELSE client
  BY DEF Input
<1> HIDE DEF typed, noted, ended
<1> QED BY <1>3, <1>4, <1>5, <1>6, <1>7 DEF Typed

\* The end of the quiet window lets the alert be, gives it up for new work, or begins
\* its delivery.
Request(order) ==
    [alert |-> ext.alert, token |-> token, leaf |-> ext.leaf,
     flow |-> ext.flow, settled |-> ext.settled, cursor |-> ext.cursor,
     lease |-> client.lease, order |-> order, inputs |-> n.inputs, answer |-> None]

Quieted ==
    /\ ext' \in States /\ Kept(ext, ext') /\ ext'.cand = ext.cand /\ ext'.result = ext.result
    /\ ext'.settled = ext.settled /\ ext'.cur = ext.cur
    /\ \/ pushes' = pushes /\ ext'.alert = ext.alert /\ ext'.sending = ext.sending
       \/ pushes' = pushes /\ ext'.alert = None
       \/ /\ pushes' = pushes \cup {Request(allocateProducerEventOrder)}
          /\ pi.phase # "starting" /\ ext.alert # None /\ ~ext.sending
          /\ ext'.alert = ext.alert /\ ext'.sending = TRUE

\* The end of a quiet window does this.
LEMMA QuietDoes == ASSUME TypeOK, QuietWindowEnds PROVE ext \in States /\ Quieted
<1>1. ext \in States
  BY DEF QuietWindowEnds, TypeOK
<1> DEFINE off == [ext EXCEPT !.timer = None]
           begun == [ext EXCEPT !.timer = None, !.sending = TRUE]
           given == invalidatePendingTerminal(ext)
<1>2. /\ off \in States /\ begun \in States /\ given \in States
      /\ off.alert = ext.alert /\ off.sending = ext.sending /\ given.alert = None
      /\ begun.alert = ext.alert /\ begun.sending = TRUE
  <2>1. off \in States /\ begun \in States /\ given \in States
    BY <1>1, StateFields, HelpersKeepTypes
  <2> QED BY <1>1, <2>1 DEF States, invalidatePendingTerminal
<1>3. \A y \in {off, begun, given} :
        /\ Kept(ext, y) /\ y.cand = ext.cand /\ y.result = ext.result
        /\ y.settled = ext.settled /\ y.cur = ext.cur
  BY <1>1 DEF Kept, States, invalidatePendingTerminal
<1>4. \/ pushes' = pushes /\ ext' \in {off, given}
      \/ /\ pushes' = pushes \cup {Request(allocateProducerEventOrder)}
         /\ pi.phase # "starting" /\ ext.alert # None /\ ~ext.sending
         /\ ext' = begun
  BY DEF QuietWindowEnds, Stable, runtimeHasNewWork, Request
<1> HIDE DEF off, begun, given
<1> QED BY <1>1, <1>2, <1>3, <1>4 DEF Quieted

\* The Bridge stores the Event of a delivery or refuses it.
Arrived(p) ==
    \/ /\ p.order > bridge.order
       /\ bridge' = [bridge EXCEPT !.order = p.order,
                        !.events = Append(@, [run |-> p.alert.run, inputs |-> p.inputs])]
       /\ bridge' \in Bridges
       /\ bridge'.order = p.order /\ bridge'.lost = bridge.lost /\ bridge'.handled = bridge.handled
       /\ bridge'.lease = bridge.lease /\ bridge'.sure = bridge.sure
       /\ bridge'.events = Append(bridge.events, [run |-> p.alert.run, inputs |-> p.inputs])
       /\ pushes' = (pushes \ {p}) \cup {[p EXCEPT !.answer = Len(bridge.events) + 1]}
    \/ bridge' = bridge /\ pushes' = (pushes \ {p}) \cup {[p EXCEPT !.answer = 0]}

\* A delivery that arrives does this.
LEMMA ArrivalDoes == ASSUME TypeOK, NEW p \in pushes, PushArrives(p) PROVE Arrived(p)
<1> DEFINE event == [run |-> p.alert.run, inputs |-> p.inputs]
           events == Append(bridge.events, event)
           stored == [bridge EXCEPT !.order = p.order, !.events = Append(@, event)]
<1>1. p.order \in Nat /\ bridge \in Bridges /\ event \in [run : Nat, inputs : Nat]
  BY DEF TypeOK, Pushes, Alerts
<1>2. events \in Seq([run : Nat, inputs : Nat])
  BY <1>1, BridgeFields, AppendProperties
<1>3. stored = [bridge EXCEPT !.order = p.order, !.events = events]
  BY <1>1 DEF Bridges
<1>4. stored \in Bridges
  <2> HIDE DEF events, stored
  <2> QED BY <1>1, <1>2, <1>3, BridgeFields
<1>5. /\ stored.order = p.order /\ stored.lost = bridge.lost /\ stored.handled = bridge.handled
      /\ stored.lease = bridge.lease /\ stored.sure = bridge.sure /\ stored.events = events
  <2> HIDE DEF events, stored
  <2> QED BY <1>1, <1>3 DEF Bridges
<1>6. \/ p.order > bridge.order /\ bridge' = stored /\ pushes' = (pushes \ {p}) \cup {[p EXCEPT !.answer = Len(bridge.events) + 1]}
      \/ bridge' = bridge /\ pushes' = (pushes \ {p}) \cup {[p EXCEPT !.answer = 0]}
  BY DEF PushArrives
<1> QED
  <2>1. CASE bridge' = bridge /\ pushes' = (pushes \ {p}) \cup {[p EXCEPT !.answer = 0]}
    BY <2>1 DEF Arrived
  <2>2. CASE p.order > bridge.order /\ bridge' = stored /\ pushes' = (pushes \ {p}) \cup {[p EXCEPT !.answer = Len(bridge.events) + 1]}
    <3>1. bridge' = [bridge EXCEPT !.order = p.order,
                        !.events = Append(@, [run |-> p.alert.run, inputs |-> p.inputs])]
      BY <2>2
    <3>2. bridge'.events = Append(bridge.events, [run |-> p.alert.run, inputs |-> p.inputs])
      BY <2>2, <1>5
    <3> HIDE DEF stored, events, event
    <3> QED BY <3>1, <3>2, <2>2, <1>4, <1>5 DEF Arrived
  <2> QED BY <1>6, <2>1, <2>2

\* The delivery is over; its alert may be tried again.
Freed(p) ==
    /\ ext' \in States /\ Kept(ext, ext') /\ ext'.result = ext.result
    /\ ext'.settled = ext.settled /\ ext'.cur = ext.cur
    /\ ext'.alert = ext.alert
    /\ SameAlert(p) => ext'.sending = FALSE
    /\ ~SameAlert(p) => ext'.sending = ext.sending

\* The alert is delivered.
Delivered ==
    /\ ext' \in States /\ Kept(ext, ext') /\ ext'.result = ext.result
    /\ ext'.settled = ext.settled /\ ext'.cur = ext.cur
    /\ ext'.alert = None

\* A delivery that is over gives up only its hold on its alert.
LEMMA ReleasedKeeps ==
    ASSUME NEW x \in States, NEW p \in Pushes
    PROVE  /\ Released(x, p) \in States /\ Kept(x, Released(x, p))
           /\ Released(x, p).result = x.result /\ Released(x, p).settled = x.settled
           /\ Released(x, p).cur = x.cur /\ Released(x, p).cand = x.cand
           /\ Released(x, p).alert = x.alert
           /\ SameAlert(p) => Released(x, p).sending = FALSE
           /\ ~SameAlert(p) => Released(x, p).sending = x.sending
<1>1. Released(x, p) \in States
  BY HelpersKeepTypes
<1>2. CASE SameAlert(p)
  <2>1. Released(x, p) = [x EXCEPT !.sending = FALSE]
    BY <1>2 DEF Released
  <2> QED BY <1>1, <1>2, <2>1 DEF Kept, States
<1>3. CASE ~SameAlert(p)
  BY <1>1, <1>3 DEF Released, Kept
<1> QED BY <1>2, <1>3

\* A delivery that failed frees its alert and takes nothing up.
LEMMA FailureDoes ==
    ASSUME TypeOK, ext # None, NEW p \in pushes, PushFails(p)
    PROVE  Freed(p) /\ ext'.cand = ext.cand
<1> DEFINE x == Released(ext, p)
<1>1. ext \in States /\ p \in Pushes
  BY DEF TypeOK
<1>2. /\ x \in States /\ Kept(ext, x) /\ x.result = ext.result /\ x.settled = ext.settled
      /\ x.cur = ext.cur /\ x.cand = ext.cand /\ x.alert = ext.alert
      /\ SameAlert(p) => x.sending = FALSE
      /\ ~SameAlert(p) => x.sending = ext.sending
  BY <1>1, ReleasedKeeps
<1>3. ext' \in {x, schedulePendingTerminal(x)}
  BY DEF PushFails
<1> HIDE DEF x
<1>4. LET y == schedulePendingTerminal(x)
      IN /\ y \in States /\ Kept(x, y) /\ y.result = x.result /\ y.settled = x.settled
         /\ y.cur = x.cur /\ y.cand = x.cand /\ y.alert = x.alert /\ y.sending = x.sending
  <2>1. schedulePendingTerminal(x) \in States
    BY <1>2, HelpersKeepTypes
  <2> QED BY <1>2, <2>1 DEF schedulePendingTerminal, Kept, States
<1> QED BY <1>2, <1>3, <1>4 DEF Freed, Kept

\* A stored Event is taken up by the flow that still waits for it, and reported as
\* handled when an input came in the meantime.
Taken(p) ==
    \/ /\ ~SameBranch(p) \/ ~SameFlow(p)
       /\ Freed(p) /\ ext'.cand = ext.cand /\ status' = status /\ client' = client
    \/ /\ SameBranch(p) /\ ext'.cand # None /\ ext'.cand.event = p.answer /\ p.answer # 0
       /\ \/ /\ InputSince(p) /\ Freed(p) /\ status' = status
             /\ client' = Enqueue(client, HandleItem(p.answer)) /\ HandleItem(p.answer) \in Items
          \/ SameFlow(p) /\ ~InputSince(p) /\ Delivered /\ status' = "terminal" /\ client' = client

\* A delivery that was accepted is taken up, or comes too late.
LEMMA SuccessDoes ==
    ASSUME TypeOK, ext # None, NEW p \in pushes, p.answer \notin {None, 0}, PushSucceeds(p)
    PROVE  Taken(p) /\ prints' \subseteq (Leaves \X Outcomes)
<1> DEFINE x == Released(ext, p)
           cand == [event |-> p.answer, observed |-> p.cursor, reported |-> InputSince(p)]
           waiting == [x EXCEPT !.cand = cand]
           delivered == [ext EXCEPT !.emitted = TRUE, !.alert = None, !.cand = cand]
<1>1. ext \in States /\ p \in Pushes /\ p.answer \in Nat
  BY DEF TypeOK, Pushes
<1>2. /\ x \in States /\ Kept(ext, x) /\ x.result = ext.result /\ x.settled = ext.settled
      /\ x.cur = ext.cur /\ x.cand = ext.cand /\ x.alert = ext.alert
      /\ SameAlert(p) => x.sending = FALSE
      /\ ~SameAlert(p) => x.sending = ext.sending
  BY <1>1, ReleasedKeeps
<1>3. cand \in Candidates /\ cand.event = p.answer /\ cand # None
  <2>1. cand \in Candidates
    BY <1>1 DEF Candidates, Pushes, InputSince
  <2> QED BY <2>1, NoneAssumption
<1>4. /\ waiting \in States /\ Kept(x, waiting) /\ waiting.result = x.result
      /\ waiting.settled = x.settled /\ waiting.cur = x.cur /\ waiting.alert = x.alert
      /\ waiting.sending = x.sending /\ waiting.cand = cand
  <2> HIDE DEF x, cand
  <2>1. waiting \in States
    BY <1>2, <1>3, StateFields
  <2> QED BY <1>2, <2>1 DEF Kept, States
<1>5. /\ delivered \in States /\ Kept(ext, delivered) /\ delivered.result = ext.result
      /\ delivered.settled = ext.settled /\ delivered.cur = ext.cur /\ delivered.alert = None
      /\ delivered.cand = cand
  <2> HIDE DEF x, cand
  <2>0. \A z \in States : /\ [z EXCEPT !.emitted = TRUE] \in States /\ [z EXCEPT !.alert = None] \in States
                          /\ [z EXCEPT !.cand = cand] \in States
    BY <1>3, StateFields
  <2>1. delivered \in States
    BY <1>1, <2>0
  <2> QED BY <1>1, <2>1 DEF Kept, States
<1>6. HandleItem(p.answer) \in Items
  BY <1>1, ItemsAreTyped
<1>7. prints' \subseteq (Leaves \X Outcomes)
  <2>1. p.alert.print = None \/ p.alert.print \in Leaves \X Outcomes
    BY <1>1 DEF Pushes, Alerts
  <2> QED BY <2>1 DEF PushSucceeds, TypeOK
<1>8. \/ /\ ~SameBranch(p) \/ ~SameFlow(p)
         /\ ext' = x /\ status' = status /\ client' = client
      \/ /\ SameBranch(p) /\ InputSince(p) /\ ext' = waiting /\ status' = status
         /\ client' = Enqueue(client, HandleItem(p.answer))
      \/ /\ SameBranch(p) /\ SameFlow(p) /\ ~InputSince(p) /\ ext' = delivered
         /\ status' = "terminal" /\ client' = client
  BY DEF PushSucceeds
<1>9. CASE /\ ~SameBranch(p) \/ ~SameFlow(p)
           /\ ext' = x /\ status' = status /\ client' = client
  <2> HIDE DEF x
  <2> QED BY <1>2, <1>7, <1>9 DEF Taken, Freed
<1>10. CASE /\ SameBranch(p) /\ InputSince(p) /\ ext' = waiting /\ status' = status
            /\ client' = Enqueue(client, HandleItem(p.answer))
  <2> HIDE DEF x, cand, waiting
  <2>1. Freed(p)
    BY <1>2, <1>4, <1>10 DEF Freed, Kept
  <2> QED BY <2>1, <1>3, <1>4, <1>6, <1>7, <1>10 DEF Taken
<1>11. CASE /\ SameBranch(p) /\ SameFlow(p) /\ ~InputSince(p) /\ ext' = delivered
            /\ status' = "terminal" /\ client' = client
  <2> HIDE DEF x, cand, delivered
  <2>1. Delivered
    BY <1>5, <1>11 DEF Delivered
  <2> QED BY <2>1, <1>3, <1>5, <1>7, <1>11 DEF Taken
<1> QED BY <1>8, <1>9, <1>10, <1>11

\* The head of the client's queue leaves it, and the reducer hears of a report.
Heard ==
    \/ ext' = ext
    \/ /\ ext # None /\ ext' \in States /\ Kept(ext, ext') /\ ext'.result = ext.result
       /\ ext'.settled = ext.settled /\ ext'.cur = ext.cur
       /\ ext'.alert = ext.alert /\ ext'.sending = ext.sending
       /\ ext'.cand # None => ext.cand # None /\ ext'.cand.event = ext.cand.event

\* The Bridge takes the client for the owner of the session.
Owned == client.lease # 0 /\ client.lease = bridge.lease

\* A mutation of the session leaves the queue, whether its answer is lost or not.
Mutated(item) ==
    /\ client' \in Clients /\ bridge' \in Bridges /\ Heard
    /\ client'.queue = Tail(client.queue) /\ client'.gen = client.gen
    /\ client'.reg = client.reg \/ (item.op = "register" /\ client.gen = item.arg)
    /\ bridge'.events = bridge.events /\ bridge'.lost = bridge.lost /\ bridge'.order = bridge.order
    /\ \/ bridge'.handled = bridge.handled
       \/ item.op = "handle" /\ bridge'.handled = bridge.handled \cup {item.arg}
    /\ \/ ~bridge'.sure
       \/ bridge'.lease = client'.lease /\ item.op # "unregister"
       \/ /\ item.op # "unregister"
          /\ bridge'.lease = bridge.lease /\ bridge'.sure = bridge.sure /\ client'.lease = client.lease
       \/ /\ item.op = "unregister" /\ client'.lease = 0
          /\ bridge'.lease = 0 \/ (~Owned /\ bridge'.lease = bridge.lease /\ bridge'.sure = bridge.sure)

\* What the reducer makes of the answer to a report.
LEMMA HeardDoes ==
    ASSUME TypeOK, NEW e, ext' \in {ext, HandleFailed(e), HandleDone(e)}
    PROVE  Heard
<1>1. CASE ext' = ext
  BY <1>1 DEF Heard
<1>2. CASE IsCandidate(e)
  <2>1. ext \in States /\ ext.cand \in Candidates /\ ext.cand # None
    BY <1>2, StateFields DEF IsCandidate, TypeOK
  <2> DEFINE cand == [ext.cand EXCEPT !.reported = FALSE]
             failed == [ext EXCEPT !.cand = cand]
             done == [ext EXCEPT !.cand = None]
  <2>2. cand \in Candidates /\ cand.event = ext.cand.event
    BY <2>1 DEF Candidates
  <2>3. HandleFailed(e) = failed /\ HandleDone(e) = done
    BY <1>2 DEF HandleFailed, HandleDone
  <2>4. \A y \in {failed, done} :
          /\ y \in States /\ Kept(ext, y) /\ y.result = ext.result
          /\ y.settled = ext.settled /\ y.cur = ext.cur
          /\ y.alert = ext.alert /\ y.sending = ext.sending
    <3> HIDE DEF cand
    <3>1. failed \in States /\ done \in States
      BY <2>1, <2>2, StateFields
    <3> QED BY <2>1, <3>1 DEF Kept, States
  <2>5. failed.cand = cand /\ done.cand = None
    <3> HIDE DEF cand
    <3> QED BY <2>1 DEF States
  <2> HIDE DEF cand, failed, done
  <2>6. ext # None /\ ext' \in {ext, failed, done}
    BY <1>2, <2>3 DEF IsCandidate
  <2> QED BY <2>1, <2>2, <2>4, <2>5, <2>6 DEF Heard
<1>3. CASE ~IsCandidate(e)
  BY <1>3 DEF HandleFailed, HandleDone, Heard
<1> QED BY <1>2, <1>3

\* A mutation, answered or lost, does this.
LEMMA MutationDoes ==
    ASSUME TypeOK, Mutation \/ MutationLost
    PROVE  /\ client.queue # <<>> /\ Head(client.queue) \in Items
           /\ Mutated(Head(client.queue))
<1> DEFINE item == Head(client.queue)
           c == Popped(client)
<1>1. /\ client \in Clients /\ bridge \in Bridges /\ client.queue # <<>> /\ client.queue \in Seq(Items)
      /\ client.lease \in Nat /\ client.gen \in Nat
  BY ClientFields DEF TypeOK, Mutation, MutationLost
<1>2. item \in Items /\ Tail(client.queue) \in Seq(Items)
  BY <1>1, HeadTailProperties
<1>3. /\ c \in Clients /\ c.queue = Tail(client.queue) /\ c.gen = client.gen /\ c.reg = client.reg
      /\ c.lease = client.lease
  <2>1. c = [client EXCEPT !.queue = Tail(client.queue)]
    BY DEF Popped
  <2>2. c \in Clients
    BY <1>1, <1>2, <2>1, ClientFields
  <2> DEFINE tail == Tail(client.queue)
  <2> HIDE DEF tail
  <2>3. LET x == [client EXCEPT !.queue = tail]
        IN x.queue = tail /\ x.gen = client.gen /\ x.reg = client.reg /\ x.lease = client.lease
    BY <1>1 DEF Clients
  <2> QED BY <2>1, <2>2, <2>3, Zenon DEF tail
<1> HIDE DEF c, item
<1>4. \A v \in Nat, r \in {"none", "queued", "retry", "done"} :
        /\ [c EXCEPT !.lease = v] \in Clients /\ [c EXCEPT !.lease = v].queue = c.queue
        /\ [c EXCEPT !.lease = v].gen = c.gen /\ [c EXCEPT !.lease = v].reg = c.reg
        /\ [c EXCEPT !.lease = v].lease = v
        /\ [c EXCEPT !.reg = r] \in Clients /\ [c EXCEPT !.reg = r].queue = c.queue
        /\ [c EXCEPT !.reg = r].gen = c.gen /\ [c EXCEPT !.reg = r].lease = c.lease
  BY <1>3, ClientFields DEF Clients
<1>5. LET b == Registered(bridge)
      IN /\ b \in Bridges /\ b.lease = bridge.issued + 1 /\ b.sure = bridge.sure
         /\ b.events = bridge.events /\ b.lost = bridge.lost /\ b.order = bridge.order
         /\ b.handled = bridge.handled /\ bridge.issued + 1 \in Nat
  <2>1. bridge.issued + 1 \in Nat
    BY <1>1, BridgeFields
  <2>2. Registered(bridge) = [bridge EXCEPT !.issued = bridge.issued + 1, !.lease = bridge.issued + 1]
    BY <1>1 DEF Registered
  <2>3. Registered(bridge) \in Bridges
    <3>1. [bridge EXCEPT !.issued = bridge.issued + 1, !.lease = bridge.issued + 1] \in Bridges
      <4> DEFINE next == bridge.issued + 1
      <4> HIDE DEF next
      <4>1. \A b \in Bridges : [b EXCEPT !.issued = next] \in Bridges /\ [b EXCEPT !.lease = next] \in Bridges
        BY <2>1, BridgeFields DEF next
      <4>2. [bridge EXCEPT !.issued = next, !.lease = next] \in Bridges
        BY <4>1, <1>1
      <4> QED BY <4>2 DEF next
    <3> QED BY <3>1, <2>2, Zenon
  <2>4. LET b == [bridge EXCEPT !.issued = bridge.issued + 1, !.lease = bridge.issued + 1]
        IN /\ b.lease = bridge.issued + 1 /\ b.sure = bridge.sure
           /\ b.events = bridge.events /\ b.lost = bridge.lost /\ b.order = bridge.order
           /\ b.handled = bridge.handled
    BY <1>1 DEF Bridges
  <2> QED BY <2>1, <2>2, <2>3, <2>4, Zenon
<1>6. \A b \in Bridges :
        /\ Unsure(b) \in Bridges /\ ~Unsure(b).sure /\ Unsure(b).events = b.events
        /\ Unsure(b).lost = b.lost /\ Unsure(b).order = b.order /\ Unsure(b).handled = b.handled
  BY BridgeFields DEF Unsure, Bridges
<1>7. LET b == [bridge EXCEPT !.lease = 0]
      IN /\ b \in Bridges /\ b.lease = 0 /\ b.events = bridge.events /\ b.lost = bridge.lost
         /\ b.order = bridge.order /\ b.handled = bridge.handled
  BY <1>1, BridgeFields DEF Bridges
<1>8. LET b == [bridge EXCEPT !.handled = @ \cup {item.arg}]
      IN /\ b \in Bridges /\ b.lease = bridge.lease /\ b.sure = bridge.sure
         /\ b.events = bridge.events /\ b.lost = bridge.lost
         /\ b.order = bridge.order /\ b.handled = bridge.handled \cup {item.arg}
  <2>1. item.arg \in Nat
    BY <1>2 DEF Items
  <2>2. bridge.handled \cup {item.arg} \in SUBSET Nat
    <3>1. bridge.handled \in SUBSET Nat
      BY <1>1, BridgeFields
    <3> QED BY <2>1, <3>1
  <2>3. [bridge EXCEPT !.handled = bridge.handled \cup {item.arg}] \in Bridges
    <3> DEFINE seen == bridge.handled \cup {item.arg}
    <3> HIDE DEF seen
    <3>1. [bridge EXCEPT !.handled = seen] \in Bridges
      BY <1>1, <2>2, BridgeFields DEF seen
    <3> QED BY <3>1 DEF seen
  <2> QED BY <1>1, <2>3 DEF Bridges
<1> DEFINE registered == Registered(bridge)
           released == [bridge EXCEPT !.lease = 0]
           reported == [bridge EXCEPT !.handled = @ \cup {item.arg}]
           adopted == [c EXCEPT !.lease = bridge.issued + 1]
           forgotten == [c EXCEPT !.lease = 0]
<1>9. \A x \in Clients : Adopted(x) = [x EXCEPT !.lease = bridge.issued + 1]
  BY DEF Adopted
<1>a. ASSUME item.op = "register" PROVE Mutated(item)
  <2> DEFINE d == RegistrationDone(c, item)
             f == RegistrationFailed(c, item)
  <2>1. \A x \in {d, f} :
          /\ x \in Clients /\ x.queue = c.queue /\ x.gen = c.gen /\ x.lease = c.lease
          /\ x.reg = c.reg \/ c.gen = item.arg
    BY <1>3, <1>4 DEF RegistrationDone, RegistrationFailed
  <2> HIDE DEF d, f
  <2>2. LET x == Adopted(d)
        IN /\ x \in Clients /\ x.queue = c.queue /\ x.gen = c.gen /\ x.lease = bridge.issued + 1
           /\ x.reg = d.reg
    <3>1. Adopted(d) = [d EXCEPT !.lease = bridge.issued + 1]
      BY DEF Adopted
    <3>2. bridge.issued + 1 \in Nat /\ d \in Clients
      BY <1>5, <2>1
    <3>3. [d EXCEPT !.lease = bridge.issued + 1] \in Clients
      BY <3>2, ClientFields
    <3>4. LET x == [d EXCEPT !.lease = bridge.issued + 1]
          IN /\ x.queue = d.queue /\ x.gen = d.gen /\ x.lease = bridge.issued + 1 /\ x.reg = d.reg
      BY <3>2 DEF Clients
    <3> QED BY <2>1, <3>1, <3>3, <3>4
  <2>3. /\ ext' = ext
        /\ \/ bridge' = registered /\ client' = Adopted(d)
           \/ bridge' \in {bridge, Unsure(registered)} /\ client' = f
    BY <1>a DEF Mutation, MutationLost, item, c, d, f
  <2> HIDE DEF registered
  <2>4. CASE bridge' = registered /\ client' = Adopted(d)
    BY <2>1, <2>2, <2>3, <2>4, <1>3, <1>5, <1>a DEF Mutated, Heard, registered
  <2>5. CASE bridge' = bridge /\ client' = f
    BY <2>1, <2>3, <2>5, <1>1, <1>3, <1>a DEF Mutated, Heard
  <2>6. CASE bridge' = Unsure(registered) /\ client' = f
    <3>1. registered \in Bridges /\ registered.events = bridge.events /\ registered.lost = bridge.lost
          /\ registered.order = bridge.order /\ registered.handled = bridge.handled
      BY <1>5 DEF registered
    <3>2. /\ bridge' \in Bridges /\ ~bridge'.sure /\ bridge'.events = bridge.events
          /\ bridge'.lost = bridge.lost /\ bridge'.order = bridge.order
          /\ bridge'.handled = bridge.handled
      BY <3>1, <2>6, <1>6
    <3>3. /\ client' \in Clients /\ client'.queue = Tail(client.queue) /\ client'.gen = client.gen
          /\ client'.reg = client.reg \/ client.gen = item.arg
      BY <2>1, <2>6, <1>3
    <3> QED BY <3>2, <3>3, <2>3, <1>a DEF Mutated, Heard
  <2> QED BY <2>3, <2>4, <2>5, <2>6
<1>b. ASSUME item.op = "unregister" PROVE Mutated(item)
  <2>1. /\ ext' = ext /\ client' = forgotten
        /\ \/ Owned /\ bridge' = released
           \/ ~Owned /\ bridge' = bridge
           \/ bridge' = Unsure(bridge)
    BY <1>b DEF Mutation, MutationLost, item, c, Owned
  <2>2. /\ client' \in Clients /\ client'.queue = c.queue /\ client'.gen = c.gen
        /\ client'.reg = c.reg /\ client'.lease = 0
    BY <2>1, <1>4
  <2> HIDE DEF released, forgotten
  <2>3. CASE bridge' = released
    BY <2>1, <2>2, <2>3, <1>3, <1>7, <1>b DEF Mutated, Heard, released
  <2>4. CASE ~Owned /\ bridge' = bridge
    BY <2>1, <2>2, <2>4, <1>1, <1>3, <1>b DEF Mutated, Heard
  <2>5. CASE bridge' = Unsure(bridge)
    BY <2>1, <2>2, <2>5, <1>1, <1>3, <1>6, <1>b DEF Mutated, Heard
  <2> QED BY <2>1, <2>3, <2>4, <2>5
<1>d. ASSUME item.op = "heartbeat" PROVE Mutated(item)
  <2>1. /\ ext' = ext
        /\ \/ bridge' = registered /\ client' = Adopted(c)
           \/ bridge' \in {bridge, Unsure(registered)} /\ client' = c
    BY <1>d DEF Mutation, MutationLost, item, c
  <2>2. LET x == Adopted(c)
        IN /\ x \in Clients /\ x.queue = c.queue /\ x.gen = c.gen /\ x.lease = bridge.issued + 1
           /\ x.reg = c.reg
    BY <1>3, <1>4, <1>5, <1>9
  <2>3. registered \in Bridges /\ registered.events = bridge.events /\ registered.lost = bridge.lost
        /\ registered.order = bridge.order /\ registered.handled = bridge.handled
        /\ registered.lease = bridge.issued + 1
    BY <1>5
  <2> HIDE DEF registered
  <2>4. CASE bridge' = registered /\ client' = Adopted(c)
    BY <2>1, <2>2, <2>3, <2>4, <1>3, <1>d DEF Mutated, Heard
  <2>5. CASE bridge' = bridge /\ client' = c
    BY <2>1, <2>5, <1>1, <1>3, <1>d DEF Mutated, Heard
  <2>6. CASE bridge' = Unsure(registered) /\ client' = c
    BY <2>1, <2>3, <2>6, <1>3, <1>6, <1>d DEF Mutated, Heard
  <2> QED BY <2>1, <2>4, <2>5, <2>6
<1>e. ASSUME item.op = "handle" PROVE Mutated(item)
  <2>1. /\ client' = c /\ ext' \in {ext, HandleFailed(item.arg), HandleDone(item.arg)}
        /\ bridge' \in {bridge, reported}
    BY <1>e DEF Mutation, MutationLost, item, c
  <2>2. Heard
    BY <2>1, HeardDoes
  <2> HIDE DEF reported
  <2>3. CASE bridge' = bridge
    BY <2>1, <2>2, <2>3, <1>1, <1>3, <1>e DEF Mutated
  <2>4. CASE bridge' = reported
    BY <2>1, <2>2, <2>4, <1>3, <1>8, <1>e DEF Mutated, reported
  <2> QED BY <2>1, <2>3, <2>4
<1>f. item.op \in {"register", "unregister", "heartbeat", "handle"}
  BY <1>2 DEF Items
<1> QED BY <1>1, <1>2, <1>a, <1>b, <1>d, <1>e, <1>f DEF item

\* A run begins with nothing pending.
Started ==
    /\ ext' \in States /\ ext'.cursor = ext.cursor /\ ext'.cand = ext.cand
    /\ ext'.alert = None /\ ext'.result = None
    /\ pi' = [phase |-> "running", outcome |-> None]

\* The start of a run does this.
LEMMA StartDoes == ASSUME TypeOK, ext # None, AgentStart PROVE Started
<1> DEFINE begun == beginNewLowLevelRun(ext)
<1>1. ext \in States /\ begun \in States
  BY HelpersKeepTypes DEF TypeOK
<1>2. begun.cursor = ext.cursor /\ begun.cand = ext.cand /\ begun.alert = None /\ begun.result = None
  BY <1>1 DEF beginNewLowLevelRun, invalidatePendingTerminal, States
<1>3. PICK leaf \in Leaves : ext' = [begun EXCEPT !.leaf = leaf]
  BY DEF AgentStart
<1> HIDE DEF begun
<1>4. ext' \in States
  BY <1>1, <1>3, StateFields
<1>5. ext'.cursor = begun.cursor /\ ext'.cand = begun.cand /\ ext'.alert = begun.alert /\ ext'.result = begun.result
  BY <1>1, <1>3 DEF States
<1> QED BY <1>2, <1>4, <1>5 DEF Started, AgentStart

\* The end of a run leaves its result, if the run is followed.
Ended ==
    /\ ext' \in States /\ ext'.cursor = ext.cursor /\ ext'.cand = ext.cand
    /\ ext'.alert = ext.alert /\ ext'.sending = ext.sending
    /\ pi'.phase = "ended" /\ pi'.outcome \in Outcomes /\ pi' = [phase |-> "ended", outcome |-> pi'.outcome]
    /\ \/ ext'.result = ext.result /\ status' = status
       \/ /\ ext'.result # None /\ ext'.result.outcome = pi'.outcome
          /\ ext'.cur = ext.cur /\ ext.cur # 0 /\ status' = "working"

\* The end of a run does this.
LEMMA EndDoes == ASSUME TypeOK, ext # None, AgentEnd PROVE Ended
<1>1. ext \in States
  BY DEF TypeOK
<1>2. PICK outcome \in Outcomes, leaf \in Leaves :
        /\ pi' = [pi EXCEPT !.phase = "ended", !.outcome = outcome]
        /\ IF ext.running /\ ext.cur # 0
           THEN /\ ext' = [ext EXCEPT !.leaf = leaf, !.running = FALSE,
                                      !.result = [outcome |-> outcome, gen |-> ext.cur]]
                /\ status' = "working"
           ELSE ext' = [ext EXCEPT !.leaf = leaf] /\ UNCHANGED status
  BY DEF AgentEnd
<1>3. pi' = [phase |-> "ended", outcome |-> outcome]
  BY <1>2 DEF TypeOK
<1> DEFINE r == [outcome |-> outcome, gen |-> ext.cur]
           x == [ext EXCEPT !.leaf = leaf]
           y == [ext EXCEPT !.leaf = leaf, !.running = FALSE, !.result = r]
<1>4. r \in Results /\ r # None /\ r.outcome = outcome
  <2>1. r \in Results
    BY <1>1, StateFields DEF Results
  <2> QED BY <2>1, NoneAssumption
<1>5. (ext' = x /\ status' = status) \/ (ext' = y /\ status' = "working" /\ ext.cur # 0)
  BY <1>2
<1> HIDE DEF r
<1>6. \A z \in States : /\ [z EXCEPT !.leaf = leaf] \in States /\ [z EXCEPT !.running = FALSE] \in States
                        /\ [z EXCEPT !.result = r] \in States
  BY <1>4, StateFields
<1>7. x \in States /\ y \in States
  BY <1>1, <1>6
<1>8. \A z \in {x, y} : /\ z.cursor = ext.cursor /\ z.cand = ext.cand /\ z.alert = ext.alert
                        /\ z.sending = ext.sending /\ z.cur = ext.cur
  BY <1>1 DEF States
<1>9. x.result = ext.result /\ y.result = r
  BY <1>1 DEF States
<1> HIDE DEF x, y
<1> QED BY <1>3, <1>4, <1>5, <1>7, <1>8, <1>9 DEF Ended

\* A switch of the branch forgets what is pending and what would be acknowledged.
Switched ==
    /\ ext' \in States /\ ext'.cursor = ext.cursor
    /\ ext'.cand = None /\ ext'.alert = None /\ ext'.result = None

\* A switch of the branch does this.
LEMMA SwitchDoes == ASSUME TypeOK, ext # None, SessionTree PROVE Switched
<1> DEFINE cleared == clearBranchSensitiveState(ext)
<1>1. ext \in States /\ cleared \in States
  BY HelpersKeepTypes DEF TypeOK
<1>2. cleared.cursor = ext.cursor /\ cleared.cand = None /\ cleared.alert = None /\ cleared.result = None
  BY <1>1 DEF clearBranchSensitiveState, invalidatePendingTerminal, States
<1>3. PICK leaf \in Leaves : ext' = [cleared EXCEPT !.leaf = leaf]
  BY DEF SessionTree
<1> HIDE DEF cleared
<1>4. ext' \in States
  BY <1>1, <1>3, StateFields
<1>5. ext'.cursor = cleared.cursor /\ ext'.cand = cleared.cand /\ ext'.alert = cleared.alert /\ ext'.result = cleared.result
  BY <1>1, <1>3 DEF States
<1> QED BY <1>2, <1>4, <1>5 DEF Switched

\* A session starts with a fresh state.
Opened ==
    /\ ext' \in States /\ ext'.alert = None /\ ext'.result = None /\ ext'.cand = None

\* The start of a session does this.
LEMMA OpenDoes == ASSUME SessionStart PROVE Opened
<1>1. PICK leaf \in Leaves : ext' = Fresh(leaf)
  BY PiBounds DEF SessionStart
<1> QED BY <1>1 DEF Opened, Fresh, States

-----------------------------------------------------------------------------
(* The types. *)

\* Every step keeps the types.
LEMMA PiTypeInductive == PiTypeInv /\ [Next]_vars => TypeOK'
<1> SUFFICES ASSUME PiTypeInv, [Next]_vars PROVE TypeOK'
  OBVIOUS
<1> USE DEF PiTypeInv
<1>c. /\ \A item \in Items : Enqueue(client, item) \in Clients
      /\ registerSessionInBackground(client) \in Clients
      /\ UnregisterLast(client) \in Clients
      /\ client.lease \in Nat /\ client.gen \in Nat
  <2>1. client \in Clients /\ client.gen \in Nat /\ client.lease \in Nat
    BY ClientFields DEF TypeOK
  <2>2. \A item \in Items : Enqueue(client, item) \in Clients
    BY <2>1, EnqueueKeepsTypes
  <2>3. [client EXCEPT !.gen = @ + 1, !.reg = "queued"] \in Clients /\ client.gen + 1 \in Nat
    <3>1. client.gen + 1 \in Nat
      BY <2>1
    <3>2. [client EXCEPT !.gen = client.gen + 1] \in Clients
      BY <2>1, <3>1, ClientFields
    <3> QED BY <3>1, <3>2, ClientFields
  <2>4. registerSessionInBackground(client) \in Clients
    BY <2>3, EnqueueKeepsTypes, ItemsAreTyped DEF registerSessionInBackground
  <2>5. UnregisterLast(client) \in Clients
    BY <2>2, ItemsAreTyped DEF UnregisterLast
  <2> QED BY <2>1, <2>2, <2>4, <2>5
<1>n. ext # None => ext \in States
  BY DEF TypeOK
<1>1. CASE SessionStart
  BY <1>1, <1>c, OpenDoes, CountedIsTyped DEF SessionStart, Opened, TypeOK
<1>2. CASE SessionShutdown
  <2>1. [UnregisterLast(client) EXCEPT !.gen = @ + 1, !.reg = "none"] \in Clients
    <3>1. UnregisterLast(client).gen + 1 \in Nat
      BY <1>c DEF Clients
    <3>2. [UnregisterLast(client) EXCEPT !.gen = UnregisterLast(client).gen + 1] \in Clients
      BY <3>1, <1>c, ClientFields
    <3> QED BY <3>2, ClientFields
  <2> QED BY <1>2, <2>1 DEF SessionShutdown, TypeOK
<1>3. CASE Input
  <2>1. Typed /\ Counts /\ n' = [Counted(n) EXCEPT !.inputs = @ + 1]
    BY <1>3, InputDoes DEF Input, OpenInv
  <2>2. n' \in [runs : Nat, inputs : Nat, events : 0 .. MaxEvents]
    BY <2>1, CountedIsTyped
  <2>3. pi' \in [phase : {"none", "idle", "starting", "running", "ended"}, outcome : Outcomes \cup {None}]
    BY <2>1 DEF Typed, TypeOK
  <2> QED BY <1>3, <1>c, <2>1, <2>2, <2>3 DEF Input, Typed, TypeOK
<1>4. CASE PiBusy
  BY <1>4, CountedIsTyped DEF PiBusy, TypeOK
<1>5. CASE AgentStart
  BY <1>5, StartDoes DEF AgentStart, Started, OpenInv, TypeOK
<1>6. CASE AgentEnd
  <2>1. Ended
    BY <1>6, EndDoes DEF AgentEnd, OpenInv
  <2>2. pi' \in [phase : {"none", "idle", "starting", "running", "ended"}, outcome : Outcomes \cup {None}]
    BY <2>1 DEF Ended
  <2> QED BY <1>6, <2>1, <2>2 DEF AgentEnd, Ended, TypeOK
<1>7. CASE AgentSettled
  <2>1. Settled
    BY <1>7, SettleDoes DEF AgentSettled, OpenInv
  <2> QED BY <1>7, <2>1 DEF AgentSettled, Settled, TypeOK
<1>8. CASE SessionTree
  BY <1>8, SwitchDoes, CountedIsTyped DEF SessionTree, Switched, OpenInv, TypeOK
<1>9. CASE QuietWindowEnds
  <2>1. Quieted /\ ext \in States
    BY <1>9, QuietDoes
  <2>2. ext.alert # None => Request(allocateProducerEventOrder) \in Pushes
    BY <2>1, OrderIsNew, StateFields, <1>c DEF Request, Pushes, TypeOK
  <2> QED BY <1>9, <2>1, <2>2 DEF QuietWindowEnds, Quieted, TypeOK
<1>10. CASE \E p \in pushes : PushArrives(p)
  <2>1. PICK p \in pushes : PushArrives(p)
    BY <1>10
  <2>2. Arrived(p)
    BY <2>1, ArrivalDoes
  <2>3. \A a \in Nat : [p EXCEPT !.answer = a] \in Pushes
    BY DEF TypeOK, Pushes
  <2>4. Len(bridge.events) + 1 \in Nat
    BY BridgeFields, LenProperties DEF TypeOK
  <2>5. pushes' \subseteq Pushes
    BY <2>2, <2>3, <2>4 DEF Arrived, TypeOK
  <2> QED BY <2>1, <2>2, <2>5 DEF PushArrives, Arrived, TypeOK
<1>11. CASE \E p \in pushes : PushAnswered(p)
  <2>1. PICK p \in pushes : PushAnswered(p)
    BY <1>11
  <2>2. CASE ext = None
    BY <2>1, <2>2 DEF PushAnswered, PushSucceeds, PushFails, TypeOK
  <2>3. CASE ext # None /\ p.answer # 0
    <3>1. Taken(p) /\ prints' \subseteq (Leaves \X Outcomes)
      BY <2>1, <2>3, SuccessDoes DEF PushAnswered
    <3> QED BY <2>1, <3>1, <1>c DEF PushAnswered, Taken, Freed, Delivered, TypeOK
  <2>4. CASE ext # None /\ p.answer = 0
    BY <2>1, <2>4, FailureDoes DEF PushAnswered, Freed, TypeOK
  <2> QED BY <2>2, <2>3, <2>4
<1>12. CASE \E p \in pushes : PushLost(p)
  <2>1. PICK p \in pushes : PushLost(p)
    BY <1>12
  <2>2. ext' \in States \cup {None}
    BY <2>1, FailureDoes DEF PushLost, PushFails, Freed
  <2>3. bridge' \in Bridges
    <3>1. bridge \in Bridges /\ p.answer \in Nat \cup {None}
      BY DEF TypeOK, Pushes
    <3>2. p.answer # None => bridge.lost \cup {p.answer} \in SUBSET Nat
      BY <3>1, BridgeFields
    <3> QED BY <2>1, <3>1, <3>2, BridgeFields DEF PushLost
  <2> QED BY <2>1, <2>2, <2>3, CountedIsTyped DEF PushLost, Fault, TypeOK
<1>13. CASE Mutation
  BY <1>13, MutationDoes DEF Mutation, Mutated, Heard, TypeOK
<1>17. CASE MutationLost
  <2>1. n' \in [runs : Nat, inputs : Nat, events : 0 .. MaxEvents]
    BY <1>17, CountedIsTyped DEF MutationLost, Fault
  <2> QED BY <1>17, <2>1, MutationDoes DEF MutationLost, Mutated, Heard, TypeOK
<1>14. CASE RegistrationRetry
  BY <1>14, <1>c, EnqueueKeepsTypes, ClientFields, ItemsAreTyped DEF RegistrationRetry, TypeOK
<1>15. CASE Heartbeat
  BY <1>15, <1>c, ItemsAreTyped DEF Heartbeat, TypeOK
<1>16. CASE BridgeForgets
  BY <1>16, CountedIsTyped, BridgeFields DEF BridgeForgets, Fault, TypeOK
<1>18. CASE UNCHANGED vars
  BY <1>18 DEF vars, TypeOK
<1> QED BY <1>1, <1>2, <1>3, <1>4, <1>5, <1>6, <1>7, <1>8, <1>9, <1>10, <1>11, <1>12, <1>13,
           <1>14, <1>15, <1>16, <1>17, <1>18 DEF Next

\* Every step keeps that.
LEMMA OpenInductive == PiTypeInv /\ [Next]_vars => OpenInv'
<1> SUFFICES ASSUME PiTypeInv, [Next]_vars PROVE OpenInv'
  OBVIOUS
<1> USE DEF PiTypeInv
<1>n. \A x \in States : x # None
  BY NoneAssumption
<1>p. pi = [phase |-> pi.phase, outcome |-> pi.outcome]
  BY DEF TypeOK
<1>1. CASE SessionStart
  BY <1>1, <1>n, OpenDoes DEF SessionStart, Opened, OpenInv
<1>2. CASE SessionShutdown
  BY <1>2 DEF SessionShutdown, OpenInv
<1>3. CASE Input
  BY <1>3, <1>n, <1>p, InputDoes DEF Input, Typed, OpenInv
<1>4. CASE PiBusy
  BY <1>4, <1>p DEF PiBusy, OpenInv
<1>5. CASE AgentStart
  BY <1>5, <1>n, StartDoes DEF AgentStart, Started, OpenInv
<1>6. CASE AgentEnd
  BY <1>6, <1>n, EndDoes DEF AgentEnd, Ended, OpenInv
<1>7. CASE AgentSettled
  BY <1>7, <1>n, <1>p, SettleDoes DEF AgentSettled, Settled, OpenInv
<1>8. CASE SessionTree
  BY <1>8, <1>n, <1>p, SwitchDoes DEF SessionTree, Switched, OpenInv
<1>9. CASE QuietWindowEnds
  BY <1>9, <1>n, QuietDoes DEF QuietWindowEnds, Quieted, OpenInv
<1>10. CASE \E p \in pushes : PushArrives(p)
  BY <1>10 DEF PushArrives, OpenInv
<1>11. CASE \E p \in pushes : PushAnswered(p)
  <2>1. PICK p \in pushes : PushAnswered(p)
    BY <1>11
  <2>2. CASE ext = None
    BY <2>1, <2>2 DEF PushAnswered, PushSucceeds, PushFails, OpenInv
  <2>3. CASE ext # None /\ p.answer # 0
    BY <2>1, <2>3, <1>n, SuccessDoes DEF PushAnswered, Taken, Freed, Delivered, OpenInv
  <2>4. CASE ext # None /\ p.answer = 0
    BY <2>1, <2>4, <1>n, FailureDoes DEF PushAnswered, Freed, OpenInv
  <2> QED BY <2>2, <2>3, <2>4
<1>12. CASE \E p \in pushes : PushLost(p)
  BY <1>12, <1>n, FailureDoes DEF PushLost, PushFails, Freed, OpenInv
<1>13. CASE Mutation \/ MutationLost
  BY <1>13, <1>n, MutationDoes DEF Mutation, MutationLost, Mutated, Heard, OpenInv
<1>14. CASE RegistrationRetry \/ Heartbeat \/ BridgeForgets \/ UNCHANGED vars
  BY <1>14 DEF RegistrationRetry, Heartbeat, BridgeForgets, vars, OpenInv
<1> QED BY <1>1, <1>2, <1>3, <1>4, <1>5, <1>6, <1>7, <1>8, <1>9, <1>10, <1>11, <1>12, <1>13, <1>14
        DEF Next

\* Every step keeps the orders bounded.
LEMMA OrdersInductive == PiTypeInv /\ [Next]_vars => OrdersInv'
<1> SUFFICES ASSUME PiTypeInv, [Next]_vars PROVE OrdersInv'
  OBVIOUS
<1> USE DEF PiTypeInv
<1>b. PICK b \in Nat : \A p \in pushes : p.order <= b
  BY DEF OrdersInv
<1>1. CASE QuietWindowEnds
  <2> DEFINE next == allocateProducerEventOrder
  <2>1. Quieted /\ next \in Nat /\ \A p \in pushes : next > p.order
    BY <1>1, QuietDoes, OrderIsNew
  <2> HIDE DEF next
  <2>2. Request(next).order = next
    BY DEF Request
  <2>3. pushes' \subseteq pushes \cup {Request(next)}
    BY <2>1 DEF Quieted, next
  <2>4. next + b \in Nat /\ \A p \in pushes' : p.order <= next + b
    BY <2>1, <2>2, <2>3, <1>b DEF TypeOK, Pushes
  <2> QED BY <2>4 DEF OrdersInv
<1>2. CASE \E p \in pushes : PushArrives(p)
  <2>1. PICK p \in pushes : Arrived(p)
    BY <1>2, ArrivalDoes
  <2>2. \A a : [p EXCEPT !.answer = a].order = p.order
    BY DEF TypeOK, Pushes
  <2>3. \A q \in pushes' : q.order <= b
    BY <2>1, <2>2, <1>b DEF Arrived
  <2> QED BY <2>3 DEF OrdersInv
<1>3. CASE pushes' \subseteq pushes
  BY <1>3, <1>b DEF OrdersInv
<1>4. (\E p \in pushes : PushAnswered(p) \/ PushLost(p)) => pushes' \subseteq pushes
  BY DEF PushAnswered, PushLost
<1>5. SessionStart \/ SessionShutdown \/ Input \/ PiBusy \/ AgentStart \/ AgentEnd \/ AgentSettled
        \/ SessionTree \/ Mutation \/ MutationLost \/ RegistrationRetry \/ Heartbeat \/ BridgeForgets
        \/ UNCHANGED vars
      => pushes' = pushes
  BY DEF SessionStart, SessionShutdown, Input, PiBusy, AgentStart, AgentEnd, AgentSettled, SessionTree,
         Mutation, MutationLost, RegistrationRetry, Heartbeat, BridgeForgets, vars
<1> QED BY <1>1, <1>2, <1>3, <1>4, <1>5 DEF Next

-----------------------------------------------------------------------------
(* The session at the Bridge. *)

\* The Bridge has no lease but the one the client knows, unless an answer was lost; what
\* the client has to do is no newer than its registration; and once Pi has closed the
\* session, the last thing it does is to unregister.
LeaseIsKnown == bridge.sure => bridge.lease \in {0, client.lease}
QueueIsCurrent ==
    \A i \in DOMAIN client.queue : client.queue[i].op = "register" => client.queue[i].arg <= client.gen
ClosedIsQueued ==
    pi.phase = "none" =>
        /\ client.reg = "none"
        /\ \A i \in DOMAIN client.queue : client.queue[i].op = "register" => client.queue[i].arg < client.gen
        /\ client.queue = <<>> => (bridge.sure => bridge.lease = 0)
        /\ client.queue # <<>> => client.queue[Len(client.queue)].op = "unregister"
ClientInv == LeaseIsKnown /\ QueueIsCurrent /\ ClosedIsQueued

\* The elements of a sequence that grew by one at its end.
LEMMA AppendElements ==
    ASSUME NEW S, NEW q \in Seq(S), NEW e \in S
    PROVE  /\ Append(q, e) # <<>> /\ Append(q, e)[Len(Append(q, e))] = e
           /\ \A i \in DOMAIN Append(q, e) : (i \in DOMAIN q /\ Append(q, e)[i] = q[i]) \/ Append(q, e)[i] = e
<1>1. /\ Len(q) \in Nat /\ DOMAIN q = 1 .. Len(q)
      /\ Len(Append(q, e)) = Len(q) + 1 /\ Append(q, e)[Len(q) + 1] = e
      /\ \A i \in 1 .. Len(q) : Append(q, e)[i] = q[i]
      /\ DOMAIN Append(q, e) = 1 .. Len(q) + 1
  BY AppendProperties, LenProperties
<1>2. Append(q, e) # <<>>
  BY AppendProperties
<1> QED BY <1>1, <1>2

\* The elements of a sequence that lost its first one.
LEMMA TailElements ==
    ASSUME NEW S, NEW q \in Seq(S), q # <<>>
    PROVE  /\ Len(q) \in Nat \ {0} /\ 1 \in DOMAIN q /\ Head(q) = q[1] /\ Len(q) \in DOMAIN q
           /\ \A i \in DOMAIN Tail(q) : i + 1 \in DOMAIN q /\ Tail(q)[i] = q[i + 1]
           /\ Tail(q) = <<>> => Head(q) = q[Len(q)]
           /\ Tail(q) # <<>> => Tail(q)[Len(Tail(q))] = q[Len(q)]
<1>1. /\ Len(q) \in Nat \ {0} /\ DOMAIN q = 1 .. Len(q) /\ Head(q) = q[1]
  BY EmptySeq, LenProperties
<1>2. /\ Tail(q) \in Seq(S) /\ Len(Tail(q)) = Len(q) - 1
      /\ \A i \in 1 .. Len(q) - 1 : Tail(q)[i] = q[i + 1]
  BY HeadTailProperties
<1>3. DOMAIN Tail(q) = 1 .. Len(q) - 1
  BY <1>2, LenProperties
<1>4. Tail(q) = <<>> => Len(q) = 1
  BY <1>1, <1>2, EmptySeq
<1>5. Tail(q) # <<>> => Len(q) # 1
  BY <1>1, <1>2, EmptySeq
<1> QED BY <1>1, <1>2, <1>3, <1>4, <1>5

\* The session stays open and has one thing more to do.
LEMMA QueueGrows ==
    ASSUME TypeOK, ClientInv, pi'.phase # "none",
           NEW item \in Items, client'.queue = Append(client.queue, item),
           client'.gen \in Nat, client.gen <= client'.gen,
           item.op = "register" => item.arg <= client'.gen,
           client'.lease = client.lease, bridge'.lease = bridge.lease, bridge'.sure = bridge.sure
    PROVE  ClientInv'
<1>1. LeaseIsKnown' /\ ClosedIsQueued'
  BY DEF ClientInv, LeaseIsKnown, ClosedIsQueued
<1>2. client.queue \in Seq(Items) /\ client.gen \in Nat
  BY ClientFields DEF TypeOK
<1>3. \A i \in DOMAIN client'.queue :
        (i \in DOMAIN client.queue /\ client'.queue[i] = client.queue[i]) \/ client'.queue[i] = item
  BY <1>2, AppendElements
<1>4. \A i \in DOMAIN client.queue : client.queue[i] \in Items /\ client.queue[i].arg \in Nat
  <2>1. \A i \in DOMAIN client.queue : client.queue[i] \in Items
    BY <1>2, ElementOfSeq, LenProperties
  <2> QED BY <2>1 DEF Items
<1>5. QueueIsCurrent'
  BY <1>2, <1>3, <1>4 DEF ClientInv, QueueIsCurrent
<1> QED BY <1>1, <1>5 DEF ClientInv

\* Enqueuing changes the queue and nothing else of the client.
LEMMA EnqueueDoes ==
    ASSUME NEW c \in Clients, NEW item
    PROVE  /\ Enqueue(c, item).queue = Append(c.queue, item) /\ Enqueue(c, item).gen = c.gen
           /\ Enqueue(c, item).lease = c.lease /\ Enqueue(c, item).reg = c.reg
<1> DEFINE q == Append(c.queue, item)
<1> HIDE DEF q
<1>1. LET d == [c EXCEPT !.queue = q]
      IN d.queue = q /\ d.gen = c.gen /\ d.lease = c.lease /\ d.reg = c.reg
  BY DEF Clients
<1>2. Enqueue(c, item) = [c EXCEPT !.queue = q]
  BY DEF Enqueue, q
<1> QED BY <1>1, <1>2, Zenon DEF q

\* Every step keeps what is known of the session at the Bridge.
LEMMA ClientInductive == PiTypeInv /\ ClientInv /\ [Next]_vars => ClientInv'
<1> SUFFICES ASSUME PiTypeInv, ClientInv, [Next]_vars PROVE ClientInv'
  OBVIOUS
<1>t. TypeOK /\ OpenInv /\ OpenInv'
  BY OpenInductive DEF PiTypeInv
<1>c. client \in Clients /\ client.gen \in Nat /\ client.queue \in Seq(Items) /\ client.lease \in Nat
  BY <1>t, ClientFields DEF TypeOK
<1>p. pi = [phase |-> pi.phase, outcome |-> pi.outcome]
  BY <1>t DEF TypeOK
<1>k. ASSUME client' = client, bridge'.lease = bridge.lease, bridge'.sure = bridge.sure,
             pi'.phase = "none" => pi.phase = "none"
      PROVE  ClientInv'
  BY <1>k DEF ClientInv, LeaseIsKnown, QueueIsCurrent, ClosedIsQueued
<1>h. ASSUME NEW item \in Items, item.op # "register", client' = Enqueue(client, item),
             bridge'.lease = bridge.lease, bridge'.sure = bridge.sure, pi'.phase # "none"
      PROVE  ClientInv'
  <2>1. /\ client'.queue = Append(client.queue, item) /\ client'.gen = client.gen
        /\ client'.lease = client.lease
    BY <1>c, <1>h, EnqueueDoes
  <2> QED BY <2>1, <1>c, <1>h, <1>t, QueueGrows
<1>1. CASE SessionStart
  <2> DEFINE c == [client EXCEPT !.gen = @ + 1, !.reg = "queued"]
  <2>1. c \in Clients
    <3>1. client.gen + 1 \in Nat
      BY <1>c
    <3>2. [client EXCEPT !.gen = client.gen + 1] \in Clients
      BY <1>c, <3>1, ClientFields
    <3> QED BY <3>1, <3>2, ClientFields
  <2>2. c.queue = client.queue /\ c.gen = client.gen + 1 /\ c.lease = client.lease
    BY <1>c DEF Clients
  <2>3. client' = Enqueue(c, RegisterItem(client.gen + 1))
    BY <1>1 DEF SessionStart, registerSessionInBackground
  <2> HIDE DEF c
  <2>4. /\ client'.queue = Append(client.queue, RegisterItem(client.gen + 1))
        /\ client'.gen = client.gen + 1 /\ client'.lease = client.lease
    BY <2>1, <2>2, <2>3, EnqueueDoes
  <2>5. RegisterItem(client.gen + 1) \in Items /\ RegisterItem(client.gen + 1).arg = client.gen + 1
    BY <1>c DEF RegisterItem, Items
  <2>6. pi'.phase # "none" /\ bridge' = bridge
    BY <1>1 DEF SessionStart
  <2> QED BY <2>4, <2>5, <2>6, <1>c, <1>t, QueueGrows
<1>2. CASE SessionShutdown
  <2> DEFINE c == UnregisterLast(client)
             q == Append(client.queue, UnregisterItem)
  <2>1. c \in Clients /\ c.queue = q /\ c.gen = client.gen /\ c.lease = client.lease
    BY <1>c, EnqueueDoes, EnqueueKeepsTypes, ItemsAreTyped DEF UnregisterLast
  <2>2. client' = [c EXCEPT !.gen = @ + 1, !.reg = "none"] /\ bridge' = bridge
    BY <1>2 DEF SessionShutdown
  <2> HIDE DEF c, q
  <2>3. /\ client'.queue = q /\ client'.gen = client.gen + 1
        /\ client'.lease = client.lease /\ client'.reg = "none"
    BY <2>1, <2>2 DEF Clients
  <2>4. /\ q # <<>> /\ q[Len(q)] = UnregisterItem
        /\ \A i \in DOMAIN q : (i \in DOMAIN client.queue /\ q[i] = client.queue[i]) \/ q[i] = UnregisterItem
    BY <1>c, ItemsAreTyped, AppendElements DEF q
  <2>5. UnregisterItem.op = "unregister"
    BY DEF UnregisterItem
  <2>6. \A i \in DOMAIN client.queue : client.queue[i].arg \in Nat
    <3>1. \A i \in DOMAIN client.queue : client.queue[i] \in Items
      BY <1>c, ElementOfSeq, LenProperties
    <3> QED BY <3>1 DEF Items
  <2>7. \A i \in DOMAIN q : q[i].op = "register" => q[i].arg <= client.gen /\ q[i].arg \in Nat
    BY <2>4, <2>5, <2>6 DEF ClientInv, QueueIsCurrent
  <2>8. \A i \in DOMAIN q : q[i].op = "register" => q[i].arg < client.gen + 1 /\ q[i].arg <= client.gen + 1
    BY <2>7, <1>c
  <2> QED BY <2>2, <2>3, <2>4, <2>5, <2>8 DEF ClientInv, LeaseIsKnown, QueueIsCurrent, ClosedIsQueued
<1>3. CASE Input
  <2>1. Typed /\ pi'.phase # "none" /\ bridge' = bridge
    BY <1>3, <1>p, <1>t, InputDoes DEF Input, Typed, OpenInv
  <2>2. \A e : HandleItem(e).op # "register"
    BY DEF HandleItem
  <2> QED BY <2>1, <2>2, <1>h, <1>k DEF Typed
<1>4. CASE PiBusy \/ AgentStart \/ AgentEnd \/ AgentSettled \/ SessionTree \/ QuietWindowEnds
  <2>1. client' = client /\ bridge' = bridge
    BY <1>4 DEF PiBusy, AgentStart, AgentEnd, AgentSettled, SessionTree, QuietWindowEnds
  <2>2. pi.phase # "none" => pi'.phase # "none"
    <3>1. AgentEnd => pi'.phase = "ended"
      BY <1>p DEF AgentEnd
    <3>2. PiBusy => pi'.phase \in {"starting", "idle"}
      BY <1>p DEF PiBusy
    <3>3. SessionTree => pi'.phase = pi.phase
      BY <1>p DEF SessionTree
    <3>4. AgentSettled => pi'.phase = "idle"
      BY <1>p DEF AgentSettled
    <3> QED BY <1>4, <3>1, <3>2, <3>3, <3>4 DEF AgentStart, QuietWindowEnds
  <2> QED BY <2>1, <2>2, <1>k
<1>5. CASE \E p \in pushes : PushArrives(p)
  <2>1. PICK p \in pushes : PushArrives(p)
    BY <1>5
  <2>2. Arrived(p)
    BY <2>1, <1>t, ArrivalDoes
  <2> QED BY <2>1, <2>2, <1>k DEF Arrived, PushArrives
<1>6. CASE \E p \in pushes : PushAnswered(p)
  <2>1. PICK p \in pushes : PushAnswered(p)
    BY <1>6
  <2>2. bridge' = bridge /\ pi' = pi
    BY <2>1 DEF PushAnswered
  <2>3. CASE ext = None \/ p.answer = 0
    <3>1. client' = client
      BY <2>1, <2>3 DEF PushAnswered, PushSucceeds
    <3> QED BY <3>1, <2>2, <1>k
  <2>4. CASE ext # None /\ p.answer # 0
    <3>1. Taken(p)
      BY <2>1, <2>4, <1>t, SuccessDoes DEF PushAnswered
    <3>2. HandleItem(p.answer).op # "register"
      BY DEF HandleItem
    <3>3. client' = client \/ (client' = Enqueue(client, HandleItem(p.answer)) /\ HandleItem(p.answer) \in Items)
      BY <3>1 DEF Taken
    <3>4. pi'.phase # "none"
      BY <2>2, <2>4, <1>t DEF OpenInv
    <3> QED BY <3>2, <3>3, <3>4, <2>2, <1>h, <1>k
  <2> QED BY <2>3, <2>4
<1>7. CASE \E p \in pushes : PushLost(p)
  <2>1. PICK p \in pushes : PushLost(p)
    BY <1>7
  <2>2. bridge'.lease = bridge.lease /\ bridge'.sure = bridge.sure
    BY <2>1, <1>t DEF PushLost, TypeOK, Bridges
  <2> QED BY <2>1, <2>2, <1>k DEF PushLost
<1>8. CASE Mutation \/ MutationLost
  <2> DEFINE item == Head(client.queue)
  <2>1. client.queue # <<>> /\ item \in Items /\ Mutated(item)
    BY <1>8, <1>t, MutationDoes
  <2>2. /\ Len(client.queue) \in Nat \ {0} /\ 1 \in DOMAIN client.queue /\ item = client.queue[1]
        /\ \A i \in DOMAIN client'.queue : i + 1 \in DOMAIN client.queue /\ client'.queue[i] = client.queue[i + 1]
        /\ client'.queue = <<>> => item = client.queue[Len(client.queue)]
        /\ client'.queue # <<>> => client'.queue[Len(client'.queue)] = client.queue[Len(client.queue)]
    BY <2>1, <1>c, TailElements DEF Mutated
  <2>3. pi' = pi
    BY <1>8 DEF Mutation, MutationLost
  <2> HIDE DEF item
  <2>4. QueueIsCurrent'
    <3>1. client'.gen = client.gen
      BY <2>1 DEF Mutated
    <3> QED BY <2>2, <3>1 DEF ClientInv, QueueIsCurrent
  <2>5. LeaseIsKnown'
    <3>1. \/ ~bridge'.sure
          \/ bridge'.lease = client'.lease
          \/ bridge'.lease = bridge.lease /\ bridge'.sure = bridge.sure /\ client'.lease = client.lease
          \/ bridge'.lease = 0
          \/ ~Owned /\ bridge'.lease = bridge.lease /\ bridge'.sure = bridge.sure
      BY <2>1 DEF Mutated
    <3>2. bridge.sure => bridge.lease \in {0, client.lease}
      BY DEF ClientInv, LeaseIsKnown
    <3> QED BY <3>1, <3>2 DEF Owned, LeaseIsKnown
  <2>6. ASSUME pi.phase = "none" PROVE ClosedIsQueued'
    <3>1. /\ client.reg = "none" /\ client.queue[Len(client.queue)].op = "unregister"
          /\ \A i \in DOMAIN client.queue : client.queue[i].op = "register" => client.queue[i].arg < client.gen
      BY <2>1, <2>6 DEF ClientInv, ClosedIsQueued
    <3>2. item.op = "register" => item.arg \in Nat /\ item.arg < client.gen
      BY <2>1, <2>2, <3>1 DEF Items
    <3>3. client'.reg = "none" /\ client'.gen = client.gen
      BY <2>1, <3>1, <3>2, <1>c DEF Mutated
    <3>4. \A i \in DOMAIN client'.queue : client'.queue[i].op = "register" => client'.queue[i].arg < client'.gen
      BY <2>2, <3>1, <3>3
    <3>5. client'.queue # <<>> => client'.queue[Len(client'.queue)].op = "unregister"
      BY <2>2, <3>1
    <3>6. ASSUME client'.queue = <<>>, bridge'.sure PROVE bridge'.lease = 0
      <4>1. item.op = "unregister"
        BY <2>2, <3>1, <3>6
      <4>2. bridge'.lease = 0 \/ (~Owned /\ bridge'.lease = bridge.lease /\ bridge'.sure = bridge.sure)
        BY <4>1, <2>1, <3>6 DEF Mutated
      <4> QED BY <4>2, <3>6 DEF Owned, ClientInv, LeaseIsKnown
    <3> QED BY <3>3, <3>4, <3>5, <3>6 DEF ClosedIsQueued
  <2>7. pi.phase # "none" => ClosedIsQueued'
    BY <2>3 DEF ClosedIsQueued
  <2> QED BY <2>4, <2>5, <2>6, <2>7 DEF ClientInv
<1>9. CASE RegistrationRetry
  <2> DEFINE c == [client EXCEPT !.reg = "queued"]
  <2>1. c \in Clients /\ c.queue = client.queue /\ c.gen = client.gen /\ c.lease = client.lease
    BY <1>c, ClientFields DEF Clients
  <2>2. client' = Enqueue(c, RegisterItem(client.gen)) /\ client.reg # "none" /\ bridge' = bridge /\ pi' = pi
    BY <1>9 DEF RegistrationRetry
  <2> HIDE DEF c
  <2>3. /\ client'.queue = Append(client.queue, RegisterItem(client.gen))
        /\ client'.gen = client.gen /\ client'.lease = client.lease
    BY <2>1, <2>2, EnqueueDoes
  <2>4. pi'.phase # "none"
    BY <2>2 DEF ClientInv, ClosedIsQueued
  <2>5. RegisterItem(client.gen) \in Items /\ RegisterItem(client.gen).arg = client.gen
    BY <1>c DEF RegisterItem, Items
  <2> QED BY <2>2, <2>3, <2>4, <2>5, <1>c, <1>t, QueueGrows
<1>10. CASE Heartbeat
  <2>1. HeartbeatItem \in Items /\ HeartbeatItem.op # "register"
    BY ItemsAreTyped DEF HeartbeatItem
  <2> QED BY <1>10, <2>1, <1>h DEF Heartbeat
<1>11. CASE BridgeForgets
  <2>1. bridge'.lease = 0 /\ client' = client /\ pi' = pi
    BY <1>11, <1>t DEF BridgeForgets, TypeOK, Bridges
  <2> QED BY <2>1 DEF ClientInv, LeaseIsKnown, QueueIsCurrent, ClosedIsQueued
<1>12. CASE UNCHANGED vars
  BY <1>12, <1>k DEF vars
<1> QED BY <1>1, <1>2, <1>3, <1>4, <1>5, <1>6, <1>7, <1>8, <1>9, <1>10, <1>11, <1>12 DEF Next

-----------------------------------------------------------------------------
(* The deliveries and the Bridge's Events. *)

\* The Events that the Bridge has of a run.
Of(r) == {i \in DOMAIN bridge.events : bridge.events[i].run = r}

\* The Bridge's Events are of runs and inputs that were.
EventsArePast == \A i \in DOMAIN bridge.events :
    bridge.events[i].run <= n.runs /\ bridge.events[i].inputs <= n.inputs

\* Deliveries are of runs and inputs that were.
PushesArePast == \A p \in pushes :
    p.alert.run <= n.runs /\ p.token <= token /\ p.inputs <= n.inputs

\* A delivery that was accepted left its Event.
AnswersAreStored == \A p \in pushes : p.answer \notin {None, 0} =>
    /\ p.answer \in Of(p.alert.run)
    /\ bridge.events[p.answer].inputs = p.inputs
    /\ p.order <= bridge.order

\* Other Events of its run are there only of deliveries whose answer was lost.
OthersAreLost == \A p \in pushes : Of(p.alert.run) \subseteq bridge.lost \cup {p.answer}

\* Of one run there is at most one delivery under way.
OnePushPerRun == \A p, q \in pushes : p.alert.run = q.alert.run => p = q

\* What is known of the deliveries and of the Events they leave.
PushInv ==
    /\ EventsArePast /\ PushesArePast /\ AnswersAreStored /\ OthersAreLost /\ OnePushPerRun
    /\ RepeatedAfterLoss

\* A step that begins no delivery and stores no Event.
Quiet ==
    /\ pushes' \subseteq pushes
    /\ bridge'.events = bridge.events /\ bridge.lost \subseteq bridge'.lost
    /\ bridge'.order = bridge.order
    /\ n.runs <= n'.runs /\ n.inputs <= n'.inputs /\ token <= token'

\* The runs and the inputs of Events are numbers.
LEMMA EventsAreTyped ==
    ASSUME TypeOK
    PROVE  /\ Len(bridge.events) \in Nat /\ DOMAIN bridge.events = 1 .. Len(bridge.events)
           /\ \A i \in DOMAIN bridge.events : bridge.events[i].run \in Nat /\ bridge.events[i].inputs \in Nat
<1>1. bridge.events \in Seq([run : Nat, inputs : Nat])
  BY BridgeFields DEF TypeOK
<1>2. \A i \in DOMAIN bridge.events : bridge.events[i] \in [run : Nat, inputs : Nat]
  BY <1>1, ElementOfSeq, LenProperties
<1> QED BY <1>1, <1>2, LenProperties

\* Such a step keeps what is known of the deliveries.
LEMMA QuietKeepsPushes == ASSUME TypeOK, TypeOK', PushInv, Quiet PROVE PushInv'
<1>1. Len(bridge.events) \in Nat /\ DOMAIN bridge.events = 1 .. Len(bridge.events)
      /\ \A i \in DOMAIN bridge.events : bridge.events[i].run \in Nat /\ bridge.events[i].inputs \in Nat
  BY EventsAreTyped
<1>2. /\ n.runs \in Nat /\ n'.runs \in Nat /\ n.inputs \in Nat /\ n'.inputs \in Nat
      /\ token \in Nat /\ token' \in Nat
  BY DEF TypeOK
<1>3. \A p \in pushes : p.alert.run \in Nat /\ p.token \in Nat /\ p.inputs \in Nat
  BY DEF TypeOK, Pushes, Alerts
<1>4. \A r : Of(r)' = Of(r)
  BY DEF Quiet, Of
<1>5. EventsArePast'
  BY <1>1, <1>2 DEF PushInv, EventsArePast, Quiet
<1>6. PushesArePast'
  BY <1>2, <1>3 DEF PushInv, PushesArePast, Quiet
<1>7. AnswersAreStored'
  <2> SUFFICES ASSUME NEW p \in pushes', p.answer \notin {None, 0}
               PROVE  /\ p.answer \in Of(p.alert.run)'
                      /\ bridge'.events[p.answer].inputs = p.inputs
                      /\ p.order <= bridge'.order
    BY DEF AnswersAreStored
  <2> QED BY <1>4 DEF PushInv, AnswersAreStored, Quiet
<1>8. OthersAreLost'
  <2> SUFFICES ASSUME NEW p \in pushes' PROVE Of(p.alert.run)' \subseteq bridge'.lost \cup {p.answer}
    BY DEF OthersAreLost
  <2> QED BY <1>4 DEF PushInv, OthersAreLost, Quiet
<1>9. OnePushPerRun'
  BY DEF PushInv, OnePushPerRun, Quiet
<1>10. RepeatedAfterLoss'
  BY DEF PushInv, RepeatedAfterLoss, Quiet
<1> QED BY <1>5, <1>6, <1>7, <1>8, <1>9, <1>10 DEF PushInv

\* A delivery begins.
LEMMA BeginKeepsPushes ==
    ASSUME TypeOK, PushInv, ext \in States, ext.alert # None, ext.alert.run <= n.runs,
           Of(ext.alert.run) \subseteq bridge.lost, \A p \in pushes : p.alert.run # ext.alert.run,
           NEW order \in Nat, pushes' = pushes \cup {Request(order)},
           bridge' = bridge, n' = n, token' = token
    PROVE  PushInv'
<1> DEFINE r == Request(order)
<1>1. /\ r.alert = ext.alert /\ r.token = token /\ r.inputs = n.inputs /\ r.answer = None
      /\ token <= token /\ n.inputs <= n.inputs
  BY DEF Request, TypeOK
<1> HIDE DEF r
<1>2. pushes' = pushes \cup {r}
  BY DEF r
<1>3. \A x : Of(x)' = Of(x)
  BY DEF Of
<1>4. EventsArePast' /\ RepeatedAfterLoss'
  BY DEF PushInv, EventsArePast, RepeatedAfterLoss
<1>5. PushesArePast'
  BY <1>1, <1>2 DEF PushInv, PushesArePast
<1>6. AnswersAreStored'
  <2> SUFFICES ASSUME NEW p \in pushes', p.answer \notin {None, 0}
               PROVE  /\ p.answer \in Of(p.alert.run)'
                      /\ bridge'.events[p.answer].inputs = p.inputs
                      /\ p.order <= bridge'.order
    BY DEF AnswersAreStored
  <2> QED BY <1>1, <1>2, <1>3 DEF PushInv, AnswersAreStored
<1>7. OthersAreLost'
  <2> SUFFICES ASSUME NEW p \in pushes' PROVE Of(p.alert.run)' \subseteq bridge'.lost \cup {p.answer}
    BY DEF OthersAreLost
  <2> QED BY <1>1, <1>2, <1>3 DEF PushInv, OthersAreLost
<1>8. OnePushPerRun'
  BY <1>1, <1>2 DEF PushInv, OnePushPerRun
<1> QED BY <1>4, <1>5, <1>6, <1>7, <1>8 DEF PushInv

\* A delivery arrives: what is known of its Event, and of the others.
Accepted(p, a) ==
    /\ a.alert = p.alert /\ a.token = p.token /\ a.inputs = p.inputs /\ a.order = p.order
    /\ a.leaf = p.leaf /\ a.flow = p.flow /\ a.settled = p.settled /\ a.cursor = p.cursor
    /\ pushes' = (pushes \ {p}) \cup {a}
    /\ \/ /\ a.answer = Len(bridge.events) + 1 /\ a.answer \notin {None, 0} /\ bridge.order < p.order
          /\ bridge'.order = p.order /\ bridge'.lost = bridge.lost
          /\ bridge'.events[a.answer].run = p.alert.run /\ bridge'.events[a.answer].inputs = p.inputs
          /\ \A i \in DOMAIN bridge.events : i # a.answer /\ i < a.answer /\ bridge'.events[i] = bridge.events[i]
          /\ DOMAIN bridge'.events = DOMAIN bridge.events \cup {a.answer}
          /\ Len(bridge'.events) = a.answer
       \/ /\ a.answer = 0 /\ bridge' = bridge

\* An arriving delivery has no answer yet and gets one.
LEMMA ArrivalAccepts ==
    ASSUME TypeOK, NEW p \in pushes, PushArrives(p)
    PROVE  p.answer = None /\ \E a : Accepted(p, a)
<1>1. p \in Pushes /\ bridge.events \in Seq([run : Nat, inputs : Nat]) /\ Arrived(p) /\ p.answer = None
  BY BridgeFields, ArrivalDoes DEF TypeOK, PushArrives
<1>2. \A x : LET a == [p EXCEPT !.answer = x]
             IN /\ a.alert = p.alert /\ a.token = p.token /\ a.inputs = p.inputs /\ a.order = p.order
                /\ a.leaf = p.leaf /\ a.flow = p.flow /\ a.settled = p.settled /\ a.cursor = p.cursor
                /\ a.answer = x
  BY <1>1 DEF Pushes
<1> DEFINE len == Len(bridge.events)
           event == [run |-> p.alert.run, inputs |-> p.inputs]
<1>3. len \in Nat /\ len + 1 \in Nat /\ len + 1 # 0 /\ DOMAIN bridge.events = 1 .. len
  BY <1>1, LenProperties
<1>4. event \in [run : Nat, inputs : Nat]
  BY <1>1 DEF Pushes, Alerts
<1>5. CASE bridge' = bridge /\ pushes' = (pushes \ {p}) \cup {[p EXCEPT !.answer = 0]}
  <2> DEFINE a == [p EXCEPT !.answer = 0]
  <2>1. /\ a.alert = p.alert /\ a.token = p.token /\ a.inputs = p.inputs /\ a.order = p.order
        /\ a.leaf = p.leaf /\ a.flow = p.flow /\ a.settled = p.settled /\ a.cursor = p.cursor
        /\ a.answer = 0
    BY <1>2
  <2>2. pushes' = (pushes \ {p}) \cup {a}
    BY <1>5
  <2> HIDE DEF a
  <2>3. Accepted(p, a)
    BY <2>1, <2>2, <1>5 DEF Accepted
  <2> QED BY <2>3, <1>1
<1>6. CASE /\ p.order > bridge.order /\ bridge'.order = p.order /\ bridge'.lost = bridge.lost
           /\ bridge'.events = Append(bridge.events, event)
           /\ pushes' = (pushes \ {p}) \cup {[p EXCEPT !.answer = len + 1]}
  <2> DEFINE a == [p EXCEPT !.answer = len + 1]
             later == Append(bridge.events, event)
  <2>1. /\ a.alert = p.alert /\ a.token = p.token /\ a.inputs = p.inputs /\ a.order = p.order
        /\ a.leaf = p.leaf /\ a.flow = p.flow /\ a.settled = p.settled /\ a.cursor = p.cursor
        /\ a.answer = len + 1
    BY <1>2
  <2>2. pushes' = (pushes \ {p}) \cup {a}
    BY <1>6
  <2>3. /\ Len(later) = len + 1 /\ later[len + 1] = event /\ later \in Seq([run : Nat, inputs : Nat])
        /\ \A i \in 1 .. len : later[i] = bridge.events[i]
    BY <1>1, <1>4, AppendProperties
  <2>4. event.run = p.alert.run /\ event.inputs = p.inputs
    OBVIOUS
  <2>5. DOMAIN later = 1 .. (len + 1)
    BY <2>3, <1>3, LenProperties
  <2>6. bridge'.events = later
    BY <1>6
  <2>7. p.order \in Nat /\ bridge.order \in Nat
    BY <1>1, BridgeFields DEF TypeOK, Pushes
  <2> HIDE DEF a, later, event, len
  <2>8. /\ a.answer \notin {None, 0}
        /\ \A i \in DOMAIN bridge.events : i # a.answer /\ i < a.answer /\ later[i] = bridge.events[i]
        /\ DOMAIN later = DOMAIN bridge.events \cup {a.answer}
    <3>1. None # len + 1
      BY <1>3, NoneAssumption
    <3> QED BY <3>1, <2>1, <2>3, <2>5, <1>3
  <2>9. bridge.order < p.order
    BY <1>6, <2>7
  <2>10. /\ bridge'.order = p.order /\ bridge'.lost = bridge.lost
         /\ bridge'.events[a.answer].run = p.alert.run /\ bridge'.events[a.answer].inputs = p.inputs
         /\ Len(bridge'.events) = a.answer
    BY <1>6, <2>1, <2>3, <2>4, <2>6
  <2>11. a.answer = Len(bridge.events) + 1
    BY <2>1 DEF len
  <2>12. Accepted(p, a)
    BY <2>1, <2>2, <2>6, <2>8, <2>9, <2>10, <2>11 DEF Accepted
  <2> QED BY <2>12, <1>1
<1> QED BY <1>1, <1>5, <1>6 DEF Arrived

\* An arrival keeps what is known of the deliveries.
LEMMA ArrivalKeepsPushes ==
    ASSUME TypeOK, PushInv, NEW p \in pushes, NEW a, Accepted(p, a), p.answer = None,
           n' = n, token' = token
    PROVE  PushInv'
<1>1. p.alert.run <= n.runs /\ p.token <= token /\ p.inputs <= n.inputs
  BY DEF PushInv, PushesArePast
<1>2. Of(p.alert.run) \subseteq bridge.lost
  <2>1. None \notin Of(p.alert.run)
    <3>1. DOMAIN bridge.events \subseteq Nat
      BY BridgeFields, LenProperties DEF TypeOK
    <3> QED BY <3>1, NoneAssumption DEF Of
  <2> QED BY <2>1 DEF PushInv, OthersAreLost
<1>3. \A q \in pushes : q # p => q.alert.run # p.alert.run
  BY DEF PushInv, OnePushPerRun
<1>4. CASE a.answer = 0 /\ bridge' = bridge
  <2>1. \A x : Of(x)' = Of(x)
    BY <1>4 DEF Of
  <2>2. EventsArePast' /\ RepeatedAfterLoss'
    BY <1>4 DEF PushInv, EventsArePast, RepeatedAfterLoss
  <2>3. PushesArePast'
    BY <1>1 DEF PushInv, PushesArePast, Accepted
  <2>4. AnswersAreStored'
    <3> SUFFICES ASSUME NEW q \in pushes', q.answer \notin {None, 0}
                 PROVE  /\ q.answer \in Of(q.alert.run)'
                        /\ bridge'.events[q.answer].inputs = q.inputs
                        /\ q.order <= bridge'.order
      BY DEF AnswersAreStored
    <3> QED BY <2>1, <1>4 DEF PushInv, AnswersAreStored, Accepted
  <2>5. OthersAreLost'
    <3> SUFFICES ASSUME NEW q \in pushes' PROVE Of(q.alert.run)' \subseteq bridge'.lost \cup {q.answer}
      BY DEF OthersAreLost
    <3> QED BY <2>1, <1>2, <1>4 DEF PushInv, OthersAreLost, Accepted
  <2>6. OnePushPerRun'
    BY <1>3 DEF PushInv, OnePushPerRun, Accepted
  <2> QED BY <2>2, <2>3, <2>4, <2>5, <2>6 DEF PushInv
<1>5. CASE a.answer # 0
  <2>0. /\ a.answer = Len(bridge.events) + 1 /\ a.answer \notin {None, 0} /\ bridge.order < p.order
        /\ bridge'.order = p.order /\ bridge'.lost = bridge.lost
        /\ bridge'.events[a.answer].run = p.alert.run /\ bridge'.events[a.answer].inputs = p.inputs
        /\ \A i \in DOMAIN bridge.events : i # a.answer /\ i < a.answer /\ bridge'.events[i] = bridge.events[i]
        /\ DOMAIN bridge'.events = DOMAIN bridge.events \cup {a.answer}
    BY <1>5 DEF Accepted
  <2>1. /\ \A x : x # p.alert.run => Of(x)' = Of(x)
        /\ Of(p.alert.run)' = Of(p.alert.run) \cup {a.answer}
    BY <2>0 DEF Of
  <2>2. EventsArePast'
    BY <2>0, <1>1 DEF PushInv, EventsArePast
  <2>3. PushesArePast'
    BY <1>1 DEF PushInv, PushesArePast, Accepted
  <2>4. AnswersAreStored'
    <3> SUFFICES ASSUME NEW q \in pushes', q.answer \notin {None, 0}
                 PROVE  /\ q.answer \in Of(q.alert.run)'
                        /\ bridge'.events[q.answer].inputs = q.inputs
                        /\ q.order <= bridge'.order
      BY DEF AnswersAreStored
    <3>1. CASE q = a
      <4>1. p.order <= p.order
        BY DEF TypeOK, Pushes
      <4> QED BY <4>1, <3>1, <2>0, <2>1 DEF Accepted
    <3>2. CASE q \in pushes /\ q # p
      <4>1. /\ q.answer \in Of(q.alert.run) /\ bridge.events[q.answer].inputs = q.inputs
            /\ q.order <= bridge.order
        BY <3>2 DEF PushInv, AnswersAreStored
      <4>2. q.answer \in Of(q.alert.run)' /\ bridge'.events[q.answer].inputs = q.inputs
        BY <4>1, <2>0, <2>1, <1>3, <3>2 DEF Of
      <4>3. q.order <= bridge'.order
        <5>1. q.order \in Nat /\ p.order \in Nat /\ bridge.order \in Nat
          BY <3>2, BridgeFields DEF TypeOK, Pushes
        <5> QED BY <5>1, <4>1, <2>0
      <4> QED BY <4>2, <4>3
    <3> QED BY <3>1, <3>2 DEF Accepted
  <2>5. OthersAreLost'
    <3> SUFFICES ASSUME NEW q \in pushes' PROVE Of(q.alert.run)' \subseteq bridge'.lost \cup {q.answer}
      BY DEF OthersAreLost
    <3>1. CASE q = a
      BY <3>1, <2>0, <2>1, <1>2 DEF Accepted
    <3>2. CASE q \in pushes /\ q # p
      BY <3>2, <2>0, <2>1, <1>3 DEF PushInv, OthersAreLost
    <3> QED BY <3>1, <3>2 DEF Accepted
  <2>6. OnePushPerRun'
    BY <1>3 DEF PushInv, OnePushPerRun, Accepted
  <2>7. RepeatedAfterLoss'
    <3> SUFFICES ASSUME NEW i \in DOMAIN bridge'.events, NEW j \in DOMAIN bridge'.events, i < j,
                        bridge'.events[i].run = bridge'.events[j].run
                 PROVE  i \in bridge'.lost
      BY DEF RepeatedAfterLoss
    <3>0. /\ Len(bridge.events) \in Nat /\ DOMAIN bridge.events = 1 .. Len(bridge.events)
      BY BridgeFields, LenProperties DEF TypeOK
    <3>1. CASE j = a.answer
      <4>1. i \in DOMAIN bridge.events
        BY <3>0, <3>1, <2>0
      <4>2. i \in Of(p.alert.run)
        BY <4>1, <3>1, <2>0 DEF Of
      <4> QED BY <4>2, <1>2, <2>0
    <3>2. CASE j \in DOMAIN bridge.events /\ i \in DOMAIN bridge.events
      BY <3>2, <2>0 DEF PushInv, RepeatedAfterLoss
    <3>3. CASE j \in DOMAIN bridge.events /\ i = a.answer
      BY <3>0, <3>3, <2>0
    <3> QED BY <3>1, <3>2, <3>3, <2>0
  <2> QED BY <2>2, <2>3, <2>4, <2>5, <2>6, <2>7 DEF PushInv
<1> QED BY <1>4, <1>5 DEF Accepted

-----------------------------------------------------------------------------
(* The reducer. *)

\* Nothing of a run is at the Bridge or on its way there.
Unsent(r) == Of(r) = {} /\ \A p \in pushes : p.alert.run # r
\* An alert is pending.
Alerted == ext # None /\ (ext # None => ext.alert # None)

\* A run that has not settled has sent nothing, and its result is how it ended.
RunningIsUnsent == pi.phase = "running" => Unsent(n.runs)
ResultIsLast ==
    ext # None => (ext.result # None =>
        pi.phase = "ended" /\ ext.cur # 0 /\ ext.result.outcome = pi.outcome /\ Unsent(n.runs))

\* A pending alert is about the last run, and Pi has not begun another one.
AlertIsLast ==
    Alerted => pi.phase \in {"idle", "starting"} /\ ext.alert.run = n.runs /\ ext.alert.outcome = pi.outcome

\* The delivery of a pending alert is the newest one, and nothing came since.
AlertIsNewest ==
    Alerted => \A p \in pushes : p.alert.run = ext.alert.run =>
        /\ ext.sending /\ token = p.token /\ ext.leaf = p.leaf
        /\ ext.flow = p.flow /\ ext.settled = p.settled /\ ext.cursor = p.cursor
        /\ \A q \in pushes : q # p => q.order < p.order
        /\ p.answer \notin {None, 0} => p.answer = Len(bridge.events)

\* What the Bridge has of a pending alert that is not being delivered was lost.
AlertIsUnsent == Alerted => (~ext.sending => Of(ext.alert.run) \subseteq bridge.lost)

\* The inputs since a delivery began are those that the cursor counts.
CursorsAgree ==
    ext # None => \A p \in pushes : token = p.token => ext.cursor + p.inputs = p.cursor + n.inputs

\* The status the Bridge was told is the run's.
StatusIsTrue ==
    /\ pi.phase \in {"running", "ended"} => status = "working"
    /\ pi.phase \in {"idle", "starting"} /\ pi.outcome \in {"error", "answer"} /\ status # "working" =>
          Of(n.runs) # {}

\* What is known of the run, its result and its alert.
ReducerInv ==
    /\ RunningIsUnsent /\ ResultIsLast /\ AlertIsLast /\ AlertIsNewest /\ AlertIsUnsent
    /\ CursorsAgree /\ StatusIsTrue

\* A step that leaves the run and its alert as they are.
LEMMA ReducerKept ==
    ASSUME ReducerInv, Quiet, n'.runs = n.runs, n'.inputs = n.inputs, token' = token,
           pi' = pi, status' = status,
           \/ ext' = ext
           \/ /\ ext # None /\ ext' # None /\ Kept(ext, ext') /\ ext'.result = ext.result
              /\ ext'.settled = ext.settled /\ ext'.cur = ext.cur
              /\ ext'.alert = ext.alert /\ ext'.sending = ext.sending
    PROVE  ReducerInv'
<1>1. \A r : Of(r)' = Of(r)
  BY DEF Quiet, Of
<1>2. Unsent(n.runs) => Unsent(n.runs)'
  BY <1>1 DEF Unsent, Quiet
<1>3. RunningIsUnsent' /\ StatusIsTrue'
  BY <1>1, <1>2 DEF ReducerInv, RunningIsUnsent, StatusIsTrue
<1>4. ResultIsLast' /\ AlertIsLast'
  BY <1>2 DEF ReducerInv, ResultIsLast, AlertIsLast, Alerted
<1>5. AlertIsNewest'
  BY DEF ReducerInv, AlertIsNewest, Alerted, Kept, Quiet
<1>6. AlertIsUnsent'
  BY <1>1 DEF ReducerInv, AlertIsUnsent, Alerted, Quiet
<1>7. CursorsAgree'
  BY DEF ReducerInv, CursorsAgree, Kept, Quiet
<1> QED BY <1>3, <1>4, <1>5, <1>6, <1>7 DEF ReducerInv

\* A step that leaves nothing pending.
LEMMA NothingPending ==
    ASSUME ext' # None => ext'.alert = None /\ ext'.result = None,
           RunningIsUnsent', StatusIsTrue', CursorsAgree'
    PROVE  ReducerInv'
BY DEF ReducerInv, ResultIsLast, AlertIsLast, AlertIsNewest, AlertIsUnsent, Alerted

\* No delivery under way belongs to the session after the next event of Pi's tree.
LEMMA NewTokenAgrees ==
    ASSUME TypeOK, PushInv, token' = token + 1, pushes' = pushes
    PROVE  CursorsAgree'
<1>1. \A p \in pushes : p.token \in Nat /\ p.token <= token /\ token \in Nat
  BY DEF TypeOK, Pushes, PushInv, PushesArePast
<1>2. \A p \in pushes : token + 1 # p.token
  BY <1>1
<1> QED BY <1>2 DEF CursorsAgree

\* The end of a quiet window keeps all of it.
LEMMA DeliveryBegins ==
    ASSUME PiTypeInv, PushInv, ReducerInv, QuietWindowEnds
    PROVE  ReducerInv' /\ (TypeOK' => PushInv')
<1>t. TypeOK /\ OpenInv /\ OrdersInv
  BY DEF PiTypeInv
<1>1. ext \in States /\ Quieted /\ ext # None /\ ext' # None
  BY <1>t, QuietDoes, NoneAssumption DEF Quieted
<1>2. /\ bridge' = bridge /\ n' = n /\ token' = token /\ pi' = pi /\ status' = status
  BY DEF QuietWindowEnds
<1>s. \A r : Of(r)' = Of(r)
  BY <1>2 DEF Of
<1>3. pushes' = pushes => Quiet
  BY <1>2, <1>t DEF Quiet, TypeOK
<1>4. CASE pushes' = pushes /\ ext'.alert = ext.alert /\ ext'.sending = ext.sending
  <2>1. ReducerInv'
    BY <1>1, <1>2, <1>3, <1>4, ReducerKept DEF Quieted
  <2> QED BY <2>1, <1>3, <1>4, <1>t, QuietKeepsPushes
<1>5. CASE pushes' = pushes /\ ext'.alert = None
  <2>1. Unsent(n.runs) => Unsent(n.runs)'
    BY <1>2, <1>5, <1>s DEF Unsent
  <2>2. RunningIsUnsent' /\ ResultIsLast'
    BY <2>1, <1>1, <1>2 DEF ReducerInv, RunningIsUnsent, ResultIsLast, Quieted
  <2>3. CursorsAgree' /\ StatusIsTrue'
    BY <1>1, <1>2, <1>5, <1>s DEF ReducerInv, CursorsAgree, StatusIsTrue, Quieted, Kept
  <2>4. ReducerInv'
    BY <2>2, <2>3, <1>5 DEF ReducerInv, AlertIsLast, AlertIsNewest, AlertIsUnsent, Alerted
  <2> QED BY <2>4, <1>3, <1>5, <1>t, QuietKeepsPushes
<1>6. CASE /\ pushes' = pushes \cup {Request(allocateProducerEventOrder)}
           /\ ext.alert # None /\ ~ext.sending /\ ext'.alert = ext.alert /\ ext'.sending = TRUE
  <2> DEFINE order == allocateProducerEventOrder
             r == Request(order)
  <2>1. order \in Nat /\ \A p \in pushes : order > p.order
    BY <1>t, OrderIsNew
  <2>2. /\ r.alert = ext.alert /\ r.token = token /\ r.leaf = ext.leaf /\ r.flow = ext.flow
        /\ r.settled = ext.settled /\ r.cursor = ext.cursor /\ r.order = order
        /\ r.inputs = n.inputs /\ r.answer = None
    BY DEF Request
  <2>3. pushes' = pushes \cup {r}
    BY <1>6
  <2> HIDE DEF order, r
  <2>4. pi.phase \in {"idle", "starting"} /\ ext.alert.run = n.runs /\ ext.alert.outcome = pi.outcome
    BY <1>1, <1>6 DEF ReducerInv, AlertIsLast, Alerted
  <2>5. Of(ext.alert.run) \subseteq bridge.lost /\ \A p \in pushes : p.alert.run # ext.alert.run
    BY <1>1, <1>6 DEF ReducerInv, AlertIsNewest, AlertIsUnsent, Alerted
  <2>6. RunningIsUnsent' /\ ResultIsLast' /\ AlertIsLast'
    BY <1>1, <1>2, <1>6, <2>4 DEF ReducerInv, RunningIsUnsent, ResultIsLast, AlertIsLast, Alerted, Quieted
  <2>7. AlertIsNewest'
    <3> SUFFICES ASSUME NEW p \in pushes', p.alert.run = ext'.alert.run
                 PROVE  /\ ext'.sending /\ token' = p.token /\ ext'.leaf = p.leaf
                        /\ ext'.flow = p.flow /\ ext'.settled = p.settled /\ ext'.cursor = p.cursor
                        /\ \A q \in pushes' : q # p => q.order < p.order
                        /\ p.answer \notin {None, 0} => p.answer = Len(bridge'.events)
      BY DEF AlertIsNewest
    <3>1. p = r
      BY <2>3, <2>5, <1>6
    <3>2. \A q \in pushes : q.order < order
      BY <2>1, <1>t DEF TypeOK, Pushes
    <3> QED BY <3>1, <3>2, <2>2, <2>3, <1>1, <1>2, <1>6 DEF Quieted, Kept
  <2>8. AlertIsUnsent'
    BY <1>6 DEF AlertIsUnsent
  <2>9. CursorsAgree'
    BY <1>1, <1>2, <2>2, <2>3 DEF ReducerInv, CursorsAgree, Quieted, Kept
  <2>10. StatusIsTrue'
    BY <1>2, <1>s DEF ReducerInv, StatusIsTrue
  <2>11. PushInv'
    <3>1. n.runs <= n.runs
      BY <1>t DEF TypeOK
    <3> QED BY <3>1, <1>1, <1>2, <1>6, <1>t, <2>1, <2>3, <2>4, <2>5, BeginKeepsPushes DEF r
  <2> QED BY <2>6, <2>7, <2>8, <2>9, <2>10, <2>11 DEF ReducerInv
<1> QED BY <1>1, <1>4, <1>5, <1>6 DEF Quieted

\* The arrival of a delivery keeps all of it.
LEMMA DeliveryArrives ==
    ASSUME PiTypeInv, PushInv, ReducerInv, NEW p \in pushes, PushArrives(p)
    PROVE  ReducerInv' /\ PushInv'
<1>t. TypeOK
  BY DEF PiTypeInv
<1>1. PICK a : Accepted(p, a)
  BY <1>t, ArrivalAccepts
<1>2. /\ p.answer = None /\ pi' = pi /\ ext' = ext /\ token' = token /\ status' = status /\ n' = n
  BY DEF PushArrives
<1>3. PushInv'
  BY <1>1, <1>2, <1>t, ArrivalKeepsPushes
<1>4. \A r : r # p.alert.run => Of(r)' = Of(r)
  BY <1>1 DEF Accepted, Of
<1>5. \A r : Of(r) \subseteq Of(r)'
  BY <1>1 DEF Accepted, Of
<1>6. Unsent(n.runs) => Unsent(n.runs)'
  BY <1>1, <1>2, <1>4 DEF Unsent, Accepted
<1>7. RunningIsUnsent' /\ ResultIsLast' /\ AlertIsLast'
  BY <1>2, <1>6 DEF ReducerInv, RunningIsUnsent, ResultIsLast, AlertIsLast, Alerted
<1>8. AlertIsNewest'
  <2> SUFFICES ASSUME Alerted', NEW q \in pushes', q.alert.run = ext'.alert.run
               PROVE  /\ ext'.sending /\ token' = q.token /\ ext'.leaf = q.leaf
                      /\ ext'.flow = q.flow /\ ext'.settled = q.settled /\ ext'.cursor = q.cursor
                      /\ \A s \in pushes' : s # q => s.order < q.order
                      /\ q.answer \notin {None, 0} => q.answer = Len(bridge'.events)
    BY DEF AlertIsNewest
  <2>0. Alerted
    BY <1>2 DEF Alerted
  <2>1. CASE q = a
    <3>1. p.alert.run = ext.alert.run
      BY <2>1, <1>1, <1>2 DEF Accepted
    <3>2. /\ ext.sending /\ token = p.token /\ ext.leaf = p.leaf
          /\ ext.flow = p.flow /\ ext.settled = p.settled /\ ext.cursor = p.cursor
          /\ \A s \in pushes : s # p => s.order < p.order
      BY <2>0, <3>1 DEF ReducerInv, AlertIsNewest
    <3> QED BY <3>2, <2>1, <1>1, <1>2 DEF Accepted
  <2>2. CASE q \in pushes /\ q # p
    <3>1. /\ ext.sending /\ token = q.token /\ ext.leaf = q.leaf
          /\ ext.flow = q.flow /\ ext.settled = q.settled /\ ext.cursor = q.cursor
          /\ \A s \in pushes : s # q => s.order < q.order
          /\ q.answer \notin {None, 0} => q.answer = Len(bridge.events)
      BY <2>0, <2>2, <1>2 DEF ReducerInv, AlertIsNewest
    <3>2. p.order < q.order
      BY <3>1, <2>2
    <3>3. \A s \in pushes' : s # q => s.order < q.order
      BY <3>1, <3>2, <1>1 DEF Accepted
    <3>4. ASSUME q.answer \notin {None, 0} PROVE q.answer = Len(bridge'.events)
      <4>1. q.order <= bridge.order /\ q.order \in Nat /\ p.order \in Nat /\ bridge.order \in Nat
        BY <3>4, <2>2, <1>t, BridgeFields DEF PushInv, AnswersAreStored, TypeOK, Pushes
      <4>2. ~(bridge.order < p.order)
        BY <4>1, <3>2
      <4> QED BY <4>2, <3>1, <3>4, <1>1 DEF Accepted
    <3> QED BY <3>1, <3>3, <3>4, <1>2
  <2> QED BY <2>1, <2>2, <1>1 DEF Accepted
<1>9. AlertIsUnsent'
  <2> SUFFICES ASSUME Alerted', ~ext'.sending PROVE Of(ext.alert.run)' \subseteq bridge'.lost
    BY <1>2 DEF AlertIsUnsent
  <2>1. Of(ext.alert.run) \subseteq bridge.lost /\ p.alert.run # ext.alert.run
    BY <1>2 DEF ReducerInv, AlertIsUnsent, AlertIsNewest, Alerted
  <2> QED BY <2>1, <1>1, <1>2, <1>4 DEF Accepted
<1>10. CursorsAgree'
  BY <1>1, <1>2 DEF ReducerInv, CursorsAgree, Accepted
<1>11. StatusIsTrue'
  BY <1>2, <1>5 DEF ReducerInv, StatusIsTrue
<1> QED BY <1>3, <1>7, <1>8, <1>9, <1>10, <1>11 DEF ReducerInv

\* A delivery that failed may be tried again: what the Bridge has of it was lost.
LEMMA DeliveryFails ==
    ASSUME PiTypeInv, PushInv, ReducerInv, NEW p \in pushes, pushes' = pushes \ {p},
           ext # None, ext' # None, Freed(p), Quiet,
           (SameAlert(p) /\ p.answer \notin {None, 0}) => p.answer \in bridge'.lost,
           pi' = pi, token' = token, status' = status,
           n'.runs = n.runs, n'.inputs = n.inputs
    PROVE  ReducerInv'
<1>1. \A r : Of(r)' = Of(r)
  BY DEF Quiet, Of
<1>2. Unsent(n.runs) => Unsent(n.runs)'
  BY <1>1 DEF Unsent
<1>3. RunningIsUnsent' /\ StatusIsTrue'
  BY <1>1, <1>2 DEF ReducerInv, RunningIsUnsent, StatusIsTrue
<1>4. ResultIsLast' /\ AlertIsLast'
  BY <1>2 DEF ReducerInv, ResultIsLast, AlertIsLast, Alerted, Freed
<1>5. CursorsAgree'
  BY DEF ReducerInv, CursorsAgree, Kept, Freed
<1>6. CASE SameAlert(p)
  <2>1. ext.alert # None /\ ext.alert.run = p.alert.run
    BY <1>6 DEF SameAlert
  <2>2. \A q \in pushes' : q.alert.run # ext.alert.run
    BY <2>1 DEF PushInv, OnePushPerRun
  <2>3. AlertIsNewest'
    BY <2>2 DEF AlertIsNewest, Freed
  <2>4. Of(ext.alert.run) \subseteq bridge'.lost
    <3>1. Of(p.alert.run) \subseteq bridge.lost \cup {p.answer}
      BY DEF PushInv, OthersAreLost
    <3>2. None \notin Of(p.alert.run) /\ 0 \notin Of(p.alert.run)
      <4>1. DOMAIN bridge.events \subseteq Nat \ {0}
        BY BridgeFields, LenProperties DEF PiTypeInv, TypeOK
      <4> QED BY <4>1, NoneAssumption DEF Of
    <3> QED BY <3>1, <3>2, <2>1, <1>6 DEF Quiet
  <2>5. AlertIsUnsent'
    BY <2>4, <1>1 DEF AlertIsUnsent, Freed
  <2> QED BY <1>3, <1>4, <1>5, <2>3, <2>5 DEF ReducerInv
<1>7. CASE ~SameAlert(p)
  <2>1. ext'.alert = ext.alert /\ ext'.sending = ext.sending /\ Kept(ext, ext') /\ ext'.settled = ext.settled
    BY <1>7 DEF Freed
  <2>2. AlertIsNewest'
    BY <2>1 DEF ReducerInv, AlertIsNewest, Alerted, Kept, Quiet
  <2>3. AlertIsUnsent'
    BY <2>1, <1>1 DEF ReducerInv, AlertIsUnsent, Alerted, Quiet
  <2> QED BY <1>3, <1>4, <1>5, <2>2, <2>3 DEF ReducerInv
<1> QED BY <1>6, <1>7

\* The answer to a delivery of the pending alert finds the flow as it was.
LEMMA PendingIsUpToDate ==
    ASSUME ReducerInv, ext # None, NEW p \in pushes, SameAlert(p)
    PROVE  SameBranch(p) /\ SameFlow(p) /\ ext.cursor = p.cursor
           /\ (p.answer \notin {None, 0} => p.answer = Len(bridge.events))
BY DEF ReducerInv, AlertIsNewest, Alerted, SameAlert, SameBranch, SameFlow

\* The answer to a delivery, early or late, keeps it.
LEMMA DeliveryAnswered ==
    ASSUME PiTypeInv, PushInv, ReducerInv, NEW p \in pushes, PushAnswered(p)
    PROVE  ReducerInv'
<1>t. TypeOK /\ OpenInv
  BY DEF PiTypeInv
<1>n. \A x \in States : x # None
  BY NoneAssumption
<1>1. /\ pushes' = pushes \ {p} /\ bridge' = bridge /\ pi' = pi /\ token' = token /\ n' = n /\ p.answer # None
  BY DEF PushAnswered
<1>s. \A r : Of(r)' = Of(r)
  BY <1>1 DEF Of
<1>q. Quiet
  BY <1>1, <1>t DEF Quiet, TypeOK
<1>2. CASE ext = None
  <2>1. ext' = None /\ status' = status
    BY <1>2 DEF PushAnswered, PushSucceeds, PushFails
  <2> QED BY <2>1, <1>1, <1>2, <1>q, ReducerKept
<1>3. CASE ext # None /\ p.answer = 0
  <2>1. Freed(p) /\ ext' # None /\ status' = status
    BY <1>3, <1>n, <1>t, FailureDoes DEF PushAnswered, Freed
  <2> QED BY <2>1, <1>1, <1>3, <1>q, DeliveryFails
<1>4. CASE ext # None /\ p.answer # 0
  <2>1. Taken(p)
    BY <1>1, <1>4, <1>t, SuccessDoes DEF PushAnswered
  <2>2. CASE Freed(p) /\ status' = status /\ (~SameBranch(p) \/ ~SameFlow(p) \/ InputSince(p))
    <3>1. ~SameAlert(p)
      <4>1. \A x \in Nat : ~(x > x)
        OBVIOUS
      <4>2. ext.cursor \in Nat
        BY <1>4, <1>t, StateFields DEF TypeOK
      <4> QED BY <4>1, <4>2, <2>2, <1>4, PendingIsUpToDate DEF InputSince
    <3>2. ext' # None
      BY <2>2, <1>n DEF Freed
    <3> QED BY <3>1, <3>2, <2>2, <1>1, <1>4, <1>q, DeliveryFails
  <2>3. CASE SameFlow(p) /\ Delivered /\ status' = "terminal"
    <3>1. ext.alert # None /\ ext.alert.run = p.alert.run
      BY <2>3 DEF SameFlow, SameAlert
    <3>2. pi.phase \in {"idle", "starting"} /\ ext.alert.run = n.runs
      BY <3>1, <1>4 DEF ReducerInv, AlertIsLast, Alerted
    <3>3. Of(n.runs) # {}
      BY <3>1, <3>2, <1>1, <1>4 DEF PushInv, AnswersAreStored
    <3>4. RunningIsUnsent' /\ StatusIsTrue'
      BY <3>2, <3>3, <2>3, <1>1, <1>s DEF RunningIsUnsent, StatusIsTrue
    <3>5. ext'.alert = None /\ ext'.result = ext.result /\ Kept(ext, ext') /\ ext'.cur = ext.cur
      BY <2>3 DEF Delivered
    <3>6. ResultIsLast'
      BY <3>2, <3>5, <1>1, <1>4 DEF ReducerInv, ResultIsLast
    <3>7. CursorsAgree'
      BY <3>5, <1>1, <1>4 DEF ReducerInv, CursorsAgree, Kept
    <3> QED BY <3>4, <3>5, <3>6, <3>7 DEF ReducerInv, AlertIsLast, AlertIsNewest, AlertIsUnsent, Alerted
  <2> QED BY <2>1, <2>2, <2>3 DEF Taken
<1> QED BY <1>2, <1>3, <1>4

\* The loss of an answer keeps it, and brings no delivery and no Event.
LEMMA DeliveryLost ==
    ASSUME PiTypeInv, PushInv, ReducerInv, NEW p \in pushes, PushLost(p)
    PROVE  ReducerInv' /\ Quiet
<1>t. TypeOK
  BY DEF PiTypeInv
<1>1. /\ pushes' = pushes \ {p} /\ pi' = pi /\ token' = token /\ status' = status
      /\ n'.runs = n.runs /\ n'.inputs = n.inputs
      /\ PushFails(p)
  BY <1>t, CountedIsTyped DEF PushLost, Fault
<1>2. /\ bridge'.events = bridge.events /\ bridge.lost \subseteq bridge'.lost /\ bridge'.order = bridge.order
      /\ p.answer \notin {None, 0} => p.answer \in bridge'.lost
  BY <1>t DEF PushLost, TypeOK, Bridges
<1>3. Quiet
  BY <1>1, <1>2, <1>t DEF Quiet, TypeOK
<1>4. CASE ext = None
  <2>1. ext' = ext
    BY <1>1, <1>4 DEF PushFails
  <2> QED BY <2>1, <1>1, <1>3, ReducerKept
<1>5. CASE ext # None
  <2>1. Freed(p) /\ ext' # None
    BY <1>1, <1>5, <1>t, FailureDoes, NoneAssumption DEF Freed
  <2> QED BY <2>1, <1>1, <1>2, <1>3, <1>5, DeliveryFails
<1> QED BY <1>4, <1>5

\* Every step keeps what is known of the reducer.
LEMMA ReducerInductive ==
    ASSUME PiTypeInv, TypeOK', PushInv, ReducerInv, [Next]_vars
    PROVE  ReducerInv'
<1>t. TypeOK /\ OpenInv /\ OrdersInv
  BY DEF PiTypeInv
<1>n. \A x \in States : x # None
  BY NoneAssumption
<1>p. pi = [phase |-> pi.phase, outcome |-> pi.outcome]
  BY <1>t DEF TypeOK
<1>o. None \notin {"error", "answer"}
  BY NoneAssumption
<1>s. bridge' = bridge => \A r : Of(r)' = Of(r)
  BY DEF Of
<1>u. ASSUME bridge' = bridge, pushes' = pushes, n'.runs = n.runs PROVE Unsent(n.runs) => Unsent(n.runs)'
  BY <1>s, <1>u DEF Unsent
<1>q. ASSUME pushes' = pushes, bridge' = bridge, n'.runs = n.runs, n'.inputs = n.inputs, token' = token
      PROVE  Quiet
  BY <1>t, <1>q DEF Quiet, TypeOK
<1>1. CASE SessionStart
  <2>1. Opened /\ pi'.phase = "idle" /\ pi'.outcome = None
    BY <1>1, OpenDoes DEF SessionStart
  <2>2. CursorsAgree'
    BY <1>1, <1>t, NewTokenAgrees DEF SessionStart
  <2> QED BY <2>1, <2>2, <1>o, NothingPending DEF Opened, RunningIsUnsent, StatusIsTrue
<1>2. CASE SessionShutdown
  <2>1. pi'.phase = "none" /\ ext' = None
    BY <1>2 DEF SessionShutdown
  <2> QED BY <2>1, NothingPending DEF RunningIsUnsent, StatusIsTrue, CursorsAgree
<1>3. CASE Input
  <2>1. Typed /\ ext # None /\ ext \in States
    BY <1>3, <1>t, InputDoes DEF Input, OpenInv, TypeOK
  <2>2. bridge' = bridge /\ pushes' = pushes /\ n'.runs = n.runs /\ n'.inputs = n.inputs + 1
        /\ token' = token /\ status' = status
    BY <1>3, <1>t DEF Input, Counted, TypeOK
  <2>3. ext' # None
    BY <2>1, <1>n DEF Typed
  <2>4. CursorsAgree'
    <3>1. ext.cursor \in Nat /\ n.inputs \in Nat /\ \A p \in pushes : p.inputs \in Nat /\ p.cursor \in Nat
      BY <2>1, <1>t, StateFields DEF TypeOK, Pushes
    <3>2. ext'.cursor = ext.cursor + 1
      BY <2>1 DEF Typed
    <3> SUFFICES ASSUME NEW p \in pushes', token' = p.token PROVE ext'.cursor + p.inputs = p.cursor + n'.inputs
      BY DEF CursorsAgree
    <3>3. ext.cursor + p.inputs = p.cursor + n.inputs /\ p \in pushes
      BY <2>1, <2>2 DEF ReducerInv, CursorsAgree
    <3> QED BY <3>1, <3>2, <3>3, <2>2
  <2>5. pi'.phase = pi.phase /\ (pi'.outcome = pi.outcome \/ pi'.outcome = None)
    BY <2>1, <1>p DEF Typed
  <2>6. RunningIsUnsent'
    BY <2>2, <2>5, <1>u DEF ReducerInv, RunningIsUnsent
  <2>7. StatusIsTrue'
    BY <2>2, <2>5, <1>o, <1>s DEF ReducerInv, StatusIsTrue
  <2>8. CASE ext'.alert = None /\ ext'.result = None
    BY <2>4, <2>6, <2>7, <2>8, NothingPending
  <2>9. CASE pi.phase \in {"running", "ended"} /\ pi' = pi /\ ext'.alert = ext.alert
             /\ ext'.result = ext.result /\ ext'.cur = ext.cur
    <3>1. ext.alert = None
      BY <2>1, <2>9 DEF ReducerInv, AlertIsLast, Alerted
    <3>2. ResultIsLast'
      BY <2>1, <2>2, <2>9, <1>u DEF ReducerInv, ResultIsLast
    <3> QED BY <2>4, <2>6, <2>7, <2>9, <3>1, <3>2
            DEF ReducerInv, AlertIsLast, AlertIsNewest, AlertIsUnsent, Alerted
  <2> QED BY <2>1, <2>8, <2>9 DEF Typed
<1>4. CASE PiBusy
  <2>1. /\ bridge' = bridge /\ pushes' = pushes /\ n'.runs = n.runs /\ n'.inputs = n.inputs
        /\ token' = token /\ status' = status /\ ext' = ext
        /\ pi.phase \in {"idle", "starting"} /\ pi'.phase \in {"idle", "starting"} /\ pi'.outcome = pi.outcome
    BY <1>4, <1>p, <1>t, CountedIsTyped DEF PiBusy
  <2>2. RunningIsUnsent' /\ ResultIsLast' /\ AlertIsLast'
    BY <2>1 DEF ReducerInv, RunningIsUnsent, ResultIsLast, AlertIsLast, Alerted
  <2>3. AlertIsNewest' /\ CursorsAgree'
    BY <2>1 DEF ReducerInv, AlertIsNewest, CursorsAgree, Alerted
  <2>4. AlertIsUnsent' /\ StatusIsTrue'
    BY <2>1, <1>s DEF ReducerInv, AlertIsUnsent, StatusIsTrue, Alerted
  <2> QED BY <2>2, <2>3, <2>4 DEF ReducerInv
<1>5. CASE AgentStart
  <2>1. Started /\ ext # None /\ ext' # None
    BY <1>5, <1>n, <1>t, StartDoes DEF AgentStart, OpenInv, Started
  <2>2. /\ bridge' = bridge /\ pushes' = pushes /\ n'.runs = n.runs + 1 /\ n'.inputs = n.inputs
        /\ token' = token /\ status' = "working" /\ pi'.phase = "running"
    BY <1>5, <1>t DEF AgentStart, TypeOK
  <2>3. Unsent(n.runs + 1)
    <3>1. \A i \in DOMAIN bridge.events : bridge.events[i].run \in Nat
      BY <1>t, EventsAreTyped
    <3>2. n.runs \in Nat /\ \A p \in pushes : p.alert.run \in Nat
      BY <1>t DEF TypeOK, Pushes, Alerts
    <3>3. \A i \in DOMAIN bridge.events : bridge.events[i].run # n.runs + 1
      BY <3>1, <3>2 DEF PushInv, EventsArePast
    <3>4. \A p \in pushes : p.alert.run # n.runs + 1
      BY <3>2 DEF PushInv, PushesArePast
    <3> QED BY <3>3, <3>4 DEF Unsent, Of
  <2>4. RunningIsUnsent'
    BY <2>2, <2>3, <1>s DEF Unsent, RunningIsUnsent
  <2>5. CursorsAgree'
    BY <2>1, <2>2 DEF ReducerInv, CursorsAgree, Started
  <2>6. StatusIsTrue'
    BY <2>2 DEF StatusIsTrue
  <2> QED BY <2>1, <2>4, <2>5, <2>6, NothingPending DEF Started
<1>6. CASE AgentEnd
  <2>1. Ended /\ ext # None /\ ext' # None /\ pi.phase = "running"
    BY <1>6, <1>n, <1>t, EndDoes DEF AgentEnd, OpenInv, Ended
  <2>2. bridge' = bridge /\ pushes' = pushes /\ n' = n /\ token' = token
    BY <1>6 DEF AgentEnd
  <2>3. ext.alert = None /\ ext.result = None /\ Unsent(n.runs) /\ status = "working"
    BY <2>1 DEF ReducerInv, AlertIsLast, Alerted, ResultIsLast, RunningIsUnsent, StatusIsTrue
  <2>4. ResultIsLast'
    BY <2>1, <2>2, <2>3, <1>u DEF Ended, ResultIsLast
  <2>5. RunningIsUnsent' /\ StatusIsTrue'
    BY <2>1, <2>3 DEF Ended, RunningIsUnsent, StatusIsTrue
  <2>6. CursorsAgree'
    BY <2>1, <2>2 DEF Ended, ReducerInv, CursorsAgree
  <2> QED BY <2>1, <2>3, <2>4, <2>5, <2>6
          DEF Ended, ReducerInv, AlertIsLast, AlertIsNewest, AlertIsUnsent, Alerted
<1>7. CASE AgentSettled
  <2>1. Settled /\ ext # None /\ ext' # None
    BY <1>7, <1>n, <1>t, SettleDoes DEF AgentSettled, OpenInv, Settled
  <2>2. /\ bridge' = bridge /\ pushes' = pushes /\ n' = n /\ token' = token
        /\ pi'.phase = "idle" /\ pi'.outcome = pi.outcome /\ pi.phase \in {"running", "ended", "idle"}
    BY <1>7, <1>p DEF AgentSettled
  <2>3. RunningIsUnsent'
    BY <2>2 DEF RunningIsUnsent
  <2>4. CursorsAgree'
    BY <2>1, <2>2 DEF Settled, Kept, ReducerInv, CursorsAgree
  <2>5. StatusIsTrue'
    <3>1. status' = status \/ (status' = "idle" /\ pi.outcome = "aborted")
      BY <2>1 DEF Settled, ReducerInv, ResultIsLast
    <3> QED BY <3>1, <2>2, <1>s DEF ReducerInv, StatusIsTrue
  <2>6. CASE ext' = ext /\ (ext.alert # None \/ ext.cur = 0)
    <3>1. ext.result = None
      BY <2>1, <2>6 DEF ReducerInv, AlertIsLast, Alerted, ResultIsLast
    <3>2. ResultIsLast'
      BY <2>6, <3>1 DEF ResultIsLast
    <3>3. AlertIsLast'
      BY <2>2, <2>6 DEF ReducerInv, AlertIsLast, Alerted
    <3>4. AlertIsNewest' /\ AlertIsUnsent'
      BY <2>2, <2>6, <1>s DEF ReducerInv, AlertIsNewest, AlertIsUnsent, Alerted
    <3> QED BY <2>3, <2>4, <2>5, <3>2, <3>3, <3>4 DEF ReducerInv
  <2>7. CASE ext'.alert = None /\ ext'.result = None
    BY <2>3, <2>4, <2>5, <2>7, NothingPending
  <2>8. CASE /\ ext.alert = None /\ ext.result # None /\ ext'.result = None
             /\ ext'.alert.run = n.runs /\ ext'.alert.outcome = ext.result.outcome
    <3>1. Unsent(n.runs) /\ ext.result.outcome = pi.outcome
      BY <2>1, <2>8 DEF ReducerInv, ResultIsLast
    <3>2. Unsent(n.runs)'
      BY <3>1, <2>2, <1>u
    <3>3. ResultIsLast' /\ AlertIsLast'
      BY <2>2, <2>8, <3>1 DEF ResultIsLast, AlertIsLast, Alerted
    <3>4. AlertIsNewest' /\ AlertIsUnsent'
      BY <2>2, <2>8, <3>2 DEF Unsent, AlertIsNewest, AlertIsUnsent, Alerted
    <3> QED BY <2>3, <2>4, <2>5, <3>3, <3>4 DEF ReducerInv
  <2> QED BY <2>1, <2>6, <2>7, <2>8 DEF Settled
<1>8. CASE SessionTree
  <2>1. Switched
    BY <1>8, <1>t, SwitchDoes DEF SessionTree, OpenInv
  <2>2. /\ bridge' = bridge /\ pushes' = pushes /\ n'.runs = n.runs /\ token' = token + 1 /\ status' = status
        /\ pi'.phase = pi.phase /\ pi'.outcome = None
    BY <1>8, <1>p, <1>t, CountedIsTyped DEF SessionTree
  <2>3. CursorsAgree'
    BY <2>2, <1>t, NewTokenAgrees
  <2>4. RunningIsUnsent' /\ StatusIsTrue'
    BY <2>2, <1>o, <1>u DEF ReducerInv, RunningIsUnsent, StatusIsTrue
  <2> QED BY <2>1, <2>3, <2>4, NothingPending DEF Switched
<1>14. CASE RegistrationRetry \/ Heartbeat \/ UNCHANGED vars
  <2>1. pi' = pi /\ ext' = ext /\ token' = token /\ status' = status /\ pushes' = pushes /\ bridge' = bridge /\ n' = n
    BY <1>14 DEF RegistrationRetry, Heartbeat, vars
  <2> QED BY <2>1, <1>q, ReducerKept
<1>15. CASE BridgeForgets
  <2>1. /\ pi' = pi /\ ext' = ext /\ token' = token /\ status' = status /\ pushes' = pushes
        /\ n'.runs = n.runs /\ n'.inputs = n.inputs
        /\ bridge'.events = bridge.events /\ bridge'.lost = bridge.lost /\ bridge'.order = bridge.order
    BY <1>15, <1>t, CountedIsTyped DEF BridgeForgets, Fault, TypeOK, Bridges
  <2>2. Quiet
    BY <2>1, <1>t DEF Quiet, TypeOK
  <2> QED BY <2>1, <2>2, ReducerKept
<1>13. CASE Mutation \/ MutationLost
  <2>1. Mutated(Head(client.queue))
    BY <1>13, <1>t, MutationDoes
  <2>2. /\ pi' = pi /\ token' = token /\ status' = status /\ pushes' = pushes
        /\ n'.runs = n.runs /\ n'.inputs = n.inputs
    BY <1>13, <1>t, CountedIsTyped DEF Mutation, MutationLost, Fault
  <2>3. Quiet
    BY <2>1, <2>2, <1>t DEF Quiet, Mutated, TypeOK
  <2>4. Heard
    BY <2>1 DEF Mutated
  <2> QED BY <2>2, <2>3, <2>4, <1>n, ReducerKept DEF Heard
<1> QED BY <1>1, <1>2, <1>3, <1>4, <1>5, <1>6, <1>7, <1>8, <1>13, <1>14, <1>15,
           DeliveryBegins, DeliveryArrives, DeliveryAnswered, DeliveryLost DEF Next

\* Only the end of a quiet window and an arrival touch the deliveries and the Events.
LEMMA OtherStepsAreQuiet ==
    ASSUME PiTypeInv, [Next]_vars, ~QuietWindowEnds, \A p \in pushes : ~PushArrives(p)
    PROVE  Quiet
<1>t. TypeOK
  BY DEF PiTypeInv
<1>m. /\ n.runs <= n.runs /\ n.inputs <= n.inputs /\ token <= token
      /\ n.runs <= n.runs + 1 /\ n.inputs <= n.inputs + 1 /\ token <= token + 1
  BY <1>t DEF TypeOK
<1>n. Counted(n).runs = n.runs /\ Counted(n).inputs = n.inputs
  BY <1>t, CountedIsTyped
<1>1. SessionStart \/ SessionShutdown \/ SessionTree \/ PiBusy => Quiet
  BY <1>m, <1>n DEF SessionStart, SessionShutdown, SessionTree, PiBusy, Quiet
<1>2. Input => Quiet
  <2> SUFFICES ASSUME Input PROVE Quiet
    OBVIOUS
  <2>1. n'.runs = n.runs /\ n'.inputs = n.inputs + 1
    BY <1>t DEF Input, Counted, TypeOK
  <2> QED BY <2>1, <1>m DEF Input, Quiet
<1>3. AgentStart => Quiet
  <2> SUFFICES ASSUME AgentStart PROVE Quiet
    OBVIOUS
  <2>1. n'.runs = n.runs + 1 /\ n'.inputs = n.inputs
    BY <1>t DEF AgentStart, TypeOK
  <2> QED BY <2>1, <1>m DEF AgentStart, Quiet
<1>4. AgentEnd \/ AgentSettled \/ RegistrationRetry \/ Heartbeat \/ UNCHANGED vars => Quiet
  BY <1>m DEF AgentEnd, AgentSettled, RegistrationRetry, Heartbeat, vars, Quiet
<1>5. Mutation \/ MutationLost => Quiet
  <2> SUFFICES ASSUME Mutation \/ MutationLost PROVE Quiet
    OBVIOUS
  <2>1. Mutated(Head(client.queue))
    BY <1>t, MutationDoes
  <2>2. bridge'.events = bridge.events /\ bridge'.lost = bridge.lost /\ bridge'.order = bridge.order
    BY <2>1 DEF Mutated
  <2> QED BY <2>2, <1>m, <1>n DEF Mutation, MutationLost, Fault, Quiet
<1>6. BridgeForgets => Quiet
  <2> SUFFICES ASSUME BridgeForgets PROVE Quiet
    OBVIOUS
  <2>1. bridge'.events = bridge.events /\ bridge'.lost = bridge.lost /\ bridge'.order = bridge.order
    BY <1>t DEF BridgeForgets, TypeOK, Bridges
  <2> QED BY <2>1, <1>m, <1>n DEF BridgeForgets, Fault, Quiet
<1>7. \A p \in pushes : PushAnswered(p) => Quiet
  BY <1>m DEF PushAnswered, Quiet
<1>8. \A p \in pushes : PushLost(p) => Quiet
  <2> SUFFICES ASSUME NEW p \in pushes, PushLost(p) PROVE Quiet
    OBVIOUS
  <2>1. bridge'.events = bridge.events /\ bridge.lost \subseteq bridge'.lost /\ bridge'.order = bridge.order
    BY <1>t DEF PushLost, TypeOK, Bridges
  <2> QED BY <2>1, <1>m, <1>n DEF PushLost, Fault, Quiet
<1> QED BY <1>1, <1>2, <1>3, <1>4, <1>5, <1>6, <1>7, <1>8 DEF Next

\* Every step keeps what is known of the deliveries.
LEMMA PushInductive ==
    ASSUME PiTypeInv, TypeOK', PushInv, ReducerInv, [Next]_vars
    PROVE  PushInv'
<1>1. CASE QuietWindowEnds
  BY <1>1, DeliveryBegins
<1>2. CASE \E p \in pushes : PushArrives(p)
  BY <1>2, DeliveryArrives
<1>3. CASE ~QuietWindowEnds /\ \A p \in pushes : ~PushArrives(p)
  BY <1>3, OtherStepsAreQuiet, QuietKeepsPushes DEF PiTypeInv
<1> QED BY <1>1, <1>2, <1>3

-----------------------------------------------------------------------------
(* What is reported as handled. *)

\* The Bridge has the Event, and an input came after it.
Seen(e) == e \in DOMAIN bridge.events /\ bridge.events[e].inputs < n.inputs

\* What the next input acknowledges is at the Bridge.
CandidateIsStored == ext # None => (ext.cand # None => ext.cand.event \in DOMAIN bridge.events)
\* What is queued to be reported as handled was seen, and what is reported was.
ReportsAreSeen ==
    \A i \in DOMAIN client.queue : client.queue[i].op = "handle" => Seen(client.queue[i].arg)
HandledAreSeen == \A e \in bridge.handled : Seen(e)
\* What is known of the reports.
HandledInv == CandidateIsStored /\ ReportsAreSeen /\ HandledAreSeen

\* The Bridge's Events stay, and inputs are only added.
LEMMA SeenStays ==
    ASSUME PiTypeInv, TypeOK', [Next]_vars
    PROVE  /\ \A e \in DOMAIN bridge.events : e \in DOMAIN bridge'.events
           /\ \A e : Seen(e) => Seen(e)'
<1>t. TypeOK
  BY DEF PiTypeInv
<1>1. \A e \in DOMAIN bridge.events : bridge.events[e].inputs \in Nat
  BY <1>t, EventsAreTyped
<1>2. n.inputs \in Nat /\ n'.inputs \in Nat
  BY <1>t DEF TypeOK
<1>3. CASE QuietWindowEnds
  BY <1>3 DEF QuietWindowEnds, Seen
<1>4. CASE \E p \in pushes : PushArrives(p)
  <2>1. PICK p \in pushes : PushArrives(p)
    BY <1>4
  <2>2. PICK a : Accepted(p, a)
    BY <2>1, <1>t, ArrivalAccepts
  <2>3. n' = n
    BY <2>1 DEF PushArrives
  <2>4. \A e \in DOMAIN bridge.events : e \in DOMAIN bridge'.events /\ bridge'.events[e] = bridge.events[e]
    BY <2>2 DEF Accepted
  <2> QED BY <2>3, <2>4 DEF Seen
<1>5. CASE Quiet
  BY <1>1, <1>2, <1>5 DEF Quiet, Seen
<1> QED BY <1>3, <1>4, <1>5, OtherStepsAreQuiet

\* A report is queued of what was seen; nothing else is reported.
LEMMA ReportsGrow ==
    ASSUME TypeOK, HandledInv, \A e : Seen(e) => Seen(e)',
           NEW c \in Clients, c.queue = client.queue, NEW item \in Items, client' = Enqueue(c, item),
           item.op = "handle" => Seen(item.arg)'
    PROVE  ReportsAreSeen'
<1>1. client'.queue = Append(client.queue, item) /\ client.queue \in Seq(Items)
  BY EnqueueDoes, ClientFields DEF TypeOK
<1>2. \A i \in DOMAIN client'.queue :
        (i \in DOMAIN client.queue /\ client'.queue[i] = client.queue[i]) \/ client'.queue[i] = item
  BY <1>1, AppendElements
<1> QED BY <1>2 DEF HandledInv, ReportsAreSeen

\* Every step keeps what is known of the reports.
LEMMA HandledInductive ==
    ASSUME PiTypeInv, TypeOK', PushInv, ReducerInv, HandledInv, [Next]_vars
    PROVE  HandledInv'
<1>t. TypeOK /\ OpenInv
  BY DEF PiTypeInv
<1>n. \A x \in States : x # None
  BY NoneAssumption
<1>c. client \in Clients /\ client.gen \in Nat
  BY <1>t, ClientFields DEF TypeOK
<1>s. /\ \A e \in DOMAIN bridge.events : e \in DOMAIN bridge'.events
      /\ \A e : Seen(e) => Seen(e)'
  BY SeenStays
<1>h. bridge'.handled = bridge.handled => HandledAreSeen'
  BY <1>s DEF HandledInv, HandledAreSeen
<1>k. client' = client => ReportsAreSeen'
  BY <1>s DEF HandledInv, ReportsAreSeen
<1>d. (ext' # None => (ext'.cand # None =>
         ext # None /\ (ext # None => ext.cand # None /\ ext'.cand.event = ext.cand.event))) => CandidateIsStored'
  BY <1>s DEF HandledInv, CandidateIsStored
<1>1. CASE SessionStart
  <2> DEFINE c == [client EXCEPT !.gen = @ + 1, !.reg = "queued"]
  <2>1. c \in Clients /\ c.queue = client.queue
    <3>1. client.gen + 1 \in Nat
      BY <1>c
    <3>2. [client EXCEPT !.gen = client.gen + 1] \in Clients
      BY <1>c, <3>1, ClientFields
    <3>3. c \in Clients
      BY <3>1, <3>2, ClientFields
    <3>4. c.queue = client.queue
      BY <1>c DEF Clients
    <3> QED BY <3>3, <3>4
  <2>2. client' = Enqueue(c, RegisterItem(client.gen + 1)) /\ bridge' = bridge
    BY <1>1 DEF SessionStart, registerSessionInBackground
  <2>3. RegisterItem(client.gen + 1) \in Items /\ RegisterItem(client.gen + 1).op # "handle"
    BY <1>c DEF RegisterItem, Items
  <2> HIDE DEF c
  <2>4. ReportsAreSeen'
    BY <2>1, <2>2, <2>3, <1>s, <1>t, ReportsGrow
  <2>5. CandidateIsStored'
    BY <1>1, OpenDoes DEF Opened, CandidateIsStored
  <2> QED BY <2>2, <2>4, <2>5, <1>h DEF HandledInv
<1>2. CASE SessionShutdown
  <2> DEFINE c == UnregisterLast(client)
  <2>1. c \in Clients /\ c = Enqueue(client, UnregisterItem)
    BY <1>c, EnqueueKeepsTypes, ItemsAreTyped DEF UnregisterLast
  <2>2. client' = [c EXCEPT !.gen = @ + 1, !.reg = "none"] /\ bridge' = bridge /\ ext' = None
    BY <1>2 DEF SessionShutdown
  <2> HIDE DEF c
  <2>3. client'.queue = c.queue
    BY <2>1, <2>2 DEF Clients
  <2>4. client'.queue = Append(client.queue, UnregisterItem) /\ client.queue \in Seq(Items)
    BY <2>1, <2>3, <1>c, EnqueueDoes, ClientFields
  <2>5. \A i \in DOMAIN client'.queue :
          (i \in DOMAIN client.queue /\ client'.queue[i] = client.queue[i]) \/ client'.queue[i] = UnregisterItem
    BY <2>4, AppendElements, ItemsAreTyped
  <2>6. UnregisterItem.op # "handle"
    BY DEF UnregisterItem
  <2>7. ReportsAreSeen'
    BY <2>5, <2>6, <1>s DEF HandledInv, ReportsAreSeen
  <2>8. CandidateIsStored'
    BY <2>2 DEF CandidateIsStored
  <2> QED BY <2>2, <2>7, <2>8, <1>h DEF HandledInv
<1>3. CASE Input
  <2>1. Typed /\ ext # None
    BY <1>3, <1>t, InputDoes DEF Input, OpenInv
  <2>2. bridge' = bridge /\ n'.inputs = n.inputs + 1 /\ n.inputs \in Nat
    BY <1>3, <1>t DEF Input, Counted, TypeOK
  <2>3. CandidateIsStored'
    BY <2>1, <1>d DEF Typed
  <2>4. CASE client' = client
    BY <2>2, <2>3, <2>4, <1>h, <1>k DEF HandledInv
  <2>5. CASE ext.cand # None /\ client' = Enqueue(client, HandleItem(ext.cand.event))
    <3>1. PICK e : e = ext.cand.event
      OBVIOUS
    <3>2. e \in DOMAIN bridge.events
      BY <2>1, <2>5, <3>1 DEF HandledInv, CandidateIsStored
    <3>3. bridge.events[e].inputs <= n.inputs /\ bridge.events[e].inputs \in Nat
      BY <3>2, <1>t, EventsAreTyped DEF PushInv, EventsArePast
    <3>4. Seen(e)'
      BY <3>2, <3>3, <2>2 DEF Seen
    <3>5. HandleItem(e) \in Items /\ HandleItem(e).arg = e
      BY <2>1, <2>5, <3>1, <1>t, StateFields, ItemsAreTyped DEF HandleItem, Candidates, TypeOK
    <3>6. ReportsAreSeen'
      BY <2>5, <3>1, <3>4, <3>5, <1>c, <1>s, <1>t, ReportsGrow
    <3> QED BY <2>2, <2>3, <3>6, <1>h DEF HandledInv
  <2> QED BY <2>1, <2>4, <2>5 DEF Typed
<1>4. CASE PiBusy \/ AgentStart \/ AgentEnd \/ AgentSettled \/ SessionTree \/ QuietWindowEnds
  <2>1. client' = client /\ bridge' = bridge
    BY <1>4 DEF PiBusy, AgentStart, AgentEnd, AgentSettled, SessionTree, QuietWindowEnds
  <2>2. ext # None /\ (ext' = ext \/ ext'.cand = ext.cand \/ ext'.cand = None)
    BY <1>4, <1>n, <1>t, StartDoes, EndDoes, SettleDoes, SwitchDoes, QuietDoes
       DEF PiBusy, AgentStart, AgentEnd, AgentSettled, SessionTree, Started, Ended, Settled, Switched, Quieted,
           OpenInv
  <2> QED BY <2>1, <2>2, <1>d, <1>h, <1>k DEF HandledInv
<1>5. CASE \E p \in pushes : PushArrives(p)
  <2>1. PICK p \in pushes : PushArrives(p)
    BY <1>5
  <2>2. bridge'.handled = bridge.handled
    BY <2>1, <1>t, ArrivalDoes DEF Arrived
  <2>3. client' = client /\ ext' = ext
    BY <2>1 DEF PushArrives
  <2> QED BY <2>2, <2>3, <1>d, <1>h, <1>k DEF HandledInv
<1>6. CASE \E p \in pushes : PushAnswered(p)
  <2>1. PICK p \in pushes : PushAnswered(p)
    BY <1>6
  <2>2. bridge' = bridge /\ n' = n /\ token' = token /\ p.answer # None
    BY <2>1 DEF PushAnswered
  <2>3. CASE ext = None
    <3>1. ext' = None /\ client' = client
      BY <2>1, <2>3 DEF PushAnswered, PushSucceeds, PushFails
    <3> QED BY <3>1, <2>2, <1>d, <1>h, <1>k DEF HandledInv
  <2>4. CASE ext # None /\ p.answer = 0
    <3>1. ext'.cand = ext.cand /\ client' = client
      BY <2>1, <2>4, <1>t, FailureDoes DEF PushAnswered
    <3> QED BY <3>1, <2>2, <2>4, <1>d, <1>h, <1>k DEF HandledInv
  <2>5. CASE ext # None /\ p.answer # 0
    <3>1. Taken(p)
      BY <2>1, <2>2, <2>5, <1>t, SuccessDoes DEF PushAnswered
    <3>2. p.answer \in DOMAIN bridge.events /\ bridge.events[p.answer].inputs = p.inputs
      BY <2>2, <2>5 DEF PushInv, AnswersAreStored, Of
    <3>3. CandidateIsStored'
      <4>1. CASE ext'.cand = ext.cand
        BY <4>1, <2>5, <1>d
      <4>2. CASE ext'.cand.event = p.answer
        BY <4>2, <3>2, <1>s DEF CandidateIsStored
      <4> QED BY <3>1, <4>1, <4>2 DEF Taken
    <3>4. CASE client' = client
      BY <2>2, <3>3, <3>4, <1>h, <1>k DEF HandledInv
    <3>5. CASE /\ SameBranch(p) /\ InputSince(p)
               /\ client' = Enqueue(client, HandleItem(p.answer)) /\ HandleItem(p.answer) \in Items
      <4>1. ext.cursor + p.inputs = p.cursor + n.inputs /\ ext.cursor > p.cursor
        BY <3>5, <2>5 DEF ReducerInv, CursorsAgree, SameBranch, InputSince
      <4>2. ext.cursor \in Nat /\ p.cursor \in Nat /\ p.inputs \in Nat /\ n.inputs \in Nat
        BY <2>5, <1>t, StateFields DEF TypeOK, Pushes
      <4>3. p.inputs < n.inputs
        BY <4>1, <4>2
      <4>4. Seen(p.answer)
        BY <3>2, <4>3 DEF Seen
      <4>5. Seen(p.answer)' /\ HandleItem(p.answer).arg = p.answer
        BY <4>4, <1>s DEF HandleItem
      <4>6. ReportsAreSeen'
        BY <3>5, <4>5, <1>c, <1>s, <1>t, ReportsGrow
      <4> QED BY <2>2, <3>3, <4>6, <1>h DEF HandledInv
    <3> QED BY <3>1, <3>4, <3>5 DEF Taken
  <2> QED BY <2>3, <2>4, <2>5
<1>7. CASE \E p \in pushes : PushLost(p)
  <2>1. PICK p \in pushes : PushLost(p)
    BY <1>7
  <2>2. bridge'.handled = bridge.handled /\ client' = client
    BY <2>1, <1>t DEF PushLost, TypeOK, Bridges
  <2>3. CASE ext = None
    <3>1. ext' = None
      BY <2>1, <2>3 DEF PushLost, PushFails
    <3> QED BY <3>1, <2>2, <1>d, <1>h, <1>k DEF HandledInv
  <2>4. CASE ext # None
    <3>1. ext'.cand = ext.cand
      BY <2>1, <2>4, <1>t, FailureDoes DEF PushLost
    <3> QED BY <3>1, <2>2, <2>4, <1>d, <1>h, <1>k DEF HandledInv
  <2> QED BY <2>3, <2>4
<1>8. CASE Mutation \/ MutationLost
  <2>1. PICK item : item = Head(client.queue)
    OBVIOUS
  <2>2. client.queue # <<>> /\ Mutated(item)
    BY <1>8, <2>1, <1>t, MutationDoes
  <2>3. /\ 1 \in DOMAIN client.queue /\ item = client.queue[1]
        /\ \A i \in DOMAIN client'.queue : i + 1 \in DOMAIN client.queue /\ client'.queue[i] = client.queue[i + 1]
    <3>1. client.queue \in Seq(Items) /\ client.queue # <<>> /\ client'.queue = Tail(client.queue)
      BY <2>2, <1>c, ClientFields DEF Mutated
    <3> QED BY <2>1, <3>1, TailElements
  <2>4. ReportsAreSeen'
    BY <2>3, <1>s DEF HandledInv, ReportsAreSeen
  <2>5. HandledAreSeen'
    <3>1. \/ bridge'.handled = bridge.handled
          \/ item.op = "handle" /\ bridge'.handled = bridge.handled \cup {item.arg}
      BY <2>2 DEF Mutated
    <3>2. item.op = "handle" => Seen(item.arg)
      BY <2>3 DEF HandledInv, ReportsAreSeen
    <3> QED BY <3>1, <3>2, <1>s DEF HandledInv, HandledAreSeen
  <2>6. CandidateIsStored'
    <3>1. Heard
      BY <2>2 DEF Mutated
    <3> QED BY <3>1, <1>d DEF Heard
  <2> QED BY <2>4, <2>5, <2>6 DEF HandledInv
<1>9. CASE RegistrationRetry
  <2> DEFINE c == [client EXCEPT !.reg = "queued"]
  <2>1. c \in Clients /\ c.queue = client.queue
    BY <1>c, ClientFields DEF Clients
  <2>2. client' = Enqueue(c, RegisterItem(client.gen)) /\ bridge' = bridge /\ ext' = ext
    BY <1>9 DEF RegistrationRetry
  <2>3. RegisterItem(client.gen) \in Items /\ RegisterItem(client.gen).op # "handle"
    BY <1>c DEF RegisterItem, Items
  <2> HIDE DEF c
  <2>4. ReportsAreSeen'
    BY <2>1, <2>2, <2>3, <1>s, <1>t, ReportsGrow
  <2> QED BY <2>2, <2>4, <1>d, <1>h DEF HandledInv
<1>10. CASE Heartbeat
  <2>1. client' = Enqueue(client, HeartbeatItem) /\ bridge' = bridge /\ ext' = ext
    BY <1>10 DEF Heartbeat
  <2>2. HeartbeatItem \in Items /\ HeartbeatItem.op # "handle"
    BY ItemsAreTyped DEF HeartbeatItem
  <2>3. ReportsAreSeen'
    BY <2>1, <2>2, <1>c, <1>s, <1>t, ReportsGrow
  <2> QED BY <2>1, <2>3, <1>d, <1>h DEF HandledInv
<1>11. CASE BridgeForgets \/ UNCHANGED vars
  <2>1. client' = client /\ bridge'.handled = bridge.handled /\ ext' = ext
    BY <1>11, <1>t DEF BridgeForgets, vars, TypeOK, Bridges
  <2> QED BY <2>1, <1>d, <1>h, <1>k DEF HandledInv
<1> QED BY <1>1, <1>2, <1>3, <1>4, <1>5, <1>6, <1>7, <1>8, <1>9, <1>10, <1>11 DEF Next

-----------------------------------------------------------------------------
(* The theorems. *)

\* The invariant.
PiInv == PiTypeInv /\ ClientInv /\ PushInv /\ ReducerInv /\ HandledInv

\* The invariant holds of every state of the extension, its client, the requests under way
\* and what the Bridge was told.
THEOREM PiInvariance == Spec => []PiInv
<1>1. Init => PiInv
  <2> SUFFICES ASSUME Init PROVE PiInv
    OBVIOUS
  <2>0. <<>> \in Seq(Items) /\ <<>> \in Seq([run : Nat, inputs : Nat])
        /\ DOMAIN bridge.events = {} /\ DOMAIN client.queue = {}
    BY EmptySeq DEF Init
  <2>1. client \in Clients /\ bridge \in Bridges
    BY <2>0 DEF Init, Clients, Bridges
  <2>2. TypeOK /\ OpenInv
    BY <2>1, PiBounds DEF Init, TypeOK, OpenInv
  <2>3. OrdersInv
    BY DEF Init, OrdersInv
  <2>4. ClientInv
    BY <2>0 DEF Init, ClientInv, LeaseIsKnown, QueueIsCurrent, ClosedIsQueued
  <2>5. PushInv
    BY <2>0 DEF Init, PushInv, EventsArePast, PushesArePast, AnswersAreStored, OthersAreLost, OnePushPerRun,
           RepeatedAfterLoss
  <2>6. ReducerInv
    BY DEF Init, ReducerInv, RunningIsUnsent, ResultIsLast, AlertIsLast, AlertIsNewest, AlertIsUnsent, Alerted,
           CursorsAgree, StatusIsTrue
  <2>7. HandledInv
    BY <2>0 DEF Init, HandledInv, CandidateIsStored, ReportsAreSeen, HandledAreSeen
  <2> QED BY <2>2, <2>3, <2>4, <2>5, <2>6, <2>7 DEF PiInv, PiTypeInv
<1>2. PiInv /\ [Next]_vars => PiInv'
  <2> SUFFICES ASSUME PiInv, [Next]_vars PROVE PiInv'
    OBVIOUS
  <2>1. PiTypeInv' /\ TypeOK'
    BY PiTypeInductive, OpenInductive, OrdersInductive DEF PiInv, PiTypeInv
  <2> QED BY <2>1, ClientInductive, PushInductive, ReducerInductive, HandledInductive DEF PiInv
<1> QED BY <1>1, <1>2, PTL DEF Spec

\* Every variable has its shape: the reducer's state, the requests and the client's queue
\* (index.ts:65-83, adapter.ts:66-75).
THEOREM PiTypeCorrect == Spec => []TypeOK
<1>1. PiInv => TypeOK
  BY DEF PiInv, PiTypeInv
<1> QED BY <1>1, PiInvariance, PTL

\* What the Bridge is told of the agent's rest, of the user's attention and of its runs is so,
\* whatever was lost, reordered or came in between (index.ts:210-306, 598-627).
THEOREM PiReportsAreBacked == Spec => []ReportsAreBacked
<1>1. PiInv => ReportsAreBacked
  <2> SUFFICES ASSUME PiInv PROVE ReportsAreBacked
    OBVIOUS
  <2>1. StatusIsBacked
    BY DEF PiInv, ReducerInv, StatusIsTrue, Of, StatusIsBacked
  <2>2. HandledWasSeen
    BY DEF PiInv, HandledInv, HandledAreSeen, Seen, HandledWasSeen
  <2>3. RepeatedAfterLoss
    BY DEF PiInv, PushInv
  <2> QED BY <2>1, <2>2, <2>3 DEF ReportsAreBacked
<1> QED BY <1>1, PiInvariance, PTL

\* A session that Pi has closed is not left registered (adapter.ts:114-128).
THEOREM PiClosedIsReleased == Spec => []ClosedIsReleased
<1>1. PiInv => ClosedIsReleased
  BY DEF PiInv, ClientInv, ClosedIsQueued, ClosedIsReleased
<1> QED BY <1>1, PiInvariance, PTL

\* Only the end of a quiet window begins a delivery.
LEMMA OnlyQuietBegins ==
    ASSUME PiInv, Next, NEW p \in pushes', p.answer = None, p \notin pushes
    PROVE  QuietWindowEnds
<1>t. TypeOK
  BY DEF PiInv, PiTypeInv
<1>1. ASSUME NEW q \in pushes, PushArrives(q) PROVE FALSE
  <2>1. PICK a : Accepted(q, a)
    BY <1>1, <1>t, ArrivalAccepts
  <2>2. a.answer # None /\ pushes' = (pushes \ {q}) \cup {a}
    BY <2>1, NoneAssumption DEF Accepted
  <2> QED BY <2>2
<1>2. CASE Quiet
  BY <1>2 DEF Quiet
<1> QED BY <1>1, <1>2, OtherStepsAreQuiet DEF PiInv

\* The Event of each run is delivered, taken up and handled in its turn (index.ts:210-218,
\* 265-288, 332-352).
THEOREM PiDeliveriesAreInOrder == Spec => DeliveriesAreInOrder
<1> DEFINE Current == \A p \in pushes' : (p.answer = None /\ p \notin pushes) =>
                         /\ pi.phase = "idle"
                         /\ p.alert.run = n.runs /\ p.alert.outcome = pi.outcome
           Newest ==
               (/\ ext # None /\ (ext # None => ext.cand # None)
                /\ ext' # None /\ (ext' # None => ext'.cand # None)) =>
                   \/ ext'.cand.event >= ext.cand.event
                   \/ bridge.events[ext'.cand.event].inputs < n.inputs
<1>1. ASSUME PiInv, Next PROVE Current
  <2> SUFFICES ASSUME NEW p \in pushes', p.answer = None, p \notin pushes
               PROVE  pi.phase = "idle" /\ p.alert.run = n.runs /\ p.alert.outcome = pi.outcome
    OBVIOUS
  <2>1. QuietWindowEnds
    BY <1>1, OnlyQuietBegins
  <2>2. Quieted /\ ext # None
    BY <2>1, <1>1, QuietDoes, NoneAssumption DEF PiInv, PiTypeInv
  <2>3. /\ p = Request(allocateProducerEventOrder) /\ pi.phase # "starting" /\ ext.alert # None
    BY <2>2 DEF Quieted
  <2>4. p.alert = ext.alert
    BY <2>3 DEF Request
  <2> QED BY <2>2, <2>3, <2>4, <1>1 DEF PiInv, ReducerInv, AlertIsLast, Alerted
<1>2. ASSUME PiInv, PiInv', Next PROVE Newest
  <2> SUFFICES ASSUME ext # None, ext.cand # None, ext' # None, ext'.cand # None
               PROVE  \/ ext'.cand.event >= ext.cand.event
                      \/ bridge.events[ext'.cand.event].inputs < n.inputs
    OBVIOUS
  <2>t. TypeOK /\ OpenInv /\ ext \in States
    BY <1>2 DEF PiInv, PiTypeInv, TypeOK
  <2>1. ext.cand.event \in DOMAIN bridge.events /\ ext.cand.event \in Nat
        /\ ext.cand.event <= Len(bridge.events)
    <3>1. ext.cand.event \in DOMAIN bridge.events
      BY <1>2 DEF PiInv, HandledInv, CandidateIsStored
    <3>2. Len(bridge.events) \in Nat /\ DOMAIN bridge.events = 1 .. Len(bridge.events)
      BY <2>t, BridgeFields, LenProperties DEF TypeOK
    <3> QED BY <3>1, <3>2
  <2>2. CASE ext'.cand.event = ext.cand.event
    BY <2>1, <2>2
  <2>3. CASE \E p \in pushes : PushAnswered(p) /\ p.answer # 0 /\ ext'.cand # ext.cand
    <3>1. PICK p \in pushes : PushAnswered(p) /\ p.answer # 0 /\ ext'.cand # ext.cand
      BY <2>3
    <3>2. p.answer # None
      BY <3>1 DEF PushAnswered
    <3>3. Taken(p)
      BY <3>1, <3>2, <2>t, SuccessDoes DEF PushAnswered
    <3>4. /\ SameBranch(p) /\ ext'.cand.event = p.answer /\ (InputSince(p) \/ SameFlow(p))
      BY <3>1, <3>3 DEF Taken
    <3>5. CASE InputSince(p)
      <4>1. ext.cursor + p.inputs = p.cursor + n.inputs /\ ext.cursor > p.cursor
        BY <3>4, <3>5, <1>2 DEF PiInv, ReducerInv, CursorsAgree, SameBranch, InputSince
      <4>2. ext.cursor \in Nat /\ p.cursor \in Nat /\ p.inputs \in Nat /\ n.inputs \in Nat
        BY <2>t, StateFields DEF TypeOK, Pushes
      <4>3. bridge.events[p.answer].inputs = p.inputs
        BY <3>1, <3>2, <1>2 DEF PiInv, PushInv, AnswersAreStored
      <4>4. bridge.events[p.answer].inputs < n.inputs
        BY <4>1, <4>2, <4>3
      <4> QED BY <4>4, <3>4
    <3>6. CASE SameFlow(p)
      <4>1. p.answer = Len(bridge.events)
        BY <3>1, <3>2, <3>6, <1>2, PendingIsUpToDate DEF SameFlow, PiInv
      <4> QED BY <4>1, <3>4, <2>1
    <3> QED BY <3>4, <3>5, <3>6
  <2>4. CASE SessionStart
    BY <2>4, OpenDoes DEF Opened
  <2>5. CASE SessionShutdown
    BY <2>5 DEF SessionShutdown
  <2>6. CASE Input
    BY <2>2, <2>6, <2>t, InputDoes DEF Typed
  <2>7. CASE PiBusy \/ AgentStart \/ AgentEnd \/ AgentSettled \/ SessionTree \/ QuietWindowEnds
    <3>1. ext' = ext \/ ext'.cand = ext.cand \/ ext'.cand = None
      BY <2>7, <2>t, StartDoes, EndDoes, SettleDoes, SwitchDoes, QuietDoes
         DEF PiBusy, AgentSettled, Started, Ended, Settled, Switched, Quieted
    <3> QED BY <3>1, <2>2
  <2>8. CASE \E p \in pushes : PushArrives(p)
    BY <2>2, <2>8 DEF PushArrives
  <2>9. CASE \E p \in pushes : (PushAnswered(p) /\ p.answer = 0) \/ PushLost(p)
    BY <2>2, <2>9, <2>t, FailureDoes DEF PushAnswered, PushLost
  <2>10. CASE Mutation \/ MutationLost
    <3>1. Heard
      BY <2>10, <2>t, MutationDoes DEF Mutated
    <3> QED BY <3>1, <2>2 DEF Heard
  <2>11. CASE RegistrationRetry \/ Heartbeat \/ BridgeForgets
    BY <2>2, <2>11 DEF RegistrationRetry, Heartbeat, BridgeForgets
  <2> QED BY <1>2, <2>2, <2>3, <2>4, <2>5, <2>6, <2>7, <2>8, <2>9, <2>10, <2>11 DEF Next
<1>3. PiInv /\ PiInv' /\ [Next]_vars => [Current]_vars /\ [Newest]_vars
  BY <1>1, <1>2
<1>4. Spec => EventsAreCurrent
  BY <1>3, PiInvariance, PTL DEF Spec, EventsAreCurrent
<1>5. Spec => NewestIsHandled
  BY <1>3, PiInvariance, PTL DEF Spec, NewestIsHandled
<1> QED BY <1>4, <1>5 DEF DeliveriesAreInOrder
==============================================================================
