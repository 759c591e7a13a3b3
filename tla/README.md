# A TLA+ model of the Ariava Bridge

Ariava lets a person follow and answer coding agents from a Watch.  The
**Bridge** (`apps/bridge`) is the daemon on the developer's machine.  It keeps
the state of the agent sessions, uploads end-to-end encrypted sessions and
Events to the **Relay**, pulls the commands that the Watch signed, hands them
to the agent through the **Agent Adapter** (a loopback HTTP server that the Pi
extension talks to), and sends one encrypted receipt for each command.  A CLI
installs the daemon as a user service, pairs Watches and resets the Host.

This directory models the parts whose correctness depends on order, failure
and time.  TLC checks the models on small instances; TLAPS proves, for every
value of the constants, the safety of the command pipeline and its receipts, of
the Agent Adapter, the daemon's loop, the link keyring, both locks and the
replacement of files.

## 1. Inventory

Paths are relative to `apps/bridge/src` unless they begin with another package.

| Component | State | Operations | What makes it correct | Module |
|---|---|---|---|---|
| **Command pipeline** `daemon/command-workflow.ts`, `state-store/command-transitions.ts`, `command-router.ts`, `e2e/command-execution.ts` | the durable journal `commandExecutions`; one worker | pull, prepare, claim, dispatch, settle, recover, prune | a command reaches the agent at most once; an uncertain one is never replayed and never guessed | `CommandJournal` |
| **Command receipts** `e2e/command-receipt*.ts` | the outbox inside the journal | build, block, recover, drain, acknowledge | one receipt per command, the same bytes at each retry; each is settled | `CommandJournal` |
| **Agent Adapter** `agent-adapter/*`, `drivers/pi.ts` | sessions with owner leases, command queues, waiters, in-flight ids, delayed terminal Events | register, heartbeat, unregister, poll, result, event; owner loss | a command goes to one owner; a result is taken only from the owner it went to; a terminal Event follows the commands of its session | `AgentAdapter`, `EventSpool` |
| **Pi extension** `extensions/pi/src/*` | the run under way, the pending alert, the lease, a queue of session mutations | react to Pi's events, deliver an Event, report it handled, register, heartbeat, poll | an Event is sent for the run that just ended, once unless an answer is lost; the Bridge is told the truth | `PiExtension`, `AgentAdapter` |
| **Event spool** `e2e/local-spool.ts`, `state-store/spool-transactions.ts`, `state-store/event-transitions.ts` | two files, state and encrypted spool | reserve, queue, promote, cancel, upload, complete, recover | no acknowledged Event is lost, none is offered twice, whatever the crash point | `EventSpool` |
| **Session publication** `e2e/upload-*.ts`, `daemon/snapshot-policy.ts`, `daemon/sync-workflow.ts` | a revision and an upload of unknown fate per session, the accepted manifest | snapshot, settle, upload, manifest, drain, escalate | a revision is never given to other bytes; a manifest shows one moment; the Relay catches up | `Publication` |
| **Link keyring** `e2e/link-keyring.ts`, `cli/operations/pair.ts`, `watches.ts` | pins (Watch, generation, epoch), staged activations | stage, activate, reconcile, retire, revoke, prune | the file is always valid and holds confirmed links only; a revoked pin stays so | `LinkKeyring`, `CommandJournal` |
| **Runtime reset and migration** `state-store/runtime-reset.ts`, `state-store.ts` | state, spool, their key, intent files, the schema floor | preflight, reset, migrate, resume | a crash at any write is resumed to one of the two consistent ends | `RuntimePreflight`, `HostReset` |
| **Identity stores** `identity/*` | keys in files or in the Keychain, sentinels | create, load, replace, delete | a half-written key is recognised and never mixed with old evidence | `IdentityStores`, `HostReset` |
| **Host-domain reset** `cli/operations/host-domain-reset-*.ts` | a phase journal | thirteen phases from quarantine to restore | each phase is repeatable; no enrolled Host is forgotten; no daemon runs over two Hosts | `HostReset` |
| **Locks** `runtime-lock.ts`, `host-manager/process-aware-lock.ts` | lock files and a takeover mutex | acquire, take over, release | at most one Bridge writes the state | `RuntimeLock`, `ProcessAwareLock` |
| **Service management** `host-manager/service/*` | definition file, loaded job, process | install, uninstall, start, stop, restart | the sequences end as reported under either manager | `ServiceManager`, `Onboarding` |
| **Onboarding** `host-manager/onboarding/*`, `cli/lifecycle/*`, `cli/operations/initialize.ts` | install metadata, identity, Pi package | setup, upgrade, init, service, Pi, uninstall | repeatable from wherever an earlier command was cut off; reports are true | `Onboarding` |
| **Daemon loop** `daemon.ts`, `daemon/*-workflow.ts` | where the loop stands, two timers, the shared registration, the stop flag, the recorded health | construct, serve, pass, register, reconcile, poll, stop | nothing that was asked for is forgotten, whatever fails or stops; nobody writes the state without the lock | `DaemonLoop` |
| **State store** `state-store.ts`, `state-store/state-codec.ts` | the durable state file | atomic transitions, decode | a start accepts what was written | in part: `EventSpool`, `CommandJournal`, `Publication` |
| **Secure files** `host-manager/secure-files/*` | a file, its temporaries, its directory | write, create, remove | a file is whole after any failure; what was reported is on disk | `SecureFiles` |
| **CLI, configuration, protocol package, user interface** | none of their own | parse, present, encode | pure functions | not modelled |

How they interact: the daemon's **sync pass** is a fixed sequence (presence,
receipts, driver reconciliation, session publication, Events, handles,
commands).  The command worker calls the driver, which puts the command in the
Agent Adapter's queue and waits for a result that arrives by another HTTP
request; losing the session's owner calls back into the journal.  The keyring
is shared by the worker, by publication and by the pairing CLI, which is
another process.  Every durable change is one atomic replacement of a file;
state, spool, keys and journals are different files.  The service manager
starts the daemon again whenever it ends, also in the middle of a reset.

What is hard: a crash at any await or between two files; redelivery by the
Relay; a request or answer that is lost; a host clock that is corrected; a
Watch that is unlinked or paired again while its commands are under way; a
request answered after its lease has moved; two processes taking over one
lock; a command of the CLI that is cut off and followed by another.
PROJECT.json lists these hazards at their lines.

## 2. Modules

| Module | Role |
|---|---|
| `CommandJournal`, `MCCommandJournal` | the command pipeline, its receipts and the pins they depend on; its instances |
| `AgentAdapter`, `MCAgentAdapter` | one session of the registry, the driver that waits, the agents that poll |
| `CommandHandover` | what the Agent Adapter promises to the driver, without queues or leases; `AgentAdapter` implements it |
| `DaemonLoop` | one daemon: startup, the loop, its timers, the registration, its ways to stop |
| `PiExtension` | one session of the Pi extension with Pi, its client and the Bridge's answers |
| `EventSpool` | the durable side of one session's terminal Events, write by write |
| `Publication`, `MCPublication` | the sync pass that publishes sessions and Events; its scenarios |
| `LinkKeyring` | the keyring file under three processes |
| `RuntimePreflight` ← `IdentityStores` ← `HostReset` | the start of the runtime; the key stores; the reset, composed with both, the daemon and the service manager |
| `ServiceManager` ← `Onboarding`, `MCOnboarding` | launchd and systemd; the commands that use them |
| `Processes` ← `RuntimeLock`, `ProcessAwareLock` | the processes of one machine; the lock of the Bridge's state and spool; the lock of onboarding, identity and keyring operations |
| `SecureFiles` | one path under writes and removals, call by call |
| `MCFileProtocols` | the two locks and `SecureFiles`, each for itself, in one run |
| `CommandProofs`, `AdapterProtocolProofs`, `DaemonLoopProofs`, `PublicationProofs`, `LinkKeyringProofs`, `FileProtocolProofs`, `HostResetInvariants` ← `HostResetProofs` | the inductive invariants and the theorems (section 4) |

### 2.1 CommandJournal

The state is what the code keeps: the journal by command id (`journal`), the
pins (`pins`), the Relay's authoritative recipient set (`recipients`,
external), the Relay's stored receipts (`receipts`, external), and the
worker's local variables.  `pc` is the await at which the worker stands:

| `pc` | code |
|---|---|
| `off`, `startup` | no daemon; `activateBridgeRuntime` done, `recoverStartupCommands` running |
| `idle` | between passes |
| `unblock` | `recoverBlockedCommandReceipts` |
| `drain`, `submitting` | `drainPendingCommandReceipts`, and its call to the Relay |
| `pull`, `batch` | `pullEncryptedCommands`, and the loop over the envelopes |
| `route` | `CommandRouter.handle`, the command claimed |
| `release`, `executing` | after the durable `dispatch_started`; waiting for the agent |
| `settle` | a result is known, the snapshot after it is awaited |

Each step of the worker between two awaits is one action and includes every
write that step makes, pruning too.  The environment may crash or stop the
daemon at any of them (`Crash`, `Stop`), advance or correct the clock
(`Advance`, `SetBack`), unlink or pair a Watch (`Unlink`, `Pair`), and the
Relay may return any set of commands (`Pull`), lose a submission, or accept it
and lose the answer (`DrainSubmit`).

Abstracted: an envelope is a model value with a command id, a nonce, a pin and
a validity interval (signature, decryption and validation appear as
`Prepared`); an encrypted receipt is the number of its encryption and the
status it carries, so two encryptions of one result differ and a resubmission
does not; a snapshot applies the recipient set the Relay holds at that
instant; preparation and claim are one step, since there is one worker; the
order of the drain is not fixed; the pins that encrypted uploads refer to are a
free choice (`held`); a sync pass runs its receipt and command passes in any
order and number; the loss of a session's owner while the worker waits is
marked by the callback and again by the worker, which is one step here; the rollback
and conflict checks of a snapshot (`command-workflow.ts:70-82`) are left out, since one
daemon fetches them in order.

### 2.2 AgentAdapter and CommandHandover

| Variable | Code |
|---|---|
| `live`, `leases` | `sessions` with `ownerLeaseId` and the age of the lease |
| `queue`, `polls` | `commandQueues`, `commandWaiters` |
| `bound`, `inFlight`, `orphaned`, `results` | `commandSessions`, `inFlightCommands`, `orphanedCommandIds`, `results` |
| `delayed`, `retry` | `delayedTerminalEvents` and the timer of its commit |
| `pushed` | `producerEventReservations`: Events whose acceptance became durable |
| `driver` | `PiDriver.executeCommand`: not yet released, waiting, answered, outcome unknown |
| `agents`, `replies` | the extension's lease, its poll loop and `commandLeases`; poll answers on their way |

`handled`, `releasedTo` and `refused` are history; `refused` says that the write
which accepts the delayed Event failed, so that its producer got an error, and that
nothing has tried to commit it since.  Actions are the routes of the server,
the driver's calls, the timers, the agent's own steps (`Receive`, `Handle`,
`Exit`), and what the environment does (`LoseReply`, `Restart`).

Abstracted: one session, since no operation relates two; the age of the lease
replaces the monotonic clock; a request is one step because the registry does
not await, and the answer to a poll is a message that may be lost; the worker
waits for one command at a time; a renewal by `register` and one by
`heartbeat` are one action.  What the reservation, the acceptance and the commit of a
terminal Event write is only "succeeds or fails" here, each for itself; the writes
are `EventSpool`'s.

`CommandHandover` knows for each command where it is (new, offered, taken,
handled, dropped) and the verdict the driver has.  The refinement maps a
queued command to *offered*, one in an answer or in an agent's hands to *taken*,
and one on which an agent acted to *handled*, which it remains.

### 2.3 PiExtension

`pi` is the agent itself (external), `ext` the closure of the extension's
session (`index.ts`): the run, its result, the pending alert, the timer of the
quiet window, the handle candidate and the flow revision that makes a late
answer recognisable.  `client` is `AgentAdapterClient` with its queue of
session mutations, `pushes` are the Event requests under way, `status` and
`bridge` what the Bridge was told.  The actions are Pi's callbacks
(`SessionStart`, `Input`, `AgentStart`, `AgentEnd`, `AgentSettled`,
`SessionTree`, `SessionShutdown`), the timers (`QuietWindowEnds`,
`RegistrationRetry`, `Heartbeat`), the requests with their losses, and
`BridgeForgets`.

Abstracted: one session id; the text and kind of an Event are its outcome;
heartbeats of handlers and of the interval are one action, enqueued only when
it would find the session lost; order numbers are canonical; adapters without
Events, the warning timer and late events of an old session manager are left
out; the poll loop is in `AgentAdapter`.

### 2.4 EventSpool

`disk` and `mem` are the state file and its copy, `spool` the second file,
`job` the writes that the running handler has still to make: a handler is not
interleaved (it is synchronous), but each write may fail, before or after it
took effect (`Fail`), and the process may end before each (`Crash`).  `Start`
makes the startup's checks and then its recovery, write by write as well.
`acked`, `gone` and `relay` are history: what producers were answered, what was
durably cancelled, what the Relay stores.  Which Event a session displays
(`lastEventId`) is not tracked.

### 2.5 Publication

`pass` holds the local variables of the pass and the await it stands at.  A
request to the Relay is one step: answered, refused, lost before it arrives, or
its answer lost.  `log` and `relayManifest` are the Relay (external): it
accepts an upload at the next revision, answers a repetition of the same bytes
alike and refuses others.  Recipients may change, sessions change, come and go,
Events be made and the daemon crash between any two steps.

Abstracted: a lost request does not arrive later; uploads converted from
earlier releases and malformed evidence are left out, as are the offline
verdict that comes from presence, driver sets that are incomplete, and the
handle and command passes after the drain.  The manifest revision is followed
until just above the Relay's.  The references of a manifest are a function of all
sessions, 0 for one it does not show.

### 2.6 LinkKeyring

The file, the daemon's copy of it, the two CLI processes with the step they
stand at, the mutation lock and the Relay's links.  A change under the lock is a
load and a write; `PruneRetiring` writes the daemon's copy without the lock, as
the code does, and `lost` records what that overwrote.  Keys, codes and proofs
are whether the confirmation took place.  The Relay (external) issues no
snapshot while a link is half activated, and one daemon fetches snapshots in
order, so the code's rollback and conflict checks never fire here.  Version 1
keyrings, and rotation of the Host's key, are left out.

### 2.7 RuntimePreflight, IdentityStores, HostReset

`RuntimePreflight` is the daemon's start: `boot.at` is the next write of the
preflight, the reset of schemas 1 and 2, the migration of schema 3, and the
opening.  Equality of file records is the code's equality of hashes.
`IdentityStores` gives the signing and the encryption store on both platforms,
operation by operation.  `HostReset` adds the journal with its thirteen phases,
the executor of each phase, the Relay that loses requests and answers, and the
daemon that the service manager starts again, which reads the journal and the
files while they are replaced.

Abstracted: one CLI process at a time (the operation lock), `ariava init` not
during a reset (finding 11), the runtime lock as mutual exclusion
(`RuntimeLock`), no rotation of the encryption key, version 1 key evidence only
with its key id.  Identifiers are random in the code and never come back; here a
new one is a member of `Hosts`, `KeyIds` or `Ids` that nothing remembers, and
these sets are the bound on how many there may be: a step that needs another one
than is left (`Forgotten`, `KeysAreLeft`, `IdsAreLeft`) is not taken.

### 2.8 ServiceManager, Onboarding

`ServiceManager` says what `launchctl` and `systemctl` do (external) and which
sequences of them the code runs.  In `Onboarding` each CLI process has a list of
steps (`todo`) that it takes one at a time under the locks the code takes;
processes overlap, fail and are interrupted, the daemon dies and is respawned,
a login starts what is enabled, and another Node.js moves the path of the CLI.
`kept` says that a command reports the daemon as left alone: a setup that found it
ready, an upgrade that was told not to restart it or whose restart failed.  `cause`
are the obstacles a command found when it started (`Obstructs`), `clean` that nothing
disturbed it, `messy` that some command was cut off or met one that takes no lock.

Abstracted: reading and writing the install metadata is one step; a Relay that
is not ready counts as an interruption; locks of dead processes are free; the
identity a running daemon has loaded is not tracked; whether the record names this
configuration and identity (`references`) is a free choice of each setup; metadata of
earlier releases is left out.

### 2.9 RuntimeLock, ProcessAwareLock

In `RuntimeLock`, `main` and `mutex` are the files, named by the process of
their record; `pc` is the next file operation of a process, `gen` the
generation of the takeover mutex it claims, `seen` the record it read,
`holding` the processes to which `acquireRuntimeLock` returned.  One action is
one file operation.  A record is created by `link(2)`, atomically and
exclusively.  A process is a pid with its start, so a pid that is used again is
another process.  `Fault` is a file operation that fails or an inspection that
proves nothing; a record whose write succeeded and whose first reading failed
stays.  A failing directory sync after a removal is left out; the in-process
claim of `claimStateWriter` appears in `DaemonLoop` as `disposed`.

`ProcessAwareLock` is in the same style, without a mutex: the stale file is read
(`LockRefused`), judged (`Judge`, or `Unproved`), read again (`Recheck`), removed
by its path (`RemoveStale`) and created (`Recreate`).  `old` are the processes
whose record has passed the stale age, `found` the record a process read.

### 2.10 SecureFiles

`entry` is what the path names, `kept` what a power failure may leave there,
`whole` the files that were synced, `temps` the temporaries in the directory.
One action is one call of the file system: open and write, sync, the rename of a
replacement or the link of an exclusive creation, the unlink of the temporary,
the sync of the directory, and the undoing of a creation that failed.  Each may
fail; a process may be killed between any two, and the power may go.

Left out: owners and modes of files and directories, and the checks of the path
before the first call.  A removal that finds nothing syncs nothing, so a file
whose earlier removal was not synced may return after a power failure although
the later call reported success; `ReturnedIsDurable` is about removals of a file
that was there.

### 2.11 DaemonLoop

| Variable | Code |
|---|---|
| `main` | where `start()` and `runForever` await, and inside a pass the step of `performBridgeSyncOnce` |
| `flight`, `beat`, `last` | `presenceFlight`, the heartbeat that waits for it, how the last registration ended |
| `timer`, `requested` | the reconcile and heartbeat timers, `reconciliationRequested` |
| `stopped`, `disposed`, `server` | the stop flag, `runtimeDisposed`, whether requests are accepted |
| `pass`, `failures` | the locals of the pass, the count of refused snapshots |
| `state`, `lock`, `resetting` | the durable state, the runtime lock, the journal of a reset |

The thread does one thing between two awaits: `MidWrite` holds back the timers
and requests while two writes follow each other without an await.  Commands,
receipts and uploads appear by their outcomes only.  A request that a pass took
before it threw, or whose timer was cancelled by a deferred recovery
(`daemon.ts:570-574`), waits for the next poll; `pass.cut` names these two cases.
A stop whose disposal throws (`daemon.ts:447-452`) leaves what one with a failed recovery
leaves, and is that step of the model.  Writes of the local state always succeed here,
also those in the `catch` of `ensureHostPresence` (`daemon.ts:714-720`).

## 3. Runs

| Run | Instance | Shows |
|---|---|---|
| `journal_replay` | two commands with one nonce, a crash or stop, a correction of the clock, horizon 5, fair | no command is released twice, an outcome is never revised; receipts and executions settle |
| `journal_receipts` | two commands under two pins of one Watch, two crashes, an unlink, horizon 4 | the Relay holds one receipt per command and it tells the truth; no pin is pruned while an execution refers to it |
| `adapter_commands` | two commands, two agents, two Events, waiting polls, two leases, a restart | the driver never waits for a dropped command; an answer comes from the owner the command was released to; a delayed Event has something that will release it, be it its producer's repetition after a failed acceptance; the adapter implements `CommandHandover` |
| `daemon_loop` | one session, two handles, one change of the registry, two mishaps, fair | what is owed is kept through failures and restarts; the recorded health is true; only the holder of the lock writes the state; the state and the Relay catch up |
| `pi_extension` | two runs on two leaves, three environment events, fair | an Event is for the run that just ended, repeated only after a lost answer, never pending for ever; what is reported of state and user is so; a closed session is released |
| `event_spool` | two sources, two Events, one failed write, two mishaps | what was acknowledged is kept; a repetition follows a cancellation; a start completes what was interrupted or is refused for a named reason |
| `publication` | six scenarios over two sessions, fair | evidence is never overwritten; manifests are sound; no Event is stored twice; the Relay catches up, except in the four named situations |
| `host_reset` | three Hosts, two resets, two deaths, every schema, both platforms | no enrolled Host is forgotten and its keys go, one Host per running daemon, the reset is always resumed and asks the journal for nothing its policy refuses, the runtime files are carried over |
| `reset_floor` | expected violation | finding 9 |
| `keyring` | one Watch, two generations and epochs, one fault | the file is valid, confirmed and complete; revocation is final; refusals are explained |
| `onboarding` | two CLI processes, six events in any order (commands, failures, interruptions, deaths, logins, changes of Node.js), both managers | setup converges, reports are true, the record describes the definition |
| `file_protocols` | one protocol per behaviour: the locks with three processes, one failing operation and generations 0 to 3, fair; one path with two writers, two writes, two failures | one coordinator, no live lock is removed, the lock is recovered; one owner unless a process died with its lock in place; files survive |

Several properties are conjunctions of named parts, one for each thing that could
go wrong: `SpoolIsExact`, `OldHostIsRetired` (with `OldKeysAreGone`),
`ReportsAreTrue` (with `SetupConverges`), `ReportsAreBacked`,
`DeliveriesAreInOrder`, `WorkIsKept`, `FilesSurvive`.  `ResetIsNeverWedged` is an
action property: every write of the journal is one that
`validateHostDomainResetTransition`, a table of its own, accepts.

**Bounds.**  The journal's properties are about one command, or about two that
compete for one nonce or one outbox.  Life 1, skew and retention keep the order
of the code's five minutes, five minutes and thirty days; `journal_replay` uses
a skew of 2 and a retention of 7, so that a retention short by the skew would
let a pruned command be prepared again.  The adapter needs two agents for a
change of owner, two leases for an answer or a result that arrives under the
next one, and two commands so that one is queued or in flight while the other
ends; a lease is fresh or expired, which is all the guards tell apart (TTL 0).  Each
lock needs three processes: one that dies with the file and two that take over
at once; three generations let each of them leave a mutex behind.  In the spool
a second mishap interrupts the recovery from the first, and two sources let the
second replace or overtake the first.  The scenarios of `publication` divide
one large instance, whose product is out of reach: two sessions that change,
with or without an Event and a pairing, and one mishap; one session with an
Event under two mishaps or two pairings; one session with three mishaps.  Nine
revisions bound the passes.  `host_reset` begins
from every shape a profile can have; two deaths interrupt the resumption of the
first, two resets leave the files of one Host to the next.  The keyring needs
two links of one Watch; Watches do not meet in the code.  `onboarding` counts
everything the environment does, commands included, towards one bound of six
(`MaxEvents`), in any order.  A state that misleads a later command takes that many:
with an older release installed under one Node.js, a setup that finds another, is cut off
before its record, the first Node.js again, the daemon's death, and the setup that finds
all this.  A command that starts while another runs counts four, since it multiplies the
behaviours rather than lengthening them; two commands still overlap before a third, or
with one failure.  The run was made once with seven events and a weight of three (25.6
million states, no error).  In
`event_spool` one write fails; the run was also made with two (10.6 million states).
`pi_extension` was
also run with the fourth outcome (995,930 states) and, for its invariants, with
a fourth environment event (12.8 million states).  Symmetric sets are used
where only safety is checked (`adapter_commands`: commands and Events; `onboarding`: paths).  The daemon needs two handles of one
session, so that a newer one arrives while the older is delivered, and two
mishaps, so that a stop follows a failure.  Of the paths two writers may race
for one, each with a write and what it undoes.

**Deadlock** is not checked where the system may really stop: a Bridge locked
out (`journal_receipts`, finding 2; `event_spool`, finding 6), all agents,
processes or commands at their end (the adapter, the locks, `onboarding`,
`keyring`, `pi_extension`), a pass that reached the bound (`publication`).

**Fairness.**  In `journal_replay` the clock runs (weak); the service manager
restarts the daemon (weak); the worker goes on from each await (weak), since
every call has a timeout and every failure path continues with the next item;
the Relay is reached again and again (strong, on the snapshot that begins a
command pass, on submissions and on their answers): a Relay that is never
reached settles nothing, and the code promises nothing then.  The run has no
unlinks, since a Bridge that is locked out makes no progress.  In `publication`
passes go on (weak): the loop is driven by a timer and every request has a
timeout; the environment owes nothing, and its lost requests are finitely many.
In `pi_extension` timers fire and requests are answered or fail (weak).  In
`daemon_loop` the thread goes on, requests are answered or fail, and timers that
are armed fire (weak); starts, stops and changes owe nothing.  In
`file_protocols` a live process goes on with its acquisition, and tries again
when refused (weak: the calls are synchronous and the service manager restarts
the Bridge); records get older (weak); of the inspections of other processes one
proves something again and again (strong, over all processes together).
Nothing is assumed about the end of an
operation or of a process.  `LockIsRecovered` promises nothing once an operation
failed, since a mutex that could not be read back blocks until its process ends.

**Mutants.**  For each property of each passing run PROJECT.json names a mutated
definition (a dropped guard, a missing reset, a swapped order) under which the
same run finds the property violated.

**Type invariants.**  Those of `CommandJournal`, `AgentAdapter`, `DaemonLoop`,
`LinkKeyring`, `PiExtension`, `Publication`, `HostReset`, `Onboarding`, `SecureFiles` and both
locks are part of the proved invariants.  That of `EventSpool` holds on the instance
above; it documents the state, and no run repeats it.

## 4. Proofs

`CommandProofs` proves of the journal, for all sets of envelopes, ids, nonces, pins and
all bounds:

| Theorem | Statement |
|---|---|
| `TypeCorrect` | `Spec => []TypeOK` |
| `NeverReplayed` | `Spec => []AtMostOnceDispatch` |
| `DispatchesAreJournaled` | `Spec => []DispatchIsJournaled` |
| `OutcomesAreFinal` | `Spec => OutcomeIsFinal` |

The assumptions are the named ones of `CommandJournal`: a command lives no
longer than `MaxTtl` (the validator refuses it otherwise), and a result is
retained for at least `MaxTtl + 3 * ClockSkew`.  Part of the specification is
that the clock is never set back further than `ClockSkew` behind the latest
instant it showed.

`AtMostOnceDispatch` is not inductive: that a command was released once does
not by itself prevent a second release.  The inductive invariant `IInv` adds

* `CursorInv`: what the worker's `pc` says about the entry of `cur` (claimed
  while routing, `dispatch_started` while releasing and executing), so that an
  entry under way is the worker's own;
* `DrainInv`: what is being drained or submitted has a receipt, so a drain
  changes only the outbox;
* `RetainedInv`: an entry's result is not older than its envelope allows, so
  the retention of a result also outlasts the command's validity;
* `JournaledInv`: a command that was released has its entry, past `claimed`,
  or its validity is over on every clock reading the host can still show.

`JournaledInv` is the heart of it.  A release needs an entry in
`dispatch_started` which only a claim creates; a claim needs the command id to
be absent from the journal and the envelope to be within its validity (and
skew); once the entry is pruned, `RetainedThrough` and the bound on the clock
put every later reading beyond that.  The step lemmas say what each kind of
action does to one journal entry (`EntryStep`: kept, forgotten, opened, moved,
settled or delivered), and the invariant's parts are proved from that
classification instead of from each action.

`FileProtocolProofs` proves of the runtime lock, for any number of processes, generations and faults,
and with a process ending before or after any file operation:

| Theorem | Statement |
|---|---|
| `TypeCorrect` | `Spec => []TypeOK` |
| `MutualExclusion` | `Spec => []OneCoordinator` |
| `SentinelsAreImmutable` | `Spec => SentinelsStay` |
| `LiveLocksStay` | `Spec => OnlyStaleIsRemoved` |

It assumes only that `NoProc` is no process and that the bounds are naturals.
`OneCoordinator` is not inductive: `Remove` takes away whatever is at the path, and
nothing in its guard says that this is still the stale file.  `IInv` adds

* `MutexInv`: a process under the mutex has its record at its generation, and
  every generation below the one it claims or owns holds the record of a dead
  process;
* `MainInv`: a process about to remove the lock file has judged a dead process
  whose record is still there, and a holder's record is in the file.

The lemma `MutexExcludes` follows from the first: two live processes cannot both
be under the mutex, since at equal generations the record is one of them, and at
different ones the lower is below the higher and so belongs to a dead process.
Only a process under the mutex removes the file, and a creation outside the
mutex needs the path to be free, so the file a process judged is the one it
removes.

The second part of `CommandProofs` extends `IInv` by what holds of the receipts:

| Theorem | Statement |
|---|---|
| `ReceiptInvariance` | `Spec => []RInv` |
| `ReceiptsAreUnique` | `Spec => []OneReceiptPerCommand` |
| `ReceiptsAreTrue` | `Spec => []ReceiptsTellTheTruth` |
| `PinsAreKept` | `Spec => []ReferencedPinsAreKept` |

That the Relay holds one receipt says nothing of what is submitted next.
`StoredInv` ties the two: the Relay's receipt of a command is exactly the one its
journal entry holds, body and status, or the entry is forgotten, and then no
clock reading within the skew can prepare the command again.  `VerdictInv` says
that a result is true where the worker holds it, `ResultInv` that it is where the
journal keeps it, so that a submission, whenever it is made, is true as well.

`AdapterProtocolProofs` of the Bridge's end, for any commands, agents, Events, leases
and restarts:

| Theorem | Statement |
|---|---|
| `AdapterInvariance` | `AdapterSpec => []AdapterInv` |
| `WaitsAreBound` | `AdapterSpec => []WaitingIsBound` |
| `DelayedEventIsGated` | `AdapterSpec => []DelayedIsGated` |
| `OwnersAnswer` | `AdapterSpec => AnswersComeFromTheOwner` |
| `AdapterImplementsHandover` | `AdapterSpec => ImplementsHandover` |

The argument rests on a fact that no table of the code states: a command is in
one place at a time (`Placement`).  Before its release it is nowhere; then it is
in the queue once, or in one answer to a poll, or with one agent, or it was
handled.  With it a step of the adapter moves a command between two known places,
and the refinement follows action by action: each step maps to one of
`CommandHandover` or to a stutter.  `DelayedIsGated` names all that can release a
delayed Event: command work, a retry timer, and, where the acceptance could not be
written, the producer that was told so; `refused` is dropped by the first commit that
is tried, after which only the first two count.

`DaemonLoopProofs`, for any sessions, changes, handles and mishaps:

| Theorem | Statement |
|---|---|
| `LoopInvariance` | `Spec => []LoopInv` |
| `DaemonKeepsItsWork` | `Spec => []WorkIsKept` |
| `HealthIsTrue` | `Spec => []HealthTellsTheTruth` |
| `DaemonWritesAreOwned` | `Spec => WritesAreOwned` |

`OwnerInv`: a process that was not stopped owns the state, so what a registration
wrote to the Host it also records (`HalfInv`).  `TraceInv`: a change of the
registry that no pass has listed leaves a trace (the armed timer, a request, the
stop, or a pass that was cut short) at every await of the pass, and not only in
the wait that `WorkIsKept` is about.

`FileProtocolProofs` of the files, for any writers, writes and failures:

| Theorem | Statement |
|---|---|
| `FilesInvariance` | `FilesSpec => []FilesInv` |
| `FilesSurviveFailures` | `FilesSpec => []FilesSurvive` |

Until it is promoted a file belongs to its writer alone and was never at the path
(`Unnamed`), so that who promotes one names a file that no finished task speaks
of; and it is promoted only after it was synced (`Promoted`).

`FileProtocolProofs` of the operation lock, for any number of processes:

| Theorem | Statement |
|---|---|
| `LockInvariance` | `LockSpec => []LockInv` |
| `LockExcludes` | `LockSpec => []OneOwnerUnlessOrphaned` |

This lock excludes for a reason that is easily lost in a change: as long as no
process died with the file in place, a process that stands before the second
reading has found the record of one that has ended since, and so finds another
record now.  Nobody gets to the removal by path (`NothingIsStale`).

`LinkKeyringProofs`, for any Watches, generations, epochs and faults:

| Theorem | Statement |
|---|---|
| `KeyringInvariance` | `Spec => []KeyringInv` |
| `KeyringTypeCorrect` | `Spec => []TypeOK` |
| `KeyringStaysSound` | `Spec => []KeyringIsSound` |
| `RevocationIsFinal` | `Spec => RevokedStaysRevoked` |
| `RefusalsAreExplained` | `Spec => RefusalIsExplained` |

Three facts carry it.  At the Relay, only pairing brings a new link, and only the
newest of its Watch (`RelayInv`, `OfferedInv`), so that a link that is no longer
live never becomes live again.  Among the keyrings, who writes the file has loaded
it under the lock, except the pruning daemon (`LockInv`); of the daemon's copy, the
file and what was loaded, each later one keeps the pins, the revocations and the
live staged links of the earlier (`StaleInv`), or the link is in `lost`.  And the
daemon is about to revoke only what is not live (`DaemonInv`).  A refusal needs
three more: a link that both sides are confirming has no pin yet (`UnpinnedInv`),
what was loaded is still in the file or lost (`LoadedInv`), and a pin retires for a
later link only (`RetiredInv`).  Every invariant was checked by TLC before its proof.

`AdapterProtocolProofs` of Pi's end, for any runs, inputs, branches, losses and order
of callbacks:

| Theorem | Statement |
|---|---|
| `PiInvariance` | `Spec => []PiInv` |
| `PiTypeCorrect` | `Spec => []TypeOK` |
| `PiReportsAreBacked` | `Spec => []ReportsAreBacked` |
| `PiClosedIsReleased` | `Spec => []ClosedIsReleased` |
| `PiDeliveriesAreInOrder` | `Spec => DeliveriesAreInOrder` |

The extension judges an answer by what it noted when it asked (flow, branch,
cursor), and the properties speak of what the Bridge has.  `PushInv` connects the
two: of a run there is at most one delivery under way, one that was accepted left
the Event its answer names, and any other Event of the run is there because an
answer was lost.  `ReducerInv` says what can be pending: only the last run's result
or alert, its delivery under way being the one with the greatest order, so that the
Bridge does not refuse it and nothing was stored after it; and that a cursor and
the count of inputs move together from the moment a delivery began, which is why a
late answer with an input since is really about a handled Event (`HandledInv`).
`ClientInv` follows the queue: after Pi closed the session its last element is the
unregistration, and no registration before it is of the present generation.  That
the next order is above every one in use needs a lemma (`Greatest`), from the
well-foundedness of the finite subsets; the set of orders is bounded (`OrdersInv`).

`PublicationProofs`, for any sessions, contents, revisions, Events, changes, pairings,
lost requests and crashes:

| Theorem | Statement |
|---|---|
| `PublicationInvariance` | `Spec => [](TypeOK /\ IInv)` |
| `PublicationTypeCorrectness` | `Spec => []TypeOK` |
| `TheEvidenceIsKept` | `Spec => []EvidenceIsKept` |
| `TheManifestsAreSound` | `Spec => []ManifestsAreSound` |
| `TheEventsAreStoredOnce` | `Spec => []EventsAreStoredOnce` |

The pass has twenty-eight steps, and the uploads only four ways to change: a session's
upload is made, arrives, is settled or is replaced (`SessionStep`); the same of the
first Event (`EventStep`); sessions without an upload get one (`CoverStep`); an Event is
queued (`EmitStep`).  `CoreStep` says that every step of the system is one of these or
leaves the uploads alone, and `CoreInv` is kept by each: the Relay's log of a session is
numbered and at most one entry ahead of the committed revision (`LogInv`, `RevInv`), and
that entry is the very upload kept with the session or with the first Event (`OpenInv`,
`StoredInv`), which is `EvidenceIsKept`.  What an upload may be replaced by depends on
what the pass knows, so `StageInv` says for each stage which uploads are of unknown fate:
none when the Events may drain, those still to be asked after while they are reconciled,
the one just made while it is sent.  A manifest is sound because the references collected
so far are to stored uploads of the pass's own copy of the sessions, for the recipients it
publishes for (`RefsInv`), whatever the sessions and the recipients are by then.

`HostResetInvariants` and `HostResetProofs`, for any Hosts, keys, operations and deaths,
on both platforms and from every shape a profile can have:

| Theorem | Statement |
|---|---|
| `HostResetInvariance` | `Spec => [](TypeOK /\ IInv)` |
| `HostResetTypeCorrectness` | `Spec => []TypeOK` |
| `TheRunningDomainIsOneHost` | `Spec => []RunningDomainIsOneHost` |
| `TheOldHostIsRetired` | `Spec => []OldHostIsRetired` |
| `TheResetIsNeverWedged` | `Spec => ResetIsNeverWedged` |
| `TheRuntimeIsCarriedOver` | `Spec => RuntimeIsCarriedOver` |

A death leaves two things: the phase of the journal, and the stores as the last write
left them.  The invariant says what they may be to each other.  `PlacesOK` gives the
phases at which the process can stand at each write; `JournalOK`, `Bound`, `Replacing`,
`Done`, `EncReset`, `EncryptionOK` and `ClearOK` say what the stores hold in each phase
and behind each write.  Until the new identity is committed the process has a `Candidate`
that only the reset sentinel and the signing record know (`CandidateOK`); between the
record and the last replaced file the stores are those of two Hosts (`Mixed`), and only
then.  Outside that exchange configuration, key, keyring and runtime files are those of
the signing Host (`OwnOK`, `DiskOK`), so a daemon that passed its validation runs with one
(`DaemonOK`).  `DiskOK` lists the shapes of files that a start, cut off at any write, can
leave, and `StartOK` what the start has found or written by each of its steps: this is why
a start is refused for an old Host's floor or migration intent alone, the case of finding 9.
`ResetIsNeverWedged` needs of all this that the evidence found at a resumption is the
reset's own (`NoRefusal`), and that every write of the journal is one step of the policy's
table (`JournalIsAccepted`).  `HostResetInvariants` states the invariant, what each
operation writes, and what a start and an exchange leave behind; `HostResetProofs` proves
each part of the invariant over all steps.  TLC checked the whole invariant on the instance
of `host_reset` first.

The third part of `CommandProofs` is about the commands the user runs, for any processes,
paths, versions, bounds and either service manager:

| Theorem | Statement |
|---|---|
| `OnboardingInvariance` | `OnboardingSpec => [](OnboardingTypes /\ Serial)` |
| `OnboardingTypeCorrectness` | `OnboardingSpec => []OnboardingTypes` |
| `TheRecordDescribesTheDefinition` | `OnboardingSpec => []RecordDescribesDefinition` |

In the middle of a command the record need not describe the definition, so the invariant
reads off the list of what a command has left to do what it still owes (`Debts`): a
definition that was written is owed its record, one that is removed is owed that the
record is forgotten.  `Shape`, part of the types, says which lists there are: a record is
owed right behind the installation that it is about, and what a removal owes stays within
a removal.  `Knows` says what a command relies on until it has paid: the definition it will
record is the one it wrote, the one it will forget is gone or will be, and the copy of the
metadata a setup writes back still is the file's.  `Serial` says that, without a mess, of
two commands that run both are setups and one has not taken the onboarding lock, and that
record and definition agree when nobody owes anything.  Each step then concerns one
command past its opening (`Turn`) or one in it, which changes neither (`Opens`).  A step
that fails owes nothing (`FailureOwesNothing`): what an installation does after the
definition is written finds that definition.

Apart from those of `CommandJournal` above, the only assumptions are that the names
for nothing (`None`, `NoProc`, `NoAgent`, ...) are not among the things they stand
beside, and that the bounds are naturals.

**What is model-checked only.**  Liveness and fairness, which the prover does not
reach: `PipelineSettles`, `CatchesUp`, `LockIsRecovered`, `StaleLockIsRecovered`,
`Converges`, `AlertsAreDelivered`.  Of the safety properties those of
`event_spool` (a start folds the recovery of the sources over their set, and its
invariant has to follow every write of it) and `ReportsAreTrue` of `onboarding`, which
speaks of commands that nothing disturbed and of all they found when they started: their
inductive invariants are not stated.

## 5. Findings

Where the code and what the repository says of it part.  The run of number 9 is
part of the project; the others were found by runs of the property that is
named, which is kept in its module with the remark that it does not hold, or by
the exceptions that a checked property has to make.

1. **Frozen recovery never thaws** (`FrozenRecoveryThaws`).  `daemon.ts:374` says
   "Command recovery stays frozen until an authoritative snapshot succeeds."
   When the startup snapshot fails, later passes get their snapshot, but no pass
   runs the recovery of orphaned executions; they stay `claimed` or
   `dispatch_started` until they are pruned or the daemon stops.
2. **An unlink can lock the Bridge out** (`StartupIsPossible`).  An accepted
   snapshot revokes the pin of an execution whose outcome is unknown.  At the
   next start `validateCommandExecutionPinsState` (`command-transitions.ts:166`)
   does not find that pin among the usable ones and refuses, before anything is
   pruned, at every start.
3. **A waiting poll outlives its owner** (`CommandsReachTheirOwner`).
   `agent-adapter/registry.ts:276` promises that losing the session clears
   "poll/result waiters"; `loseOwnership` leaves the polls that wait.  Such a
   poll gets the next command, which was released to the new owner.  The result
   of the wrong agent is refused (`AnswersComeFromTheOwner`), and the shipped Pi
   extension does not wait in its polls.
4. **An abandoned command stays in the queue** (`AbandonIsFinal`).
   `abandonCommand` (`registry.ts:657-664`) clears the binding and the flight of
   a command and not its place in the queue; the next poll hands it out after
   the driver has reported an unknown outcome.
5. **Two recoverers of one stale lock** (`OneOwner`).
   `acquireProcessAwareLock` removes a stale file by its path after a second
   reading (`process-aware-lock.ts:88`); a second recoverer may remove the file
   that the first has just created, and both operations run.
6. **An orphaned checkpoint refuses every start** (`RefusalsAreKnown`).
   `session-transitions.ts:36-55` drops a session and keeps its producer
   checkpoint; `state-codec.ts:787-793` refuses such a file.
7. **An Event is given up** (`EventsAreDelivered`).  While an Event's upload is
   of unknown fate a session upload may take its revision; the retry is refused
   as stale, which counts as permanent (`upload-failures.ts:15`,
   `upload-actions.ts:528`), and the Event becomes a dead letter.
8. **Publication stalls** (`OnlineAgain`, `Clash`).  When the Relay holds an
   Event's upload at the revision that the next session upload takes too, every
   pass is refused (`upload-actions.ts:247`) and the host counts as offline,
   although such refusals "must not be reclassified as offline network faults"
   (`daemon.ts:806`).
9. **The schema floor survives a Host reset** (`reset_floor`).
   `docs/release.md` says that the reset removes the old runtime state and
   creates a replacement; the floor file is left behind, names the old Host, and
   the replacement's daemon is refused at every start.
10. **A late answer replaces the newer candidate** (`NewestIsHandled`, a part of
    `DeliveriesAreInOrder`, excepts it).
    When an input came while an older Event was under way, its answer
    (`extensions/pi/src/index.ts:265-277`) overwrites the newer Event that the
    next input would have reported as handled.
11. **Smaller ones**, each behind an exception or an assumption of a property:
    * Events: a retry after completion is enqueued again
      (`spool-transactions.ts:254-256`); an Event delayed again while queued and
      then cancelled, or a cancellation begun twice with different ends, leaves
      files that a start refuses; `registry.ts:484-487` refuses a repetition after
      the upload, which the comment at 445 promises to answer.  When the acceptance of
      an Event fails and then its promotion too, it is a pending source that no
      reservation names: its cancellation returns early (`spool-transactions.ts:103`),
      it is uploaded all the same, and a repetition of it becomes a second Event
      (`RepeatedWasCancelled` excepts two failed writes).
    * Agent Adapter: an Event is delayed before its acceptance is written
      (`registry.ts:526`, 535).  When that write fails no retry is scheduled, unlike
      after a failed commit; the Event then waits for its producer to repeat it, or
      for the end of some later command work, although no producer was answered
      (`DelayedIsGated` excepts it by `refused`).  `stage-reserved-tuple`
      puts an Event in the place of another delayed one without cancelling it.
    * Publication: an uncommitted upload of a session that is gone stops every
      pass (`upload-actions.ts:317-348`, `Orphaned`); when the answer to a manifest
      is lost and the sessions return to what they were, no new manifest is sent
      (`current-sessions-transitions.ts:25-30`, `Reverted`).
    * Keyring: `pruneRetiring` overwrites the file from a stale copy without the
      lock (`link-keyring.ts:126-144`, `lost`); a staged activation of a
      superseded link makes the next one of that Watch fail.
    * Reset: `ariava init` during an interrupted reset of an uninitialised
      profile makes the resumption refuse for ever
      (`host-domain-reset-executor.ts:254-257`); an unreadable encryption identity
      makes the inspection throw (345); Keychain items of an interrupted creation
      stay behind.
    * Onboarding: `systemctl enable --now` leaves the old process running while
      setup says ready; an installation that was cut off is reported ready by its
      record (`launchd.ts:277-300`); a setup starts the definition of another path that
      an interrupted one left, and says ready (`service-reconcile.ts:88-90`,
      `launchd.ts:202-212`); the link of an enabled unit whose file is gone survives an
      uninstall (`systemd-user.ts:198`); an `init` cut off between the two identities
      makes setup ask for a reset (`initialize.ts:30-35`); an interrupted
      `pi install` is not repaired (`pi-extension.ts:85-87`); a removal racing a
      start leaves a process (`systemd-user.ts:198`).
    * Pi extension: a retry has a new producer id (`adapter.ts:130-148`), so a lost
      answer means a second Event; a failed report of a handled Event is tried
      again only by the next input; the status stays "working" after a suppressed
      duplicate or a missing assistant message.

## 6. Not modelled

* Cryptography, codecs and validation of formats (`packages/protocol`, most of
  `state-codec.ts`): pure functions with vectors in the tests, recursion over
  data that neither tool reaches better than they do.
* Owners and modes of files, HTTP, and the Keychain beyond
  items that exist or do not.
* The user interface, argument parsing, log texts, and the proof-of-concept
  scripts under `scripts/`.
* Conversions of single records written by earlier releases (install metadata,
  version 1 keyrings and uploads).

## 7. Plan

The modules are complete as far as section 6 allows.  What is left is proof, in
the order of what it would say:

1. `SpoolIsExact` of the spool, write by write;
2. `ReportsAreTrue` of the onboarding, from an invariant that follows each obstacle a
   command started with to the check that reports it.
