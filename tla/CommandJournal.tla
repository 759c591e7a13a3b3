--------------------------- MODULE CommandJournal ---------------------------
(***************************************************************************)
(* The Bridge's command pipeline: pull an encrypted command from the       *)
(* Relay, claim it in the durable execution journal, dispatch it to the    *)
(* agent, and deliver one receipt for its terminal result.                 *)
(*                                                                         *)
(*   apps/bridge/src/daemon/command-workflow.ts      the worker            *)
(*   apps/bridge/src/state-store/command-transitions.ts   the journal      *)
(*   apps/bridge/src/e2e/command-receipt-recovery.ts      the receipts     *)
(*   apps/bridge/src/e2e/link-keyring.ts                  the pins         *)
(*                                                                         *)
(* One asynchronous worker runs at a time: a sync pass is single-flight    *)
(* and its receipt pass and its command pass follow one another.  `pc'     *)
(* says what it awaits.  The host may crash at any await, its clock may    *)
(* step back, the Relay may deliver any command again, a Watch may be      *)
(* unlinked or re-paired, and every call to the Relay may fail.            *)
(***************************************************************************)
EXTENDS Integers, FiniteSets

CONSTANTS
    Envelopes,         \* encrypted commands a Watch may have signed
    CommandIds,        \* command ids
    Nonces,            \* (watchDeviceId, nonce) pairs
    Pins,              \* link pins (linkId, linkGeneration, epoch)
    Watches,           \* Watch devices
    IdOf, NonceOf, PinOf,   \* what an envelope names
    IssuedAt, ExpiresAt,    \* its validity interval
    WatchOf, TupleOf,       \* a pin's Watch, and its (generation, epoch) rank
    FirstPins,         \* the pins that are active when the model starts
    MaxTtl,            \* COMMAND_LIMITS.maxTtlMs
    ClockSkew,         \* SIGNED_REQUEST_LIMITS.clockSkewMs
    ReceiptRetention,  \* COMMAND_RECEIPT_RETENTION_MS
    Horizon,           \* bound: last instant of the host clock
    MaxSetBacks,       \* bound: how often the host clock is set back
    MaxCrashes,        \* bound: crashes and stops of the daemon
    MaxUnlinks,        \* bound: unlinks at the Relay
    MaxBuilds,         \* bound: receipts encrypted for one envelope
    NoEnvelope         \* "no command"

ASSUME EnvelopesAssumption ==
    /\ IdOf \in [Envelopes -> CommandIds]
    /\ NonceOf \in [Envelopes -> Nonces]
    /\ PinOf \in [Envelopes -> Pins]
    /\ IssuedAt \in [Envelopes -> Nat]
    /\ ExpiresAt \in [Envelopes -> Nat]
    /\ NoEnvelope \notin Envelopes

ASSUME PinsAssumption ==
    /\ WatchOf \in [Pins -> Watches]
    /\ TupleOf \in [Pins -> Nat]
    /\ FirstPins \subseteq Pins

\* validateEncryptedCommandEnvelopeV1 refuses a longer life than maxTtlMs.
ASSUME TtlAssumption ==
    /\ MaxTtl \in Nat
    /\ \A e \in Envelopes : ExpiresAt[e] <= IssuedAt[e] + MaxTtl

\* Thirty days against five minutes and five minutes.
ASSUME RetentionAssumption ==
    /\ ClockSkew \in Nat
    /\ ReceiptRetention \in Nat
    /\ ReceiptRetention >= MaxTtl + 3 * ClockSkew

ASSUME BoundsAssumption ==
    /\ Horizon \in Nat
    /\ MaxSetBacks \in Nat
    /\ MaxCrashes \in Nat
    /\ MaxUnlinks \in Nat
    /\ MaxBuilds \in Nat \ {0}

VARIABLES
    now,          \* the host's wall clock
    maxNow,       \* the latest instant it ever showed (history)
    setBacks,     \* times it was set back (bound)
    journal,      \* durable: commandExecutions, by command id
    pins,         \* durable: the link keyring
    recipients,   \* external: the Relay's authoritative recipient set
    unlinks,      \* unlinks so far (bound)
    pc,           \* what the worker awaits; "off" when no daemon runs
    batch,        \* pulled envelopes not looked at yet
    cur,          \* the envelope being handled
    verdict,      \* the terminal result the worker holds
    toDrain,      \* command ids of the outbox snapshot still to submit
    sent,         \* the command id whose receipt is being submitted
    next,         \* what follows the drain
    crashes,      \* crashes and stops so far (bound)
    thawed,       \* this daemon accepted an authoritative snapshot (history)
    dispatches,   \* times an envelope was released to the agent (history)
    builds,       \* receipts encrypted for an envelope (history)
    receipts      \* external: receipts the Relay holds, by envelope

clockVars  == <<now, maxNow, setBacks>>
workerVars == <<pc, batch, cur, verdict, toDrain, sent, next>>
relayVars  == <<recipients, unlinks>>
history    == <<crashes, thawed>>
vars == <<clockVars, journal, pins, relayVars, workerVars, history,
          dispatches, builds, receipts>>

-----------------------------------------------------------------------------
(* Types *)

\* COMMAND_RESULT_STATUSES
ResultStatus == {"executed", "expired", "rejected", "failed"}

\* CommandResult, reduced to what the journal and the receipt depend on
Result   == [status : ResultStatus \union {"none"}, updatedAt : Nat]
NoResult == [status |-> "none", updatedAt |-> 0]

ActiveState   == {"claimed", "dispatch_started"}
UncertainState == ActiveState \union {"outcome_unknown"}
TerminalState == {"terminal_receipt_blocked", "terminal"}

\* PersistedCommandExecutionV4; "absent" is a command id without an entry
Entry == [state  : UncertainState \union TerminalState \union {"absent"},
          env    : Envelopes \union {NoEnvelope},
          result : Result,
          outbox : {"none", "pending", "acknowledged", "undeliverable"},
          body   : 0..MaxBuilds]
NoEntry == [state |-> "absent", env |-> NoEnvelope, result |-> NoResult,
            outbox |-> "none", body |-> 0]

\* The receipt body the Watch decrypts; `body' tells one encryption from another.
Receipt == [body : 0..MaxBuilds, status : ResultStatus \union {"none"}]

\* ActiveLinkPinV2; "unpaired" is a tuple not minted yet, "pruned" one deleted.
\* `at' is activatedAt while the pin is active, retiringAt while it retires.
PinStatus == {"unpaired", "active", "retiring", "revoked", "pruned"}
Pin == [status : PinStatus, at : Nat]

Present(c) == journal[c].state # "absent"
Pending    == {c \in CommandIds : /\ journal[c].state = "terminal"
                                  /\ journal[c].outbox = "pending"}

-----------------------------------------------------------------------------
(* The keyring *)

\* A pin still serves an envelope: it is active, or it is retiring and the
\* envelope was issued before it began to retire.
Serves(pin, e) == \/ pin.status = "active"
                  \/ pin.status = "retiring" /\ IssuedAt[e] < pin.at
PinServes(e) == Serves(pins[PinOf[e]], e)

\* resolveCommandReceiptPinStatus
ReceiptPinStatus(e) ==
    IF pins[PinOf[e]].status = "revoked" THEN "revoked"
    ELSE IF PinServes(e) THEN "deliverable" ELSE "unavailable"

\* The pin is in the keyring and not revoked (getUsable).
Usable(p) == pins[p].status \in {"active", "retiring"}

\* The Relay's snapshot is accepted only if every recipient has an active pin
\* (materialForRecipient).
SnapshotAcceptable == \A p \in recipients : pins[p].status = "active"

\* reconciledPins: a pin the snapshot does not name is revoked, unless it is
\* retiring and the snapshot names its successor.
ReconciledPins ==
    [p \in Pins |->
        IF \/ p \in recipients
           \/ ~Usable(p)
           \/ /\ pins[p].status = "retiring"
              /\ \E q \in recipients : /\ WatchOf[q] = WatchOf[p]
                                       /\ TupleOf[q] > TupleOf[p]
        THEN pins[p]
        ELSE [status |-> "revoked", at |-> 0]]

-----------------------------------------------------------------------------
(* Retention *)

\* Mutant: the retention of an uncertain execution forgets the clock skew.
RetainedWithoutSkew(entry) ==
    IF entry.state \in UncertainState
    THEN ExpiresAt[entry.env]
    ELSE entry.result.updatedAt + ReceiptRetention

\* commandExecutionRetainedThrough
RetainedThrough(entry) ==
    IF entry.state \in UncertainState
    THEN ExpiresAt[entry.env] + ClockSkew
    ELSE entry.result.updatedAt + ReceiptRetention

\* pruneEligibleCommandExecutions
PrunedJournal ==
    [c \in CommandIds |->
        IF Present(c) /\ RetainedThrough(journal[c]) < now THEN NoEntry
                                                           ELSE journal[c]]

\* Mutant: the pins of executions with a result are not retained.
PrunedPinsOfUncertain(entries, held) ==
    [p \in Pins |->
        IF \/ pins[p].status \in {"active", "unpaired"}
           \/ p \in held
           \/ \E c \in CommandIds : /\ entries[c].state \in UncertainState
                                    /\ PinOf[entries[c].env] = p
                                    /\ RetainedThrough(entries[c]) >= now
        THEN pins[p]
        ELSE [status |-> "pruned", at |-> 0]]

\* pruneRetiring: a pin that is not active stays while a journal entry or an
\* encrypted upload (held, chosen by the caller) refers to it.
PrunedPins(entries, held) ==
    [p \in Pins |->
        IF \/ pins[p].status \in {"active", "unpaired"}
           \/ p \in held
           \/ \E c \in CommandIds : /\ entries[c].state # "absent"
                                    /\ PinOf[entries[c].env] = p
                                    /\ RetainedThrough(entries[c]) >= now
        THEN pins[p]
        ELSE [status |-> "pruned", at |-> 0]]

\* pruneCommandRuntime: executions first, then the pins nothing refers to.
Prune == /\ journal' = PrunedJournal
         /\ \E held \in SUBSET Pins : pins' = PrunedPins(PrunedJournal, held)

-----------------------------------------------------------------------------
(* Journal transitions *)

\* Mutant: recovery also takes executions whose receipt is blocked.
OrphansAndBlockedRecovered ==
    [c \in CommandIds |->
        IF journal[c].state \in ActiveState \union {"terminal_receipt_blocked"}
        THEN [journal[c] EXCEPT !.state = "outcome_unknown"] ELSE journal[c]]

\* recoverOrphanedCommandExecutionsTransition
OrphansRecovered ==
    [c \in CommandIds |->
        IF journal[c].state \in ActiveState
        THEN [journal[c] EXCEPT !.state = "outcome_unknown"] ELSE journal[c]]

\* claimCommandExecutionTransition: the entry it writes
Claimed(e) == [state |-> "claimed", env |-> e, result |-> NoResult,
               outbox |-> "none", body |-> 0]

\* persistTerminalReceiptBlockedTransition
Blocked(entry, result) ==
    [entry EXCEPT !.state = "terminal_receipt_blocked", !.result = result]

\* persistTerminalCommandReceiptTransition, with a freshly encrypted body
Terminal(entry, result, body) ==
    [entry EXCEPT !.state = "terminal", !.result = result,
                  !.outbox = "pending", !.body = body]

-----------------------------------------------------------------------------
(* The environment: the clock, the Relay's links, crashes *)

Advance == /\ now < Horizon
           /\ now' = now + 1
           /\ maxNow' = IF now + 1 > maxNow THEN now + 1 ELSE maxNow
           /\ UNCHANGED <<setBacks, journal, pins, relayVars, workerVars,
                          history, dispatches, builds, receipts>>

\* The host clock is corrected backwards, never further than the skew the
\* protocol tolerates behind the latest instant it showed.
SetBack == /\ setBacks < MaxSetBacks
           /\ \E t \in 0..Horizon : /\ t < now
                                    /\ t + ClockSkew >= maxNow
                                    /\ now' = t
           /\ setBacks' = setBacks + 1
           /\ UNCHANGED <<maxNow, journal, pins, relayVars, workerVars,
                          history, dispatches, builds, receipts>>

\* A Watch is unlinked at the Relay.
Unlink(p) == /\ unlinks < MaxUnlinks
             /\ p \in recipients
             /\ recipients' = recipients \ {p}
             /\ unlinks' = unlinks + 1
             /\ UNCHANGED <<clockVars, journal, pins, workerVars, history,
                            dispatches, builds, receipts>>

\* persistActive: pairing mints a newer pin for a Watch; the Watch's older
\* active pin begins to retire, and the Relay lists the new pin alone.
Pair(p) == /\ pins[p].status = "unpaired"
           /\ \A q \in Pins : (WatchOf[q] = WatchOf[p] /\ pins[q].status # "unpaired")
                                 => TupleOf[q] < TupleOf[p]
           /\ pins' = [q \in Pins |->
                 IF q = p THEN [status |-> "active", at |-> now]
                 ELSE IF WatchOf[q] = WatchOf[p] /\ pins[q].status = "active"
                 THEN [status |-> "retiring",
                       at |-> IF pins[q].at > now THEN pins[q].at ELSE now]
                 ELSE pins[q]]
           /\ recipients' = {q \in recipients : WatchOf[q] # WatchOf[p]} \union {p}
           /\ UNCHANGED <<clockVars, journal, unlinks, workerVars, history,
                          dispatches, builds, receipts>>

\* Everything the worker held is lost.
WorkerLost == /\ pc' = "off"
              /\ batch' = {}
              /\ cur' = NoEnvelope
              /\ verdict' = NoResult
              /\ toDrain' = {}
              /\ sent' = {}
              /\ next' = "none"

Crash == /\ pc # "off"
         /\ crashes < MaxCrashes
         /\ crashes' = crashes + 1
         /\ WorkerLost
         /\ UNCHANGED <<clockVars, journal, pins, relayVars, thawed,
                        dispatches, builds, receipts>>

\* BridgeDaemon.stop(): active executions become outcome_unknown, then every
\* wait is cancelled and the store is disposed.
Stop == /\ pc \notin {"off", "startup"}
        /\ crashes < MaxCrashes
        /\ crashes' = crashes + 1
        /\ journal' = OrphansRecovered
        /\ WorkerLost
        /\ UNCHANGED <<clockVars, pins, relayVars, thawed,
                       dispatches, builds, receipts>>

-----------------------------------------------------------------------------
(* Authority and startup *)

\* refreshCommandAuthority, when the snapshot arrives and is accepted.
RefreshAuthority == /\ SnapshotAcceptable
                    /\ pins' = ReconciledPins

\* validateCommandExecutionPins: an execution that is not terminal must still
\* resolve its pin, or the daemon refuses to start.
PinsResolve == \A c \in CommandIds :
    journal[c].state \in UncertainState => Usable(PinOf[journal[c].env])

\* activateBridgeRuntime, up to the recovery of commands.
Start == /\ pc = "off"
         /\ PinsResolve
         /\ pc' = "startup"
         /\ thawed' = FALSE
         /\ UNCHANGED <<clockVars, journal, pins, relayVars, batch, cur, verdict,
                        toDrain, sent, next, crashes, dispatches, builds, receipts>>

\* recoverStartupCommandPipeline: snapshot, then blocked receipts.
RecoverStartup == /\ pc = "startup"
                  /\ RefreshAuthority
                  /\ journal' = OrphansRecovered
                  /\ thawed' = TRUE
                  /\ pc' = "unblock"
                  /\ next' = "startup"
                  /\ UNCHANGED <<clockVars, relayVars, batch, cur, verdict, toDrain,
                                 sent, crashes, dispatches, builds, receipts>>

\* The startup snapshot fails: recoverStartupCommands swallows the error.
StartupFrozen == /\ pc = "startup"
                 /\ pc' = "idle"
                 /\ UNCHANGED <<clockVars, journal, pins, relayVars, batch, cur,
                                verdict, toDrain, sent, next, history, dispatches,
                                builds, receipts>>

\* performReconciledReceiptDrain, when something is pending.
BeginReceiptPass == /\ pc = "idle"
                    /\ Pending # {}
                    /\ RefreshAuthority
                    /\ thawed' = TRUE
                    /\ pc' = "drain"
                    /\ toDrain' = Pending
                    /\ next' = "receipts"
                    /\ UNCHANGED <<clockVars, journal, relayVars, batch, cur, verdict,
                                   sent, crashes, dispatches, builds, receipts>>

\* performCommandPullAndDispatch up to its first snapshot.
BeginCommandPass == /\ pc = "idle"
                    /\ RefreshAuthority
                    /\ thawed' = TRUE
                    /\ pc' = "unblock"
                    /\ next' = "pull"
                    /\ UNCHANGED <<clockVars, journal, relayVars, batch, cur, verdict,
                                   toDrain, sent, crashes, dispatches,
                                   builds, receipts>>

-----------------------------------------------------------------------------
(* Receipts *)

\* Mutant: a receipt already in the outbox is encrypted again.
RecoverableAgain == {c \in CommandIds :
                        /\ \/ journal[c].state = "terminal_receipt_blocked"
                           \/ journal[c].outbox = "pending" /\ builds[journal[c].env] < MaxBuilds
                        /\ PinServes(journal[c].env)}

\* The executions recoverBlockedCommandReceipts can build a receipt for.
Recoverable == {c \in CommandIds :
                   /\ journal[c].state = "terminal_receipt_blocked"
                   /\ PinServes(journal[c].env)}

\* recoverBlockedCommandReceipts, one execution: the kept result is encrypted.
RecoverBlocked(c) ==
    LET e == journal[c].env
    IN  /\ pc = "unblock"
        /\ c \in Recoverable
        /\ builds[e] < MaxBuilds
        /\ builds' = [builds EXCEPT ![e] = @ + 1]
        /\ journal' = [journal EXCEPT ![c] = Terminal(@, @.result, builds[e] + 1)]
        /\ UNCHANGED <<clockVars, pins, relayVars, workerVars, history,
                       dispatches, receipts>>

\* The rest stays blocked; the outbox snapshot is taken.
BlockedDone == /\ pc = "unblock"
               /\ Recoverable = {}
               /\ pc' = "drain"
               /\ toDrain' = Pending
               /\ UNCHANGED <<clockVars, journal, pins, relayVars, batch, cur,
                              verdict, sent, next, history, dispatches, builds,
                              receipts>>

\* drainPendingCommandReceipts: the pin was revoked, nobody can read it.
DrainUndeliverable(c) ==
    /\ pc = "drain"
    /\ c \in toDrain
    /\ ReceiptPinStatus(journal[c].env) = "revoked"
    /\ journal' = [journal EXCEPT ![c].outbox = "undeliverable"]
    /\ toDrain' = toDrain \ {c}
    /\ UNCHANGED <<clockVars, pins, relayVars, pc, batch, cur, verdict, sent,
                   next, history, dispatches, builds, receipts>>

DrainUnavailable(c) ==
    /\ pc = "drain"
    /\ c \in toDrain
    /\ ReceiptPinStatus(journal[c].env) = "unavailable"
    /\ toDrain' = toDrain \ {c}
    /\ UNCHANGED <<clockVars, journal, pins, relayVars, pc, batch, cur, verdict,
                   sent, next, history, dispatches, builds, receipts>>

\* The exact stored body is submitted; the request may be lost on the way.
DrainSubmit(c, arrives) ==
    LET e == journal[c].env
        receipt == [body |-> journal[c].body, status |-> journal[c].result.status]
    IN  /\ pc = "drain"
        /\ c \in toDrain
        /\ ReceiptPinStatus(e) = "deliverable"
        /\ toDrain' = toDrain \ {c}
        /\ sent' = {c}
        /\ pc' = "submitting"
        /\ receipts' = IF arrives THEN [receipts EXCEPT ![e] = @ \union {receipt}]
                                  ELSE receipts
        /\ UNCHANGED <<clockVars, journal, pins, relayVars, batch, cur, verdict,
                       next, history, dispatches, builds>>

Received(c) == [body |-> journal[c].body, status |-> journal[c].result.status]
                   \in receipts[journal[c].env]

\* Mutant: the acknowledgement is not recorded.
SubmitForgotten(c) == /\ pc = "submitting"
                      /\ c \in sent
                      /\ Received(c)
                      /\ sent' = {}
                      /\ pc' = "drain"
                      /\ UNCHANGED <<clockVars, journal, pins, relayVars, batch, cur,
                                     verdict, toDrain, next, history, dispatches,
                                     builds, receipts>>

\* The Relay's answer arrives: markCommandReceiptOutbox(acknowledged).
SubmitAccepted(c) == /\ pc = "submitting"
                     /\ c \in sent
                     /\ Received(c)
                     /\ journal' = [journal EXCEPT ![c].outbox = "acknowledged"]
                     /\ sent' = {}
                     /\ pc' = "drain"
                     /\ UNCHANGED <<clockVars, pins, relayVars, batch, cur, verdict,
                                    toDrain, next, history, dispatches, builds,
                                    receipts>>

\* No answer, or an error: the receipt stays pending for a later pass.
SubmitFailed == /\ pc = "submitting"
                /\ sent' = {}
                /\ pc' = "drain"
                /\ UNCHANGED <<clockVars, journal, pins, relayVars, batch, cur,
                               verdict, toDrain, next, history, dispatches, builds,
                               receipts>>

\* After a drain: a receipt pass ends; every other caller prunes and goes on.
AfterDrain == [receipts |-> "idle", startup |-> "idle",
               pull |-> "pull", command |-> "batch"]

DrainDone == /\ pc = "drain"
             /\ toDrain = {}
             /\ IF next = "receipts" THEN UNCHANGED <<journal, pins>> ELSE Prune
             /\ pc' = AfterDrain[next]
             /\ next' = "none"
             /\ UNCHANGED <<clockVars, relayVars, batch, cur, verdict, toDrain, sent,
                            history, dispatches, builds, receipts>>

-----------------------------------------------------------------------------
(* Pull, claim, dispatch *)

\* The Relay may hand out any command, again and again.
Pull == /\ pc = "pull"
        /\ batch' \in SUBSET Envelopes
        /\ pc' = "batch"
        /\ UNCHANGED <<clockVars, journal, pins, relayVars, cur, verdict, toDrain,
                       sent, next, history, dispatches, builds, receipts>>

\* A failed pull, or the end of the batch, ends the pass.
EndPass == /\ \/ pc = "pull"
              \/ pc = "batch" /\ batch = {}
           /\ pc' = "idle"
           /\ UNCHANGED <<clockVars, journal, pins, relayVars, batch, cur, verdict,
                          toDrain, sent, next, history, dispatches, builds, receipts>>

\* prepareCommandForExecution: issued no later than the skew allows, not
\* expired, and authorized by a pin that serves it.
Prepared(e) == /\ IssuedAt[e] <= now + ClockSkew
               /\ ExpiresAt[e] > now
               /\ PinServes(e)

\* claimCommandExecutionTransition: another body under the id, or the same
\* Watch nonce under another id.
Duplicate(e) == Present(IdOf[e]) /\ journal[IdOf[e]].env = e
Conflict(e)  == \/ Present(IdOf[e]) /\ journal[IdOf[e]].env # e
                \/ /\ ~Present(IdOf[e])
                   /\ \E c \in CommandIds : /\ Present(c)
                                            /\ NonceOf[journal[c].env] = NonceOf[e]

\* Not authorized, or claimed before: the command is passed over.
SkipCommand(e) == /\ pc = "batch"
                  /\ e \in batch
                  /\ ~Prepared(e) \/ Duplicate(e)
                  /\ batch' = batch \ {e}
                  /\ UNCHANGED <<clockVars, journal, pins, relayVars, pc, cur, verdict,
                                 toDrain, sent, next, history, dispatches, builds,
                                 receipts>>

\* A conflict throws: the rest of the batch is dropped with the pass.
RejectConflict(e) == /\ pc = "batch"
                     /\ e \in batch
                     /\ Prepared(e)
                     /\ Conflict(e)
                     /\ batch' = {}
                     /\ pc' = "idle"
                     /\ UNCHANGED <<clockVars, journal, pins, relayVars, cur, verdict,
                                    toDrain, sent, next, history, dispatches, builds,
                                    receipts>>

Claim(e) == /\ pc = "batch"
            /\ e \in batch
            /\ Prepared(e)
            /\ ~Duplicate(e)
            /\ ~Conflict(e)
            /\ journal' = [journal EXCEPT ![IdOf[e]] = Claimed(e)]
            /\ batch' = batch \ {e}
            /\ cur' = e
            /\ pc' = "route"
            /\ UNCHANGED <<clockVars, pins, relayVars, verdict, toDrain, sent, next,
                           history, dispatches, builds, receipts>>

\* CommandRouter.handle decides without the agent: the command expired since,
\* or no live session and driver answer for it.
Finalize(status) == /\ pc = "route"
                    /\ status \in {"expired", "rejected"}
                    /\ (status = "expired") <=> (ExpiresAt[cur] <= now)
                    /\ verdict' = [status |-> status, updatedAt |-> now]
                    /\ pc' = "settle"
                    /\ UNCHANGED <<clockVars, journal, pins, relayVars, batch, cur,
                                   toDrain, sent, next, history, dispatches, builds,
                                   receipts>>

\* beforeDispatch: dispatch_started is durable before anything is released.
StartDispatch == /\ pc = "route"
                 /\ ExpiresAt[cur] > now
                 /\ journal' = [journal EXCEPT ![IdOf[cur]].state = "dispatch_started"]
                 /\ pc' = "release"
                 /\ UNCHANGED <<clockVars, pins, relayVars, batch, cur, verdict, toDrain,
                                sent, next, history, dispatches, builds, receipts>>

\* releaseCommandDispatch: the command reaches the agent's queue.
Release == /\ pc = "release"
           /\ dispatches' = [dispatches EXCEPT ![cur] = @ + 1]
           /\ pc' = "executing"
           /\ UNCHANGED <<clockVars, journal, pins, relayVars, batch, cur, verdict,
                          toDrain, sent, next, history, builds, receipts>>

\* The driver answers with a valid result.
DriverResult(status) == /\ pc = "executing"
                        /\ status \in {"executed", "rejected", "failed"}
                        /\ verdict' = [status |-> status, updatedAt |-> now]
                        /\ pc' = "settle"
                        /\ UNCHANGED <<clockVars, journal, pins, relayVars, batch, cur,
                                       toDrain, sent, next, history, dispatches, builds,
                                       receipts>>

\* Mutant: an uncertain outcome is reported as a failure.
GuessFailure == /\ pc \in {"route", "release", "executing"}
                /\ verdict' = [status |-> "failed", updatedAt |-> now]
                /\ pc' = "settle"
                /\ UNCHANGED <<clockVars, journal, pins, relayVars, batch, cur, toDrain,
                               sent, next, history, dispatches, builds, receipts>>

\* The preflight or the enqueue fails, the wait times out, the session's owner is lost or the
\* answer is invalid: markOutcomeUnknownIfActive, and on to the next command.
OutcomeUnknown == /\ pc \in {"route", "release", "executing"}
                  /\ journal' = [journal EXCEPT ![IdOf[cur]].state = "outcome_unknown"]
                  /\ cur' = NoEnvelope
                  /\ pc' = "batch"
                  /\ UNCHANGED <<clockVars, pins, relayVars, batch, verdict, toDrain,
                                 sent, next, history, dispatches, builds, receipts>>

\* No snapshot after the result: the result is kept, its receipt is blocked.
SettleBlocked == /\ pc = "settle"
                 /\ journal' = [journal EXCEPT ![IdOf[cur]] = Blocked(@, verdict)]
                 /\ cur' = NoEnvelope
                 /\ verdict' = NoResult
                 /\ pc' = "batch"
                 /\ UNCHANGED <<clockVars, pins, relayVars, batch, toDrain, sent, next,
                                history, dispatches, builds, receipts>>

\* persistTerminalCommandResult after a fresh snapshot: the receipt is built,
\* or blocked when the snapshot took the pin away; then the outbox drains.
SettleTerminal ==
    LET c == IdOf[cur]
        serves == Serves(ReconciledPins[PinOf[cur]], cur)
        entry == IF serves THEN Terminal(journal[c], verdict, builds[cur] + 1)
                           ELSE Blocked(journal[c], verdict)
    IN  /\ pc = "settle"
        /\ RefreshAuthority
        /\ builds[cur] < MaxBuilds
        /\ builds' = IF serves THEN [builds EXCEPT ![cur] = @ + 1] ELSE builds
        /\ journal' = [journal EXCEPT ![c] = entry]
        /\ toDrain' = IF serves THEN Pending \union {c} ELSE Pending
        /\ next' = "command"
        /\ cur' = NoEnvelope
        /\ verdict' = NoResult
        /\ pc' = "drain"
        /\ thawed' = TRUE
        /\ UNCHANGED <<clockVars, relayVars, batch, sent, crashes,
                       dispatches, receipts>>

-----------------------------------------------------------------------------
Init == /\ now = 0
        /\ maxNow = 0
        /\ setBacks = 0
        /\ journal = [c \in CommandIds |-> NoEntry]
        /\ pins = [p \in Pins |-> [status |-> IF p \in FirstPins THEN "active"
                                                                 ELSE "unpaired",
                                   at |-> 0]]
        /\ recipients = FirstPins
        /\ unlinks = 0
        /\ pc = "off"
        /\ batch = {}
        /\ cur = NoEnvelope
        /\ verdict = NoResult
        /\ toDrain = {}
        /\ sent = {}
        /\ next = "none"
        /\ crashes = 0
        /\ thawed = FALSE
        /\ dispatches = [e \in Envelopes |-> 0]
        /\ builds = [e \in Envelopes |-> 0]
        /\ receipts = [e \in Envelopes |-> {}]

Environment == \/ Advance
               \/ SetBack
               \/ \E p \in Pins : Unlink(p) \/ Pair(p)
               \/ Crash
               \/ Stop

StartSteps == Start \/ RecoverStartup \/ StartupFrozen

ReceiptSteps == \/ BeginReceiptPass
                \/ \E c \in CommandIds : \/ RecoverBlocked(c)
                                         \/ DrainUndeliverable(c)
                                         \/ DrainUnavailable(c)
                                         \/ DrainSubmit(c, TRUE)
                                         \/ DrainSubmit(c, FALSE)
                                         \/ SubmitAccepted(c)
                \/ BlockedDone
                \/ SubmitFailed
                \/ DrainDone

CommandSteps == \/ BeginCommandPass
                \/ Pull
                \/ EndPass
                \/ \E e \in Envelopes : SkipCommand(e) \/ RejectConflict(e) \/ Claim(e)
                \/ \E status \in ResultStatus : Finalize(status) \/ DriverResult(status)
                \/ StartDispatch
                \/ Release
                \/ OutcomeUnknown
                \/ SettleBlocked
                \/ SettleTerminal

Next == Environment \/ StartSteps \/ ReceiptSteps \/ CommandSteps

Spec == Init /\ [][Next]_vars

-----------------------------------------------------------------------------
(* Properties *)

PcValues == {"off", "startup", "idle", "unblock", "drain", "submitting", "pull",
             "batch", "route", "release", "executing", "settle"}

\* assertCommandExecution: what a persisted entry of each state carries.
WellFormed(c, entry) ==
    /\ (entry.state = "absent") <=> (entry = NoEntry)
    /\ entry.state # "absent" => entry.env \in Envelopes /\ IdOf[entry.env] = c
    /\ (entry.result.status # "none") <=> (entry.state \in TerminalState)
    /\ (entry.outbox # "none") <=> (entry.state = "terminal")

ClockOK == /\ now \in Nat /\ maxNow \in Nat /\ setBacks \in Nat
           /\ now <= maxNow /\ maxNow <= now + ClockSkew

JournalOK(j) == /\ j \in [CommandIds -> Entry]
                /\ \A c \in CommandIds : WellFormed(c, j[c])

LinksOK == /\ pins \in [Pins -> Pin]
           /\ recipients \subseteq Pins
           /\ unlinks \in Nat

WorkerOK == /\ pc \in PcValues
            /\ batch \subseteq Envelopes
            /\ cur \in Envelopes \union {NoEnvelope}
            /\ verdict \in Result
            /\ toDrain \subseteq CommandIds
            /\ sent \subseteq CommandIds
            /\ next \in {"none", "startup", "receipts", "pull", "command"}

HistoryOK == /\ crashes \in Nat
             /\ thawed \in BOOLEAN
             /\ dispatches \in [Envelopes -> Nat]
             /\ builds \in [Envelopes -> 0..MaxBuilds]
             /\ receipts \in [Envelopes -> SUBSET Receipt]

\* Every variable of the pipeline has its type, every journal entry the fields
\* its state requires and no others (assertCommandExecution), and the clock
\* lies within the skew of the latest instant it showed.
TypeOK == ClockOK /\ JournalOK(journal) /\ LinksOK /\ WorkerOK /\ HistoryOK

\* A command is released to the agent at most once, whatever is redelivered,
\* pruned, crashed or set back in between ("uncertain commands are never
\* replayed", docs/prod-vs-dev-cli.md:28): a claim refuses what the journal
\* holds, and the journal forgets a command only when it can no longer be
\* prepared (claimCommandExecutionTransition, commandExecutionRetainedThrough).
AtMostOnceDispatch == \A e \in Envelopes : dispatches[e] <= 1

\* The Relay never holds two different receipts for one command, although a
\* crash between submission and acknowledgement makes the Bridge submit again:
\* the encrypted body is stored once and resubmitted byte for byte
\* (persistTerminalCommandReceiptTransition, drainPendingCommandReceipts).
OneReceiptPerCommand ==
    \A e \in Envelopes : Cardinality(receipts[e]) <= 1

\* What a receipt says is what happened: "executed" only of a command the agent
\* was given, "expired" only of one it never saw, and nothing at all while the
\* outcome is unknown ("never a guessed failure receipt",
\* command-workflow.ts:139).
ReceiptsTellTheTruth ==
    /\ \A e \in Envelopes : \A r \in receipts[e] :
          /\ r.status \in {"executed", "failed"} => dispatches[e] = 1
          /\ r.status = "expired" => dispatches[e] = 0
    /\ \A c \in CommandIds :
          journal[c].state \in UncertainState => receipts[journal[c].env] = {}

\* A command the agent has seen is never found "claimed" after a crash: its
\* dispatch_started record was durable first (beforeDispatch in
\* performCommandPullAndDispatch), and its entry stays until the command can
\* no longer be prepared.
DispatchIsJournaled ==
    \A e \in Envelopes : dispatches[e] > 0 =>
        \/ /\ journal[IdOf[e]].env = e
           /\ journal[IdOf[e]].state \notin {"absent", "claimed"}
        \/ ExpiresAt[e] < now

\* A pin is not deleted while an execution refers to it, so the status of its
\* receipt stays decidable (readCommandExecutionPinRetentionReferences,
\* pruneRetiring).
ReferencedPinsAreKept ==
    \A c \in CommandIds :
        Present(c) => pins[PinOf[journal[c].env]].status \notin {"unpaired", "pruned"}

OutcomeKept(c) ==
    /\ journal[c].state \in TerminalState =>
          \/ /\ journal'[c].state \in TerminalState
             /\ journal'[c].result = journal[c].result
             /\ journal'[c].env = journal[c].env
          \/ /\ journal'[c] = NoEntry
             /\ now > journal[c].result.updatedAt + ReceiptRetention
    /\ journal[c].state = "outcome_unknown" =>
          \/ journal'[c] = journal[c]
          \/ /\ journal'[c] = NoEntry
             /\ now > ExpiresAt[journal[c].env] + ClockSkew

\* Once a result or an unknown outcome is recorded for a command, no step
\* changes it into another one; the entry can only be settled further or pruned
\* after its retention (command-transitions.ts:97-134).
OutcomeIsFinal == [][\A c \in CommandIds : OutcomeKept(c)]_vars

\* "Command recovery stays frozen until an authoritative snapshot succeeds"
\* (daemon.ts:374): once this daemon accepted one and its pass is over, no
\* execution of an earlier daemon is left claimed or dispatch_started.
\* Does not hold: README, finding 1.
FrozenRecoveryThaws ==
    (pc = "idle" /\ thawed) => \A c \in CommandIds : journal[c].state \notin ActiveState

\* The startup check finds the pin of every persisted execution, revoked pins
\* included, since those are kept for what refers to them ("retains revoked and
\* pending key references until their exact records are safely deleted",
\* test/link-keyring.test.ts:119): a stopped Bridge can start again.
\* Does not hold: README, finding 2.
StartupIsPossible == pc = "off" => PinsResolve

-----------------------------------------------------------------------------
(* Liveness *)

WorkerSteps == \/ RecoverStartup \/ StartupFrozen
               \/ BlockedDone \/ SubmitFailed \/ DrainDone
               \/ \E c \in CommandIds : \/ RecoverBlocked(c)
                                        \/ DrainUndeliverable(c)
                                        \/ DrainUnavailable(c)
                                        \/ DrainSubmit(c, FALSE)
               \/ EndPass
               \/ \E e \in Envelopes : SkipCommand(e) \/ RejectConflict(e) \/ Claim(e)
               \/ StartDispatch \/ Release \/ OutcomeUnknown \/ SettleBlocked

\* The clock runs; the service manager restarts the daemon; the worker goes on
\* from every await (each has a timeout or a failure path); and the Relay is
\* reached again and again: snapshots, submissions and their answers succeed
\* infinitely often if they are tried infinitely often.
Fairness == /\ WF_vars(Advance)
            /\ WF_vars(Start)
            /\ WF_vars(WorkerSteps)
            /\ SF_vars(BeginCommandPass)
            /\ \A c \in CommandIds : /\ SF_vars(DrainSubmit(c, TRUE))
                                     /\ SF_vars(SubmitAccepted(c))

FairSpec == Spec /\ Fairness

\* A receipt waiting in the outbox is eventually acknowledged, found
\* undeliverable or pruned (drainPendingCommandReceipts on every pass).
ReceiptsSettle ==
    \A c \in CommandIds : journal[c].outbox = "pending" ~> journal[c].outbox # "pending"

\* No command stays claimed or dispatch_started for ever: its worker settles
\* it, a stop or a startup recovers it, or retention ends
\* (pruneEligibleCommandExecutionsTransition).
ExecutionsSettle ==
    \A c \in CommandIds : journal[c].state \in ActiveState
                             ~> journal[c].state \notin ActiveState

\* The pipeline keeps nothing open: neither a receipt nor an execution.
PipelineSettles == ReceiptsSettle /\ ExecutionsSettle

=============================================================================
