--------------------------- MODULE CommandProofs ---------------------------
(***************************************************************************)
(* What holds of commands: of those the Relay sends (CommandJournal) and   *)
(* of those the user runs (Onboarding).                                    *)
(*                                                                         *)
(* Of the Relay's commands, for every set of them, every clock and every   *)
(* bound: the journal is well formed, and no command is released to the    *)
(* agent twice.                                                            *)
(*                                                                         *)
(* AtMostOnceDispatch is not inductive.  The worker must know that the     *)
(* command it routes is claimed and was never released (CursorInv), a      *)
(* released command must stay in the journal until no clock within the     *)
(* tolerated skew can prepare it again (JournaledInv), and for that the    *)
(* retention of a result must outlast the command's own life (RetainedInv).*)
(*                                                                         *)
(* The second part extends this to the receipts and to the pins they are   *)
(* encrypted for.  The Relay's receipt of a command is the one its journal *)
(* entry holds, or the entry is forgotten, and then no clock within the    *)
(* skew can prepare the command again (StoredInv).  A result says what     *)
(* happened already where the worker holds it (VerdictInv) and where the   *)
(* journal keeps it (ResultInv).                                           *)
(*                                                                         *)
(* The third part is about the commands the user runs.  That the record in *)
(* the install metadata describes the definition file is not inductive: in *)
(* the middle of a command it need not hold.  What is inductive says what  *)
(* every command owes, by the steps it has left, and what it may rely on   *)
(* until it has paid (Knows), and that only setups that have not taken the *)
(* onboarding lock run beside a command (Serial).                          *)
(***************************************************************************)
EXTENDS CommandJournal, Onboarding, FiniteSetTheorems, TLAPS

\* The command the worker handles, in each of its awaits.
CursorInv ==
    /\ pc \in {"route", "release", "executing", "settle"} =>
          /\ cur \in Envelopes
          /\ journal[IdOf[cur]].env = cur
          /\ journal[IdOf[cur]].state \in ActiveState
          /\ ExpiresAt[cur] <= maxNow + ClockSkew + MaxTtl
    /\ pc = "route" => journal[IdOf[cur]].state = "claimed"
    /\ pc \in {"release", "executing"} => journal[IdOf[cur]].state = "dispatch_started"
    /\ pc \in {"route", "release"} => dispatches[cur] = 0
    /\ pc = "settle" => /\ verdict.status # "none"
                        /\ ExpiresAt[cur] + ClockSkew <= verdict.updatedAt + ReceiptRetention

\* The receipts a drain still has to submit are pending, each once.
DrainInv ==
    /\ pc \in {"drain", "submitting"} => toDrain \subseteq Pending
    /\ pc = "submitting" => sent \subseteq Pending /\ sent \intersect toDrain = {}
    /\ pc \in {"unblock", "drain", "submitting"} => next # "none"

\* A result is kept until the command has expired, skew included.
RetainedInv ==
    \A c \in CommandIds : journal[c].state \in TerminalState =>
        ExpiresAt[journal[c].env] + ClockSkew
            <= journal[c].result.updatedAt + ReceiptRetention

\* A released command is in the journal, past "claimed", until it has expired
\* on every clock within the skew.
JournaledInv ==
    \A e \in Envelopes : dispatches[e] > 0 =>
        \/ /\ journal[IdOf[e]].env = e
           /\ journal[IdOf[e]].state \notin {"absent", "claimed"}
        \/ maxNow > ExpiresAt[e] + ClockSkew

IInv == /\ TypeOK
        /\ CursorInv
        /\ DrainInv
        /\ RetainedInv
        /\ JournaledInv
        /\ AtMostOnceDispatch

-----------------------------------------------------------------------------
(* What the journal transitions write *)

\* Replacing one entry by a well-formed one keeps the journal well formed.
LEMMA ReplaceEntry ==
    ASSUME NEW j, JournalOK(j), NEW c \in CommandIds, NEW entry \in Entry,
           WellFormed(c, entry)
    PROVE  JournalOK([j EXCEPT ![c] = entry])
  BY DEF JournalOK

\* The entry a claim writes is well formed.
LEMMA ClaimedEntry ==
    ASSUME NEW e \in Envelopes
    PROVE  Claimed(e) \in Entry /\ WellFormed(IdOf[e], Claimed(e))
<1>1. NoResult \in Result /\ 0 \in 0..MaxBuilds
  BY BoundsAssumption DEF BoundsAssumption, NoResult, Result
<1>2. Claimed(e) \in Entry
  BY <1>1 DEF Claimed, Entry, UncertainState, ActiveState
<1>3. WellFormed(IdOf[e], Claimed(e))
  BY DEF Claimed, WellFormed, NoEntry, NoResult, TerminalState
<1>4. QED BY <1>2, <1>3

\* A step between states without a result keeps an entry well formed.
LEMMA UncertainEntry ==
    ASSUME NEW c \in CommandIds, NEW entry \in Entry, WellFormed(c, entry),
           entry.state \in ActiveState, NEW s \in UncertainState
    PROVE  /\ [entry EXCEPT !.state = s] \in Entry
           /\ WellFormed(c, [entry EXCEPT !.state = s])
  BY EnvelopesAssumption
  DEF EnvelopesAssumption, Entry, Result, ResultStatus, UncertainState, ActiveState, TerminalState,
      WellFormed, NoEntry, NoResult

\* persistTerminalReceiptBlockedTransition writes a well-formed entry.
LEMMA BlockedEntry ==
    ASSUME NEW c \in CommandIds, NEW entry \in Entry, WellFormed(c, entry),
           entry.state \in ActiveState,
           NEW result \in Result, result.status # "none"
    PROVE  Blocked(entry, result) \in Entry /\ WellFormed(c, Blocked(entry, result))
  BY EnvelopesAssumption
  DEF EnvelopesAssumption, Blocked, Entry, Result, ResultStatus, UncertainState, ActiveState,
      TerminalState, WellFormed, NoEntry, NoResult

\* persistTerminalCommandReceiptTransition writes a well-formed entry.
LEMMA TerminalEntry ==
    ASSUME NEW c \in CommandIds, NEW entry \in Entry, WellFormed(c, entry),
           entry.state # "absent",
           NEW result \in Result, result.status # "none",
           NEW body \in 0..MaxBuilds
    PROVE  /\ Terminal(entry, result, body) \in Entry
           /\ WellFormed(c, Terminal(entry, result, body))
  BY EnvelopesAssumption
  DEF EnvelopesAssumption, Terminal, Entry, Result, ResultStatus, UncertainState, ActiveState,
      TerminalState, WellFormed, NoEntry, NoResult

\* markCommandReceiptOutboxTransition writes a well-formed entry.
LEMMA OutboxEntry ==
    ASSUME NEW c \in CommandIds, NEW entry \in Entry, WellFormed(c, entry),
           entry.state = "terminal", NEW o \in {"acknowledged", "undeliverable"}
    PROVE  /\ [entry EXCEPT !.outbox = o] \in Entry
           /\ WellFormed(c, [entry EXCEPT !.outbox = o])
  BY EnvelopesAssumption
  DEF EnvelopesAssumption, Entry, Result, ResultStatus, UncertainState, ActiveState, TerminalState,
      WellFormed, NoEntry, NoResult

\* Recovery and pruning leave a well-formed journal.
LEMMA BulkTransitions ==
    ASSUME JournalOK(journal)
    PROVE  JournalOK(OrphansRecovered) /\ JournalOK(PrunedJournal)
<1>1. NoEntry \in Entry /\ \A c \in CommandIds : WellFormed(c, NoEntry)
  BY EnvelopesAssumption, BoundsAssumption
  DEF EnvelopesAssumption, BoundsAssumption, NoEntry, NoResult, Entry, Result, ResultStatus, WellFormed, TerminalState
<1>2. JournalOK(PrunedJournal)
  BY <1>1 DEF JournalOK, PrunedJournal
<1>3. ASSUME NEW c \in CommandIds
      PROVE  OrphansRecovered[c] \in Entry /\ WellFormed(c, OrphansRecovered[c])
  <2>1. CASE journal[c].state \in ActiveState
    BY <2>1, UncertainEntry DEF JournalOK, OrphansRecovered, UncertainState
  <2>2. CASE journal[c].state \notin ActiveState
    BY <2>2 DEF JournalOK, OrphansRecovered
  <2>3. QED BY <2>1, <2>2
<1>4. JournalOK(OrphansRecovered)
  BY <1>3 DEF JournalOK, OrphansRecovered
<1>5. QED BY <1>2, <1>4
-----------------------------------------------------------------------------
(* Type correctness *)

\* The steps that write the journal, and the only ones.
LEMMA JournalWriters ==
    ASSUME [Next]_vars
    PROVE  \/ UNCHANGED journal
           \/ Stop \/ RecoverStartup
           \/ \E c \in CommandIds : RecoverBlocked(c) \/ DrainUndeliverable(c) \/ SubmitAccepted(c)
           \/ DrainDone /\ Prune
           \/ \E e \in Envelopes : Claim(e)
           \/ StartDispatch \/ OutcomeUnknown \/ SettleBlocked \/ SettleTerminal
<1> USE DEF clockVars, workerVars, relayVars, history
<1>1. CASE UNCHANGED vars
  BY <1>1 DEF vars
<1>2. CASE Environment
  BY <1>2 DEF Environment, Advance, SetBack, Unlink, Pair, Crash
<1>3. CASE StartSteps
  BY <1>3 DEF StartSteps, Start, StartupFrozen
<1>4. CASE ReceiptSteps
  BY <1>4 DEF ReceiptSteps, BeginReceiptPass, BlockedDone, DrainUnavailable,
              DrainSubmit, SubmitFailed, DrainDone
<1>5. CASE CommandSteps
  BY <1>5 DEF CommandSteps, BeginCommandPass, Pull, EndPass, SkipCommand,
              RejectConflict, Finalize, DriverResult, Release
<1>6. QED BY <1>1, <1>2, <1>3, <1>4, <1>5 DEF Next

\* Every step leaves a well-formed journal: the worker writes an entry only in
\* a state its transition accepts.
LEMMA JournalStep ==
    ASSUME IInv, [Next]_vars
    PROVE  JournalOK(journal')
<1>1. JournalOK(journal) /\ TypeOK
  BY DEF IInv, TypeOK
<1> DEFINE k == IdOf[cur]
<1>2. pc \in {"route", "release", "executing", "settle"} =>
          /\ k \in CommandIds
          /\ journal[k] \in Entry /\ WellFormed(k, journal[k])
          /\ journal[k].state \in ActiveState
  BY <1>1, EnvelopesAssumption DEF EnvelopesAssumption, IInv, CursorInv, JournalOK
<1>3. CASE UNCHANGED journal
  BY <1>1, <1>3
<1>4. CASE Stop \/ RecoverStartup
  BY <1>1, <1>4, BulkTransitions DEF Stop, RecoverStartup
<1>5. ASSUME NEW c \in CommandIds, RecoverBlocked(c) PROVE JournalOK(journal')
  <2>1. /\ journal[c] \in Entry /\ WellFormed(c, journal[c])
        /\ journal[c].state = "terminal_receipt_blocked"
    BY <1>1, <1>5 DEF RecoverBlocked, Recoverable, JournalOK
  <2>2. /\ journal[c].result \in Result /\ journal[c].result.status # "none"
        /\ journal[c].env \in Envelopes
    BY <2>1 DEF Entry, WellFormed, TerminalState
  <2>3. builds[journal[c].env] + 1 \in 0..MaxBuilds
    BY <1>1, <1>5, <2>2, BoundsAssumption DEF BoundsAssumption, TypeOK, HistoryOK, RecoverBlocked
  <2>4. journal' = [journal EXCEPT ![c] =
                       Terminal(journal[c], journal[c].result, builds[journal[c].env] + 1)]
    BY <1>5 DEF RecoverBlocked
  <2>5. QED BY <1>1, <2>1, <2>2, <2>3, <2>4, TerminalEntry, ReplaceEntry
<1>6. ASSUME NEW c \in CommandIds, DrainUndeliverable(c) \/ SubmitAccepted(c)
      PROVE  JournalOK(journal')
  <2>1. /\ journal[c] \in Entry /\ WellFormed(c, journal[c])
        /\ journal[c].state = "terminal"
    BY <1>1, <1>6 DEF DrainUndeliverable, SubmitAccepted, JournalOK, IInv, DrainInv, Pending
  <2>2. PICK o \in {"acknowledged", "undeliverable"} :
            journal' = [journal EXCEPT ![c] = [journal[c] EXCEPT !.outbox = o]]
    BY <1>6 DEF DrainUndeliverable, SubmitAccepted
  <2>3. QED BY <1>1, <2>1, <2>2, OutboxEntry, ReplaceEntry
<1>7. CASE DrainDone /\ Prune
  BY <1>1, <1>7, BulkTransitions DEF Prune
<1>8. ASSUME NEW e \in Envelopes, Claim(e) PROVE JournalOK(journal')
  BY <1>1, <1>8, ClaimedEntry, ReplaceEntry, EnvelopesAssumption DEF EnvelopesAssumption, Claim
<1>9. CASE StartDispatch \/ OutcomeUnknown
  <2>1. PICK s \in UncertainState :
            journal' = [journal EXCEPT ![k] = [journal[k] EXCEPT !.state = s]]
    BY <1>9 DEF StartDispatch, OutcomeUnknown, UncertainState, ActiveState
  <2>2. pc \in {"route", "release", "executing"}
    BY <1>9 DEF StartDispatch, OutcomeUnknown
  <2>3. QED BY <1>1, <1>2, <2>1, <2>2, UncertainEntry, ReplaceEntry
<1>10. CASE SettleBlocked \/ SettleTerminal
  <2>1. pc = "settle" /\ verdict \in Result /\ verdict.status # "none" /\ cur \in Envelopes
    BY <1>1, <1>10 DEF SettleBlocked, SettleTerminal, IInv, CursorInv, TypeOK, WorkerOK
  <2>2. builds[cur] < MaxBuilds => builds[cur] + 1 \in 0..MaxBuilds
    BY <1>1, <2>1, BoundsAssumption DEF BoundsAssumption, TypeOK, HistoryOK
  <2>3. \/ journal' = [journal EXCEPT ![k] = Blocked(journal[k], verdict)]
        \/ /\ builds[cur] < MaxBuilds
           /\ journal' = [journal EXCEPT ![k] = Terminal(journal[k], verdict, builds[cur] + 1)]
    BY <1>10 DEF SettleBlocked, SettleTerminal
  <2>4. journal[k].state # "absent"
    BY <1>2, <2>1 DEF ActiveState
  <2>5. QED BY <1>1, <1>2, <2>1, <2>2, <2>3, <2>4, BlockedEntry, TerminalEntry, ReplaceEntry
<1>11. QED BY <1>3, <1>4, <1>5, <1>6, <1>7, <1>8, <1>9, <1>10, JournalWriters

\* The clock stays within the skew of the latest instant it showed.
LEMMA ClockStep ==
    ASSUME ClockOK, [Next]_vars
    PROVE  ClockOK' /\ maxNow' >= maxNow
<1> USE RetentionAssumption, BoundsAssumption
    DEF RetentionAssumption, BoundsAssumption, ClockOK, clockVars
<1>1. CASE UNCHANGED clockVars
  BY <1>1
<1>2. CASE Advance \/ SetBack
  BY <1>2 DEF Advance, SetBack
<1>3. UNCHANGED clockVars \/ Advance \/ SetBack
  BY DEF Next, vars, Environment, StartSteps, ReceiptSteps, CommandSteps,
         Unlink, Pair, Crash, Stop, Start, RecoverStartup, StartupFrozen,
         BeginReceiptPass, RecoverBlocked, DrainUndeliverable, DrainUnavailable,
         DrainSubmit, SubmitAccepted, BlockedDone, SubmitFailed, DrainDone,
         BeginCommandPass, Pull, EndPass, SkipCommand, RejectConflict, Claim,
         Finalize, DriverResult, StartDispatch, Release, OutcomeUnknown,
         SettleBlocked, SettleTerminal
<1>4. QED BY <1>1, <1>2, <1>3

\* Every step keeps the types of the keyring and of the Relay's recipients.
LEMMA LinksStep ==
    ASSUME TypeOK, [Next]_vars
    PROVE  LinksOK'
<1> USE DEF TypeOK, LinksOK, Pin, PinStatus, relayVars
<1>1. ReconciledPins \in [Pins -> Pin]
  BY DEF ReconciledPins
<1>2. \A j, held : PrunedPins(j, held) \in [Pins -> Pin]
  BY DEF PrunedPins
<1>3. CASE \E p \in Pins : Unlink(p) \/ Pair(p)
  BY <1>3 DEF Unlink, Pair, ClockOK
<1>4. CASE UNCHANGED <<pins, relayVars>>
  BY <1>4
<1>5. CASE pins' = ReconciledPins /\ UNCHANGED relayVars
  BY <1>1, <1>5
<1>6. CASE Prune /\ UNCHANGED relayVars
  BY <1>2, <1>6 DEF Prune
<1>7. \/ \E p \in Pins : Unlink(p) \/ Pair(p)
      \/ UNCHANGED <<pins, relayVars>>
      \/ (pins' = ReconciledPins \/ Prune) /\ UNCHANGED relayVars
  BY DEF Next, vars, Environment, StartSteps, ReceiptSteps, CommandSteps,
         Advance, SetBack, Crash, Stop, Start, RecoverStartup, StartupFrozen,
         BeginReceiptPass, RecoverBlocked, DrainUndeliverable, DrainUnavailable,
         DrainSubmit, SubmitAccepted, BlockedDone, SubmitFailed, DrainDone,
         BeginCommandPass, Pull, EndPass, SkipCommand, RejectConflict, Claim,
         Finalize, DriverResult, StartDispatch, Release, OutcomeUnknown,
         SettleBlocked, SettleTerminal, RefreshAuthority
<1>8. QED BY <1>3, <1>4, <1>5, <1>6, <1>7

\* Every step keeps the types of what the worker holds.
LEMMA WorkerStep ==
    ASSUME IInv, [Next]_vars
    PROVE  WorkerOK'
<1> USE DEF WorkerOK, PcValues, workerVars
<1>1. TypeOK /\ WorkerOK /\ ClockOK
  BY DEF IInv, TypeOK
<1>2. NoResult \in Result /\ Pending \subseteq CommandIds
  BY DEF NoResult, Result, Pending
<1>3. \A s \in ResultStatus : [status |-> s, updatedAt |-> now] \in Result
  BY <1>1 DEF ClockOK, Result
<1>4. CASE UNCHANGED vars
  BY <1>1, <1>4 DEF vars
<1>5. CASE Environment
  BY <1>1, <1>2, <1>5 DEF Environment, Advance, SetBack, Unlink, Pair, Crash, Stop, WorkerLost
<1>6. CASE StartSteps
  BY <1>1, <1>6 DEF StartSteps, Start, RecoverStartup, StartupFrozen
<1>7. CASE ReceiptSteps
  <2>1. CASE DrainDone
    <3>1. next # "none"
      BY <2>1 DEF IInv, DrainInv, DrainDone
    <3>2. AfterDrain[next] \in PcValues
      BY <1>1, <3>1 DEF AfterDrain
    <3>3. QED BY <1>1, <2>1, <3>2 DEF DrainDone
  <2>2. CASE ~DrainDone
    BY <1>1, <1>2, <1>7, <2>2
    DEF ReceiptSteps, BeginReceiptPass, RecoverBlocked, DrainUndeliverable,
        DrainUnavailable, DrainSubmit, SubmitAccepted, BlockedDone, SubmitFailed
  <2>3. QED BY <2>1, <2>2
<1>8. CASE CommandSteps
  <2>1. CASE SettleTerminal
    <3>1. cur \in Envelopes
      BY <2>1 DEF SettleTerminal, IInv, CursorInv
    <3>2. IdOf[cur] \in CommandIds
      BY <3>1, EnvelopesAssumption DEF EnvelopesAssumption
    <3>3. QED BY <1>1, <1>2, <2>1, <3>2 DEF SettleTerminal
  <2>2. CASE ~SettleTerminal
    BY <1>1, <1>2, <1>3, <1>8, <2>2
    DEF CommandSteps, BeginCommandPass, Pull, EndPass, SkipCommand, RejectConflict,
        Claim, Finalize, DriverResult, StartDispatch, Release, OutcomeUnknown,
        SettleBlocked
  <2>3. QED BY <2>1, <2>2
<1>9. QED BY <1>4, <1>5, <1>6, <1>7, <1>8 DEF Next

\* Every step keeps the types of the counters and of the Relay's receipts.
LEMMA HistoryStep ==
    ASSUME IInv, [Next]_vars
    PROVE  HistoryOK'
<1> USE DEF HistoryOK, history
<1>1. TypeOK /\ HistoryOK
  BY DEF IInv, TypeOK
<1>2. CASE UNCHANGED vars
  BY <1>1, <1>2 DEF vars
<1>3. CASE Environment
  BY <1>1, <1>3 DEF Environment, Advance, SetBack, Unlink, Pair, Crash, Stop, WorkerLost
<1>4. CASE StartSteps
  BY <1>1, <1>4 DEF StartSteps, Start, RecoverStartup, StartupFrozen
<1>5. ASSUME NEW c \in CommandIds, RecoverBlocked(c) PROVE HistoryOK'
  <2>1. journal[c].env \in Envelopes
    BY <1>1, <1>5 DEF RecoverBlocked, Recoverable, TypeOK, JournalOK, WellFormed
  <2>2. QED BY <1>1, <1>5, <2>1, BoundsAssumption DEF BoundsAssumption, RecoverBlocked
<1>6. ASSUME NEW c \in CommandIds, NEW arrives \in BOOLEAN, DrainSubmit(c, arrives)
      PROVE  HistoryOK'
  <2>1. [body |-> journal[c].body, status |-> journal[c].result.status] \in Receipt
    BY <1>1 DEF TypeOK, JournalOK, Entry, Result, Receipt
  <2>2. QED BY <1>1, <1>6, <2>1 DEF DrainSubmit
<1>7. CASE SettleTerminal
  <2>1. cur \in Envelopes
    BY <1>7 DEF SettleTerminal, IInv, CursorInv
  <2>2. builds' \in [Envelopes -> 0..MaxBuilds]
    BY <1>1, <1>7, <2>1, BoundsAssumption DEF BoundsAssumption, SettleTerminal
  <2>3. QED BY <1>1, <1>7, <2>2 DEF SettleTerminal
<1>8. CASE Release
  <2>1. cur \in Envelopes
    BY <1>8 DEF Release, IInv, CursorInv
  <2>2. QED BY <1>1, <1>8, <2>1 DEF Release
<1>9. CASE /\ ReceiptSteps
           /\ ~\E c \in CommandIds : \/ RecoverBlocked(c)
                                     \/ \E arrives \in BOOLEAN : DrainSubmit(c, arrives)
  BY <1>1, <1>9
  DEF ReceiptSteps, BeginReceiptPass, DrainUndeliverable, DrainUnavailable,
      SubmitAccepted, BlockedDone, SubmitFailed, DrainDone
<1>10. CASE CommandSteps /\ ~SettleTerminal /\ ~Release
  BY <1>1, <1>10
  DEF CommandSteps, BeginCommandPass, Pull, EndPass, SkipCommand, RejectConflict,
      Claim, Finalize, DriverResult, StartDispatch, OutcomeUnknown, SettleBlocked
<1>11. QED BY <1>2, <1>3, <1>4, <1>5, <1>6, <1>7, <1>8, <1>9, <1>10 DEF Next

\* Together: the type invariant is preserved.
LEMMA TypeStep ==
    ASSUME IInv, [Next]_vars
    PROVE  TypeOK'
<1>1. TypeOK /\ ClockOK
  BY DEF IInv, TypeOK
<1>2. QED BY <1>1, JournalStep, ClockStep, LinksStep, WorkerStep, HistoryStep DEF TypeOK

-----------------------------------------------------------------------------
(* The worker and its command *)

\* Every step keeps what the worker knows of the command it handles.
LEMMA CursorStep ==
    ASSUME IInv, [Next]_vars
    PROVE  CursorInv'
<1> USE EnvelopesAssumption, TtlAssumption, RetentionAssumption
    DEF EnvelopesAssumption, TtlAssumption, RetentionAssumption, workerVars
<1>1. TypeOK /\ CursorInv /\ ClockOK /\ ClockOK' /\ maxNow' >= maxNow
  BY ClockStep DEF IInv, TypeOK
<1> DEFINE Held == {"route", "release", "executing", "settle"}
<1>2. CASE pc' \notin Held
  BY <1>2 DEF CursorInv
<1>3. CASE UNCHANGED <<workerVars, journal, dispatches>>
  BY <1>1, <1>3 DEF CursorInv, ClockOK, TypeOK, WorkerOK
<1>4. ASSUME NEW e \in Envelopes, Claim(e) PROVE CursorInv'
  <2>1. dispatches[e] = 0
    <3>1. dispatches[e] \in Nat
      BY <1>1 DEF TypeOK, HistoryOK
    <3>2. ~Present(IdOf[e]) /\ ExpiresAt[e] > now /\ IssuedAt[e] <= now + ClockSkew
      BY <1>4 DEF Claim, Prepared, Duplicate, Conflict
    <3>3. journal[IdOf[e]].state = "absent"
      BY <3>2 DEF Present
    <3>4. ~(maxNow > ExpiresAt[e] + ClockSkew)
      BY <1>1, <3>2 DEF ClockOK
    <3>5. QED BY <3>1, <3>3, <3>4 DEF IInv, JournaledInv
  <2>2. ExpiresAt[e] <= maxNow + ClockSkew + MaxTtl
    BY <1>1, <1>4 DEF Claim, Prepared, ClockOK
  <2>3. journal'[IdOf[e]] = Claimed(e) /\ IdOf[e] \in CommandIds
    BY <1>1, <1>4 DEF Claim, TypeOK, JournalOK
  <2>4. cur' = e /\ pc' = "route" /\ dispatches' = dispatches /\ maxNow' = maxNow
    BY <1>4 DEF Claim, clockVars
  <2>5. QED BY <2>1, <2>2, <2>3, <2>4 DEF CursorInv, Claimed, ActiveState
<1>5. ASSUME NEW status \in ResultStatus, Finalize(status) \/ DriverResult(status)
      PROVE  CursorInv'
  <2>1. /\ pc \in {"route", "executing"} /\ pc' = "settle"
        /\ verdict' = [status |-> status, updatedAt |-> now]
        /\ cur' = cur /\ journal' = journal /\ maxNow' = maxNow
    BY <1>5 DEF Finalize, DriverResult, clockVars
  <2>2. status # "none"
    BY DEF ResultStatus
  <2>3. cur \in Envelopes /\ ExpiresAt[cur] <= maxNow + ClockSkew + MaxTtl
    BY <1>1, <2>1 DEF CursorInv
  <2>4. ExpiresAt[cur] + ClockSkew <= now + ReceiptRetention
    BY <1>1, <2>3 DEF ClockOK
  <2>5. QED BY <1>1, <2>1, <2>2, <2>4 DEF CursorInv
<1>6. CASE StartDispatch
  <2>1. /\ pc = "route" /\ cur' = cur /\ pc' = "release"
        /\ dispatches' = dispatches /\ maxNow' = maxNow
        /\ journal' = [journal EXCEPT ![IdOf[cur]].state = "dispatch_started"]
    BY <1>6 DEF StartDispatch, clockVars
  <2>2. cur \in Envelopes /\ IdOf[cur] \in CommandIds
    BY <1>1, <2>1 DEF CursorInv
  <2>3. /\ journal'[IdOf[cur]].state = "dispatch_started"
        /\ journal'[IdOf[cur]].env = journal[IdOf[cur]].env
    BY <1>1, <2>1, <2>2 DEF TypeOK, JournalOK, Entry
  <2>4. QED BY <1>1, <2>1, <2>3 DEF CursorInv, ActiveState
<1>7. CASE Release
  BY <1>1, <1>7 DEF Release, CursorInv, clockVars
<1>8. \/ pc' \notin Held
      \/ UNCHANGED <<workerVars, journal, dispatches>>
      \/ \E e \in Envelopes : Claim(e)
      \/ \E status \in ResultStatus : Finalize(status) \/ DriverResult(status)
      \/ StartDispatch \/ Release
  <2>1. CASE UNCHANGED vars
    BY <2>1 DEF vars
  <2>2. CASE Environment
    BY <2>2 DEF Environment, Advance, SetBack, Unlink, Pair, Crash, Stop, WorkerLost
  <2>3. CASE StartSteps
    BY <2>3 DEF StartSteps, Start, RecoverStartup, StartupFrozen
  <2>4. CASE ReceiptSteps
    <3>1. CASE DrainDone
      BY <1>1, <3>1 DEF DrainDone, AfterDrain, IInv, DrainInv, TypeOK, WorkerOK
    <3>2. CASE ~DrainDone
      BY <2>4, <3>2
      DEF ReceiptSteps, BeginReceiptPass, RecoverBlocked, DrainUndeliverable,
          DrainUnavailable, DrainSubmit, SubmitAccepted, BlockedDone, SubmitFailed
    <3>3. QED BY <3>1, <3>2
  <2>5. CASE CommandSteps
    BY <2>5
    DEF CommandSteps, BeginCommandPass, Pull, EndPass, SkipCommand, RejectConflict,
        OutcomeUnknown, SettleBlocked, SettleTerminal
  <2>6. QED BY <2>1, <2>2, <2>3, <2>4, <2>5 DEF Next
<1>9. QED BY <1>2, <1>3, <1>4, <1>5, <1>6, <1>7, <1>8

\* Every step keeps the drain's snapshot of the outbox accurate: each receipt leaves the
\* snapshot in the step that settles it.
LEMMA DrainStep ==
    ASSUME IInv, [Next]_vars
    PROVE  DrainInv'
<1> USE DEF workerVars
<1>1. TypeOK /\ DrainInv
  BY DEF IInv
<1>2. CASE UNCHANGED <<workerVars, journal>>
  BY <1>1, <1>2 DEF DrainInv, Pending
<1>3. CASE pc' \notin {"unblock", "drain", "submitting"}
  BY <1>3 DEF DrainInv
<1>4. CASE pc' = "unblock" /\ next' # "none"
  BY <1>4 DEF DrainInv
<1>5. CASE BeginReceiptPass \/ BlockedDone
  BY <1>1, <1>5 DEF BeginReceiptPass, BlockedDone, DrainInv, Pending
<1>6. ASSUME NEW c \in CommandIds,
             DrainUndeliverable(c) \/ DrainUnavailable(c) \/ SubmitAccepted(c)
      PROVE  DrainInv'
  <2>1. /\ toDrain' \subseteq Pending /\ c \notin toDrain'
        /\ pc' = "drain" /\ next' = next /\ next # "none"
    BY <1>1, <1>6 DEF DrainUndeliverable, DrainUnavailable, SubmitAccepted, DrainInv
  <2>2. \A d \in CommandIds \ {c} : journal'[d] = journal[d]
    BY <1>1, <1>6 DEF DrainUndeliverable, DrainUnavailable, SubmitAccepted, TypeOK, JournalOK
  <2>3. QED BY <2>1, <2>2 DEF DrainInv, Pending
<1>7. ASSUME NEW c \in CommandIds, NEW arrives \in BOOLEAN, DrainSubmit(c, arrives)
      PROVE  DrainInv'
  BY <1>1, <1>7 DEF DrainSubmit, DrainInv, Pending
<1>8. CASE SubmitFailed
  BY <1>1, <1>8 DEF SubmitFailed, DrainInv, Pending
<1>9. CASE SettleTerminal
  <2> DEFINE k == IdOf[cur]
  <2>1. /\ pc' = "drain" /\ next' = "command" /\ k \in CommandIds
        /\ journal[k].state \in ActiveState
    BY <1>9, EnvelopesAssumption
    DEF EnvelopesAssumption, SettleTerminal, IInv, CursorInv
  <2>2. /\ \A d \in CommandIds \ {k} : journal'[d] = journal[d]
        /\ toDrain' \subseteq Pending \union {k}
        /\ k \in toDrain' => \/ k \in Pending
                             \/ journal'[k] = Terminal(journal[k], verdict, builds[cur] + 1)
    BY <1>1, <1>9, <2>1 DEF SettleTerminal, TypeOK, JournalOK
  <2>3. k \notin Pending
    BY <2>1 DEF Pending, ActiveState
  <2>4. /\ Terminal(journal[k], verdict, builds[cur] + 1).state = "terminal"
        /\ Terminal(journal[k], verdict, builds[cur] + 1).outbox = "pending"
    BY <1>1, <2>1 DEF Terminal, TypeOK, JournalOK, Entry
  <2>5. toDrain' \subseteq Pending'
    BY <2>1, <2>2, <2>3, <2>4 DEF Pending
  <2>6. QED BY <2>1, <2>5 DEF DrainInv
<1>10. ASSUME NEW c \in CommandIds, RecoverBlocked(c) PROVE DrainInv'
  BY <1>1, <1>10 DEF RecoverBlocked, DrainInv
<1>11. \/ UNCHANGED <<workerVars, journal>>
       \/ pc' \notin {"unblock", "drain", "submitting"}
       \/ pc' = "unblock" /\ next' # "none"
       \/ BeginReceiptPass \/ BlockedDone \/ SubmitFailed \/ SettleTerminal
       \/ \E c \in CommandIds : \/ DrainUndeliverable(c) \/ DrainUnavailable(c)
                                \/ SubmitAccepted(c) \/ RecoverBlocked(c)
                                \/ \E arrives \in BOOLEAN : DrainSubmit(c, arrives)
  <2>1. CASE UNCHANGED vars
    BY <2>1 DEF vars
  <2>2. CASE Environment
    BY <2>2 DEF Environment, Advance, SetBack, Unlink, Pair, Crash, Stop, WorkerLost
  <2>3. CASE StartSteps
    BY <2>3 DEF StartSteps, Start, RecoverStartup, StartupFrozen
  <2>4. CASE ReceiptSteps
    <3>1. CASE DrainDone
      BY <1>1, <3>1 DEF DrainDone, AfterDrain, DrainInv, TypeOK, WorkerOK
    <3>2. QED BY <2>4, <3>1 DEF ReceiptSteps
  <2>5. CASE CommandSteps
    BY <2>5
    DEF CommandSteps, BeginCommandPass, Pull, EndPass, SkipCommand, RejectConflict,
        Claim, Finalize, DriverResult, StartDispatch, Release, OutcomeUnknown, SettleBlocked
  <2>6. QED BY <2>1, <2>2, <2>3, <2>4, <2>5 DEF Next
<1>12. QED BY <1>2, <1>3, <1>4, <1>5, <1>6, <1>7, <1>8, <1>9, <1>10, <1>11

-----------------------------------------------------------------------------
(* The life of a journal entry *)

Kept(c)      == journal'[c] = journal[c]
Forgotten(c) == /\ Present(c)
                /\ RetainedThrough(journal[c]) < now
                /\ journal'[c] = NoEntry
                /\ dispatches' = dispatches
Opened(c)    == /\ ~Present(c)
                /\ journal'[c].state = "claimed"
                /\ dispatches' = dispatches
                /\ \E e \in Envelopes : Claim(e) /\ IdOf[e] = c /\ journal'[c].env = e
Moved(c)     == /\ journal[c].state \in ActiveState
                /\ journal'[c].state \in {"dispatch_started", "outcome_unknown"}
                /\ journal'[c].env = journal[c].env
Settled(c)   == /\ journal[c].state \in ActiveState
                /\ journal'[c].state \in TerminalState
                /\ journal'[c].env = journal[c].env
                /\ pc = "settle" /\ c = IdOf[cur]
                /\ journal'[c].result = verdict
Delivered(c) == /\ journal[c].state \in TerminalState
                /\ journal'[c].state \in TerminalState
                /\ journal'[c].env = journal[c].env
                /\ journal'[c].result = journal[c].result
                /\ journal[c].state = "terminal" =>
                      journal'[c].state = "terminal" /\ journal'[c].body = journal[c].body

\* In one step an entry is kept, forgotten after its retention, opened by a
\* claim, moved between uncertain states, settled with the worker's verdict, or
\* has its receipt built or marked, and nothing else.
LEMMA EntryStep ==
    ASSUME IInv, [Next]_vars, NEW c \in CommandIds
    PROVE  Kept(c) \/ Forgotten(c) \/ Opened(c) \/ Moved(c) \/ Settled(c) \/ Delivered(c)
<1>1. /\ TypeOK /\ journal \in [CommandIds -> Entry]
      /\ journal[c] \in Entry /\ WellFormed(c, journal[c])
  BY DEF IInv, TypeOK, JournalOK
<1> DEFINE k == IdOf[cur]
<1>2. pc \in {"route", "release", "executing", "settle"} =>
          k \in CommandIds /\ journal[k].state \in ActiveState
  BY EnvelopesAssumption DEF EnvelopesAssumption, IInv, CursorInv
<1>3. CASE UNCHANGED journal
  BY <1>3 DEF Kept
<1>4. CASE Stop \/ RecoverStartup
  <2>1. journal'[c] = OrphansRecovered[c]
    BY <1>4 DEF Stop, RecoverStartup
  <2>2. CASE journal[c].state \in ActiveState
    BY <1>1, <2>1, <2>2 DEF OrphansRecovered, Moved, Entry
  <2>3. CASE journal[c].state \notin ActiveState
    BY <2>1, <2>3 DEF OrphansRecovered, Kept
  <2>4. QED BY <2>2, <2>3
<1>5. ASSUME NEW d \in CommandIds, RecoverBlocked(d) PROVE Kept(c) \/ Delivered(c)
  <2>1. CASE d # c
    BY <1>1, <1>5, <2>1 DEF RecoverBlocked, Kept
  <2>2. CASE d = c
    <3>1. /\ journal[c].state = "terminal_receipt_blocked"
          /\ journal'[c] = Terminal(journal[c], journal[c].result, builds[journal[c].env] + 1)
      BY <1>1, <1>5, <2>2 DEF RecoverBlocked, Recoverable
    <3>2. QED BY <1>1, <3>1 DEF Terminal, Delivered, TerminalState, Entry
  <2>3. QED BY <2>1, <2>2
<1>6. ASSUME NEW d \in CommandIds, DrainUndeliverable(d) \/ SubmitAccepted(d)
      PROVE  Kept(c) \/ Delivered(c)
  <2>1. CASE d # c
    BY <1>1, <1>6, <2>1 DEF DrainUndeliverable, SubmitAccepted, Kept
  <2>2. CASE d = c
    <3>1. journal[c].state = "terminal"
      BY <1>6, <2>2 DEF DrainUndeliverable, SubmitAccepted, IInv, DrainInv, Pending
    <3>2. /\ journal'[c].state = journal[c].state
          /\ journal'[c].env = journal[c].env
          /\ journal'[c].result = journal[c].result
          /\ journal'[c].body = journal[c].body
      BY <1>1, <1>6, <2>2 DEF DrainUndeliverable, SubmitAccepted, Entry
    <3>3. QED BY <3>1, <3>2 DEF Delivered, TerminalState
  <2>3. QED BY <2>1, <2>2
<1>7. CASE DrainDone /\ Prune
  BY <1>7 DEF Prune, DrainDone, PrunedJournal, Kept, Forgotten
<1>8. ASSUME NEW e \in Envelopes, Claim(e) PROVE Kept(c) \/ Opened(c)
  <2>1. CASE IdOf[e] # c
    BY <1>1, <1>8, <2>1 DEF Claim, Kept
  <2>2. CASE IdOf[e] = c
    <3>1. ~Present(c) /\ journal'[c] = Claimed(e) /\ dispatches' = dispatches
      BY <1>1, <1>8, <2>2 DEF Claim, Duplicate, Conflict
    <3>2. QED BY <1>8, <2>2, <3>1 DEF Opened, Claimed
  <2>3. QED BY <2>1, <2>2
<1>9. CASE StartDispatch \/ OutcomeUnknown
  <2>1. PICK s \in {"dispatch_started", "outcome_unknown"} :
            journal' = [journal EXCEPT ![k] = [journal[k] EXCEPT !.state = s]]
    BY <1>9 DEF StartDispatch, OutcomeUnknown
  <2>2. journal[k].state \in ActiveState
    BY <1>2, <1>9 DEF StartDispatch, OutcomeUnknown
  <2>3. CASE k # c
    BY <1>1, <2>1, <2>3 DEF Kept
  <2>4. CASE k = c
    BY <1>1, <2>1, <2>2, <2>4 DEF Moved, Entry
  <2>5. QED BY <2>3, <2>4
<1>10. CASE SettleBlocked \/ SettleTerminal
  <2>1. pc = "settle" /\ journal[k].state \in ActiveState
    BY <1>2, <1>10 DEF SettleBlocked, SettleTerminal
  <2>2. PICK entry \in {Blocked(journal[k], verdict), Terminal(journal[k], verdict, builds[cur] + 1)} :
            journal' = [journal EXCEPT ![k] = entry]
    BY <1>10 DEF SettleBlocked, SettleTerminal
  <2>3. CASE k # c
    BY <1>1, <2>2, <2>3 DEF Kept
  <2>4. CASE k = c
    <3>1. journal'[c] = entry
      BY <1>1, <2>2, <2>4
    <3>2. entry.state \in TerminalState /\ entry.env = journal[c].env /\ entry.result = verdict
      BY <1>1, <2>2, <2>4 DEF Blocked, Terminal, TerminalState, Entry
    <3>3. QED BY <2>1, <2>4, <3>1, <3>2 DEF Settled
  <2>5. QED BY <2>3, <2>4
<1>11. QED BY <1>3, <1>4, <1>5, <1>6, <1>7, <1>8, <1>9, <1>10, JournalWriters

\* A result recorded for a command outlasts the command's own life.
LEMMA RetainedStep ==
    ASSUME IInv, [Next]_vars
    PROVE  RetainedInv'
<1> SUFFICES ASSUME NEW c \in CommandIds, journal'[c].state \in TerminalState
             PROVE  ExpiresAt[journal'[c].env] + ClockSkew
                        <= journal'[c].result.updatedAt + ReceiptRetention
  BY DEF RetainedInv
<1>1. CASE Kept(c) \/ Delivered(c)
  BY <1>1 DEF Kept, Delivered, IInv, RetainedInv
<1>2. CASE Settled(c)
  BY <1>2 DEF Settled, IInv, CursorInv
<1>3. ~(Forgotten(c) \/ Opened(c) \/ Moved(c))
  BY DEF Forgotten, Opened, Moved, NoEntry, TerminalState
<1>4. QED BY <1>1, <1>2, <1>3, EntryStep

\* The only step that releases a command to the agent.
LEMMA Releases ==
    ASSUME [Next]_vars
    PROVE  dispatches' = dispatches \/ Release
BY DEF Next, vars, Environment, StartSteps, ReceiptSteps, CommandSteps,
       Advance, SetBack, Unlink, Pair, Crash, Stop, Start, RecoverStartup,
       StartupFrozen, BeginReceiptPass, RecoverBlocked, DrainUndeliverable,
       DrainUnavailable, DrainSubmit, SubmitAccepted, BlockedDone, SubmitFailed,
       DrainDone, BeginCommandPass, Pull, EndPass, SkipCommand, RejectConflict,
       Claim, Finalize, DriverResult, StartDispatch, OutcomeUnknown,
       SettleBlocked, SettleTerminal

\* A command that was released stays in the journal until it has expired for
\* every clock within the skew.
LEMMA JournaledStep ==
    ASSUME IInv, [Next]_vars
    PROVE  JournaledInv'
<1> USE RetentionAssumption, EnvelopesAssumption
    DEF RetentionAssumption, EnvelopesAssumption
<1>1. TypeOK /\ ClockOK /\ ClockOK' /\ maxNow' >= maxNow
  BY ClockStep DEF IInv, TypeOK
<1> SUFFICES ASSUME NEW e \in Envelopes, dispatches'[e] > 0
             PROVE  \/ /\ journal'[IdOf[e]].env = e
                       /\ journal'[IdOf[e]].state \notin {"absent", "claimed"}
                    \/ maxNow' > ExpiresAt[e] + ClockSkew
  BY DEF JournaledInv
<1> DEFINE c == IdOf[e]
<1>2. c \in CommandIds
  OBVIOUS
<1>3. CASE Release
  <2>1. /\ journal' = journal /\ pc = "release" /\ maxNow' = maxNow
        /\ dispatches' = [dispatches EXCEPT ![cur] = @ + 1]
    BY <1>3 DEF Release, clockVars
  <2>2. CASE e = cur
    BY <2>1, <2>2 DEF IInv, CursorInv
  <2>3. CASE e # cur
    BY <1>1, <2>1, <2>3 DEF IInv, JournaledInv, TypeOK, HistoryOK
  <2>4. QED BY <2>2, <2>3
<1>4. CASE dispatches' = dispatches
  <2>1. \/ journal[c].env = e /\ journal[c].state \notin {"absent", "claimed"}
        \/ maxNow > ExpiresAt[e] + ClockSkew
    BY <1>4 DEF IInv, JournaledInv
  <2>2. CASE maxNow > ExpiresAt[e] + ClockSkew
    BY <1>1, <2>2 DEF ClockOK
  <2>3. CASE journal[c].env = e /\ journal[c].state \notin {"absent", "claimed"}
    <3>1. CASE Kept(c) \/ Moved(c) \/ Settled(c) \/ Delivered(c)
      BY <2>3, <3>1 DEF Kept, Moved, Settled, Delivered, TerminalState
    <3>2. CASE Opened(c)
      BY <2>3, <3>2 DEF Opened, Present
    <3>3. CASE Forgotten(c)
      <4>1. journal[c] \in Entry
        BY <1>1, <1>2 DEF TypeOK, JournalOK
      <4>2. RetainedThrough(journal[c]) >= ExpiresAt[e] + ClockSkew
        <5>1. CASE journal[c].state \in UncertainState
          BY <2>3, <5>1 DEF RetainedThrough
        <5>2. CASE journal[c].state \notin UncertainState
          <6>1. journal[c].state \in TerminalState
            BY <2>3, <4>1, <5>2 DEF Entry
          <6>2. /\ RetainedThrough(journal[c]) = journal[c].result.updatedAt + ReceiptRetention
                /\ journal[c].result.updatedAt \in Nat
            BY <4>1, <5>2 DEF RetainedThrough, Entry, Result
          <6>3. QED BY <1>2, <2>3, <6>1, <6>2 DEF IInv, RetainedInv
        <5>3. QED BY <5>1, <5>2
      <4>3. RetainedThrough(journal[c]) \in Int
        BY <2>3, <4>1 DEF RetainedThrough, Entry, Result
      <4>4. maxNow > ExpiresAt[e] + ClockSkew
        BY <1>1, <3>3, <4>2, <4>3 DEF Forgotten, ClockOK
      <4>5. QED BY <1>1, <4>4 DEF ClockOK
    <3>4. QED BY <1>2, <3>1, <3>2, <3>3, EntryStep
  <2>4. QED BY <2>1, <2>2, <2>3
<1>5. QED BY <1>3, <1>4, Releases

\* No command is released a second time.
LEMMA OnceStep ==
    ASSUME IInv, [Next]_vars
    PROVE  AtMostOnceDispatch'
<1>1. TypeOK /\ AtMostOnceDispatch
  BY DEF IInv
<1>2. CASE dispatches' = dispatches
  BY <1>1, <1>2 DEF AtMostOnceDispatch
<1>3. CASE Release
  <2>1. /\ pc = "release"
        /\ dispatches' = [dispatches EXCEPT ![cur] = @ + 1]
    BY <1>3 DEF Release
  <2>2. cur \in Envelopes /\ dispatches[cur] = 0
    BY <2>1 DEF IInv, CursorInv
  <2>3. QED BY <1>1, <2>1, <2>2 DEF AtMostOnceDispatch, TypeOK, HistoryOK
<1>4. QED BY <1>2, <1>3, Releases

-----------------------------------------------------------------------------
(* The theorems *)

\* The pipeline starts in the invariant.
LEMMA InitInvariant ==
    ASSUME Init
    PROVE  IInv
<1> USE EnvelopesAssumption, PinsAssumption, RetentionAssumption, BoundsAssumption
    DEF EnvelopesAssumption, PinsAssumption, RetentionAssumption, BoundsAssumption,
        Init
<1>1. NoResult \in Result /\ NoEntry \in Entry
  BY DEF NoResult, Result, NoEntry, Entry
<1>2. JournalOK(journal)
  BY <1>1 DEF JournalOK, WellFormed, NoEntry, NoResult, TerminalState
<1>3. ClockOK /\ LinksOK
  BY DEF ClockOK, LinksOK, Pin, PinStatus
<1>4. WorkerOK
  BY <1>1 DEF WorkerOK, PcValues
<1>5. HistoryOK
  <2>1. 0 \in 0..MaxBuilds
    OBVIOUS
  <2>2. builds \in [Envelopes -> 0..MaxBuilds] /\ dispatches \in [Envelopes -> Nat]
    BY <2>1
  <2>3. receipts \in [Envelopes -> SUBSET Receipt]
    OBVIOUS
  <2>4. crashes \in Nat /\ thawed \in BOOLEAN
    OBVIOUS
  <2>5. QED BY <2>2, <2>3, <2>4 DEF HistoryOK
<1>6. CursorInv /\ DrainInv /\ RetainedInv /\ JournaledInv /\ AtMostOnceDispatch
  BY DEF CursorInv, DrainInv, RetainedInv, JournaledInv, AtMostOnceDispatch,
         NoEntry, TerminalState
<1>7. QED BY <1>2, <1>3, <1>4, <1>5, <1>6 DEF IInv, TypeOK

\* The strengthened invariant holds in every reachable state, for every set of
\* commands, every clock within the skew and every bound.
THEOREM Invariance == Spec => []IInv
<1>1. Init => IInv
  BY InitInvariant
<1>2. IInv /\ [Next]_vars => IInv'
  BY TypeStep, CursorStep, DrainStep, RetainedStep, JournaledStep, OnceStep DEF IInv
<1>3. QED BY <1>1, <1>2, PTL DEF Spec

\* The pipeline's variables keep their types and the journal stays well formed
\* (assertCommandExecution never refuses what a transition writes).
THEOREM TypeCorrect == Spec => []TypeOK
<1>1. IInv => TypeOK
  BY DEF IInv
<1>2. QED BY <1>1, Invariance, PTL

\* A command is released to the agent at most once, however often the Relay
\* delivers it, the daemon crashes, the journal is pruned and the host clock is
\* corrected within the skew (claimCommandExecutionTransition,
\* commandExecutionRetainedThrough).
THEOREM NeverReplayed == Spec => []AtMostOnceDispatch
<1>1. IInv => AtMostOnceDispatch
  BY DEF IInv
<1>2. QED BY <1>1, Invariance, PTL

\* A command the agent has seen is in the journal, past "claimed", as long as
\* the present clock would still let it be prepared.
THEOREM DispatchesAreJournaled == Spec => []DispatchIsJournaled
<1>1. IInv => DispatchIsJournaled
  BY RetentionAssumption, EnvelopesAssumption
  DEF RetentionAssumption, EnvelopesAssumption, IInv, JournaledInv, TypeOK,
      ClockOK, DispatchIsJournaled
<1>2. QED BY <1>1, Invariance, PTL

\* A recorded result, or a recorded doubt, is never revised: the entry changes
\* only in its delivery, until its retention is over.
THEOREM OutcomesAreFinal == Spec => OutcomeIsFinal
<1>1. IInv /\ [Next]_vars => [\A c \in CommandIds : OutcomeKept(c)]_vars
  <2> SUFFICES ASSUME IInv, [Next]_vars, NEW c \in CommandIds
               PROVE  OutcomeKept(c)
    OBVIOUS
  <2>1. CASE Kept(c) \/ Opened(c) \/ Moved(c) \/ Settled(c) \/ Delivered(c)
    BY <2>1
    DEF OutcomeKept, Kept, Opened, Moved, Settled, Delivered, Present, ActiveState,
        TerminalState
  <2>2. CASE Forgotten(c)
    <3>1. RetainedThrough(journal[c]) \in Int
      BY RetentionAssumption, EnvelopesAssumption
      DEF RetentionAssumption, EnvelopesAssumption, IInv, TypeOK, JournalOK,
          WellFormed, RetainedThrough, Entry, Result, UncertainState, ActiveState
    <3>2. QED BY <2>2, <3>1
      DEF OutcomeKept, Forgotten, RetainedThrough, UncertainState, ActiveState, TerminalState
  <2>3. QED BY <2>1, <2>2, EntryStep
<1>2. QED BY <1>1, Invariance, PTL DEF Spec, OutcomeIsFinal

-----------------------------------------------------------------------------
(* The receipts and the pins *)

\* The receipt that is submitted of an entry.
ReceiptOf(entry) == [body |-> entry.body, status |-> entry.result.status]

\* What the Relay holds of a command.
StoredInv ==
    \A e \in Envelopes : receipts[e] # {} =>
        \/ /\ journal[IdOf[e]].env = e
           /\ journal[IdOf[e]].state = "terminal"
           /\ receipts[e] = {ReceiptOf(journal[IdOf[e]])}
        \/ /\ journal[IdOf[e]].env # e
           /\ maxNow > ExpiresAt[e] + ClockSkew
           /\ \E r \in Receipt : receipts[e] = {r}

\* A status fits the number of times the command was released.
Truthful(released, status, e) ==
    /\ status \in {"executed", "failed"} => released[e] = 1
    /\ status = "expired" => released[e] = 0

\* What the worker knows of the command it releases and settles.
VerdictInv ==
    /\ pc = "executing" => dispatches[cur] = 1
    /\ pc = "settle" => Truthful(dispatches, verdict.status, cur)

\* What the journal and the Relay say of a command is true.
ResultInv ==
    /\ \A c \in CommandIds :
          journal[c].state \in TerminalState => Truthful(dispatches, journal[c].result.status, journal[c].env)
    /\ \A e \in Envelopes : \A r \in receipts[e] : Truthful(dispatches, r.status, e)

RInv == IInv /\ StoredInv /\ VerdictInv /\ ResultInv /\ ReferencedPinsAreKept

-----------------------------------------------------------------------------
(* The Relay's receipts *)

\* The only step that brings the Relay a receipt: the one of a pending entry.
LEMMA Submissions ==
    ASSUME IInv, [Next]_vars
    PROVE  \/ UNCHANGED receipts
           \/ \E c \in CommandIds :
                 /\ c \in Pending
                 /\ receipts' = [receipts EXCEPT ![journal[c].env] =
                                    @ \union {ReceiptOf(journal[c])}]
                 /\ UNCHANGED <<journal, dispatches, maxNow>>
<1>1. ASSUME NEW c \in CommandIds, DrainSubmit(c, TRUE)
      PROVE  /\ c \in Pending
             /\ receipts' = [receipts EXCEPT ![journal[c].env] =
                                @ \union {ReceiptOf(journal[c])}]
             /\ UNCHANGED <<journal, dispatches, maxNow>>
  BY <1>1 DEF DrainSubmit, IInv, DrainInv, ReceiptOf, clockVars
<1>2. UNCHANGED receipts \/ \E c \in CommandIds : DrainSubmit(c, TRUE)
  BY DEF Next, vars, Environment, StartSteps, ReceiptSteps, CommandSteps,
         Advance, SetBack, Unlink, Pair, Crash, Stop, Start, RecoverStartup,
         StartupFrozen, BeginReceiptPass, RecoverBlocked, DrainUndeliverable,
         DrainUnavailable, DrainSubmit, SubmitAccepted, BlockedDone, SubmitFailed,
         DrainDone, BeginCommandPass, Pull, EndPass, SkipCommand, RejectConflict,
         Claim, Finalize, DriverResult, StartDispatch, Release, OutcomeUnknown,
         SettleBlocked, SettleTerminal
<1> QED BY <1>1, <1>2

\* A forgotten command has expired on every clock within the skew.
LEMMA ForgottenIsExpired ==
    ASSUME IInv, [Next]_vars, NEW c \in CommandIds, Forgotten(c)
    PROVE  /\ journal[c].env \in Envelopes
           /\ maxNow' > ExpiresAt[journal[c].env] + ClockSkew
<1> USE RetentionAssumption, EnvelopesAssumption
    DEF RetentionAssumption, EnvelopesAssumption
<1>1. /\ TypeOK /\ ClockOK /\ ClockOK' /\ maxNow' >= maxNow
      /\ journal[c] \in Entry /\ WellFormed(c, journal[c])
  BY ClockStep DEF IInv, TypeOK, JournalOK
<1>2. journal[c].env \in Envelopes
  BY <1>1 DEF Forgotten, Present, WellFormed
<1>3. RetainedThrough(journal[c]) >= ExpiresAt[journal[c].env] + ClockSkew
  <2>1. CASE journal[c].state \in UncertainState
    BY <1>2, <2>1 DEF RetainedThrough
  <2>2. CASE journal[c].state \notin UncertainState
    <3>1. journal[c].state \in TerminalState
      BY <1>1, <2>2 DEF Entry, Forgotten, Present
    <3>2. QED BY <2>2, <3>1 DEF RetainedThrough, IInv, RetainedInv
  <2> QED BY <2>1, <2>2
<1>4. RetainedThrough(journal[c]) \in Int
  BY <1>1, <1>2 DEF RetainedThrough, Entry, Result
<1> QED BY <1>1, <1>2, <1>3, <1>4 DEF Forgotten, ClockOK

\* Every step keeps what the Relay holds in line with the journal.
LEMMA StoredStep ==
    ASSUME RInv, [Next]_vars
    PROVE  StoredInv'
<1> USE EnvelopesAssumption, RetentionAssumption DEF EnvelopesAssumption, RetentionAssumption
<1>1. /\ IInv /\ TypeOK /\ ClockOK /\ ClockOK' /\ maxNow' >= maxNow /\ StoredInv
      /\ receipts \in [Envelopes -> SUBSET Receipt]
      /\ journal \in [CommandIds -> Entry]
      /\ \A c \in CommandIds : WellFormed(c, journal[c])
  BY ClockStep DEF RInv, IInv, TypeOK, JournalOK, HistoryOK
<1> SUFFICES ASSUME NEW e \in Envelopes, receipts'[e] # {}
             PROVE  \/ /\ journal'[IdOf[e]].env = e
                       /\ journal'[IdOf[e]].state = "terminal"
                       /\ receipts'[e] = {ReceiptOf(journal'[IdOf[e]])}
                    \/ /\ journal'[IdOf[e]].env # e
                       /\ maxNow' > ExpiresAt[e] + ClockSkew
                       /\ \E r \in Receipt : receipts'[e] = {r}
  BY DEF StoredInv
<1> DEFINE k == IdOf[e]
<1>2. k \in CommandIds
  OBVIOUS
<1>3. ASSUME NEW c \in CommandIds, c \in Pending,
             receipts' = [receipts EXCEPT ![journal[c].env] = @ \union {ReceiptOf(journal[c])}],
             UNCHANGED <<journal, dispatches, maxNow>>
      PROVE  \/ receipts'[e] = receipts[e]
             \/ /\ journal[k].env = e /\ journal[k].state = "terminal"
                /\ receipts'[e] = {ReceiptOf(journal[k])}
  <2>1. CASE journal[c].env # e
    BY <1>1, <1>3, <2>1
  <2>2. CASE journal[c].env = e
    <3>1. c = k /\ journal[k].state = "terminal"
      BY <1>1, <1>3, <2>2 DEF Pending, WellFormed
    <3>2. receipts[e] \subseteq {ReceiptOf(journal[k])}
      BY <1>1, <2>2, <3>1 DEF StoredInv
    <3> QED BY <1>1, <1>3, <2>2, <3>1, <3>2
  <2> QED BY <2>1, <2>2
<1>4. CASE ~ UNCHANGED receipts
  <2>1. UNCHANGED <<journal, maxNow>>
    BY <1>1, <1>4, Submissions
  <2>2. \/ receipts'[e] = receipts[e]
        \/ /\ journal[k].env = e /\ journal[k].state = "terminal"
           /\ receipts'[e] = {ReceiptOf(journal[k])}
    BY <1>1, <1>3, <1>4, Submissions
  <2> QED BY <1>1, <2>1, <2>2 DEF StoredInv
<1>5. CASE UNCHANGED receipts
  <2>1. CASE journal[k].env = e /\ journal[k].state = "terminal"
             /\ receipts[e] = {ReceiptOf(journal[k])}
    <3>1. CASE Kept(k) \/ Delivered(k)
      BY <1>5, <2>1, <3>1 DEF Kept, Delivered, ReceiptOf
    <3>2. CASE Forgotten(k)
      <4>1. maxNow' > ExpiresAt[e] + ClockSkew /\ journal'[k].env = NoEnvelope
        BY <1>1, <1>2, <2>1, <3>2, ForgottenIsExpired DEF Forgotten, NoEntry
      <4>2. ReceiptOf(journal[k]) \in Receipt
        BY <1>1, <2>1
      <4> QED BY <1>5, <2>1, <4>1, <4>2
    <3>3. ~(Opened(k) \/ Moved(k) \/ Settled(k))
      BY <2>1 DEF Opened, Moved, Settled, Present, ActiveState
    <3> QED BY <1>1, <1>2, <3>1, <3>2, <3>3, EntryStep
  <2>2. CASE /\ journal[k].env # e
             /\ maxNow > ExpiresAt[e] + ClockSkew
             /\ \E r \in Receipt : receipts[e] = {r}
    <3>1. maxNow' > ExpiresAt[e] + ClockSkew
      BY <1>1, <2>2 DEF ClockOK
    <3>2. journal'[k].env # e
      <4>1. CASE Kept(k) \/ Moved(k) \/ Settled(k) \/ Delivered(k)
        BY <2>2, <4>1 DEF Kept, Moved, Settled, Delivered
      <4>2. CASE Forgotten(k)
        BY <4>2 DEF Forgotten, NoEntry
      <4>3. CASE Opened(k)
        <5>1. PICK f \in Envelopes : Claim(f) /\ journal'[k].env = f
          BY <4>3 DEF Opened
        <5>2. ExpiresAt[f] > now
          BY <5>1 DEF Claim, Prepared
        <5> QED BY <1>1, <2>2, <5>1, <5>2 DEF ClockOK
      <4> QED BY <1>1, <1>2, <4>1, <4>2, <4>3, EntryStep
    <3> QED BY <1>5, <2>2, <3>1, <3>2
  <2> QED BY <1>1, <1>5, <2>1, <2>2 DEF StoredInv
<1> QED BY <1>4, <1>5

-----------------------------------------------------------------------------
(* The truth of a result *)

\* Releasing a command makes no result of another command untrue, and of the
\* command itself there is none yet.
LEMMA TruthIsStable ==
    ASSUME RInv, [Next]_vars, NEW e \in Envelopes, NEW status, Truthful(dispatches, status, e),
           ~(pc = "release" /\ e = cur)
    PROVE  Truthful(dispatches', status, e)
<1>1. CASE UNCHANGED dispatches
  BY <1>1 DEF Truthful
<1>2. CASE Release
  <2>1. dispatches'[e] = dispatches[e]
    BY <1>2 DEF Release, RInv, IInv, TypeOK, HistoryOK
  <2> QED BY <2>1 DEF Truthful
<1> QED BY <1>1, <1>2, Releases

\* What the worker holds when it waits for the driver, and when it settles.
LEMMA VerdictStep ==
    ASSUME RInv, [Next]_vars
    PROVE  VerdictInv'
<1>1. /\ IInv /\ VerdictInv /\ TypeOK /\ CursorInv
      /\ dispatches \in [Envelopes -> Nat]
  BY DEF RInv, IInv, TypeOK, HistoryOK
<1>2. CASE pc' \notin {"executing", "settle"}
  BY <1>2 DEF VerdictInv
<1>3. CASE UNCHANGED <<workerVars, dispatches>>
  BY <1>1, <1>3 DEF VerdictInv, Truthful, workerVars
<1>4. CASE Release
  BY <1>1, <1>4 DEF Release, CursorInv, VerdictInv
<1>5. ASSUME NEW status \in ResultStatus, Finalize(status) PROVE VerdictInv'
  <2>1. /\ pc = "route" /\ pc' = "settle" /\ verdict'.status = status
        /\ status \in {"expired", "rejected"}
        /\ UNCHANGED <<cur, dispatches>>
    BY <1>5 DEF Finalize
  <2>2. dispatches[cur] = 0
    BY <1>1, <2>1 DEF CursorInv
  <2> QED BY <2>1, <2>2 DEF VerdictInv, Truthful
<1>6. ASSUME NEW status \in ResultStatus, DriverResult(status) PROVE VerdictInv'
  <2>1. /\ pc = "executing" /\ pc' = "settle" /\ verdict'.status = status
        /\ status \in {"executed", "rejected", "failed"}
        /\ UNCHANGED <<cur, dispatches>>
    BY <1>6 DEF DriverResult
  <2>2. dispatches[cur] = 1
    BY <1>1, <2>1 DEF VerdictInv
  <2> QED BY <2>1, <2>2 DEF VerdictInv, Truthful
<1>7. \/ pc' \notin {"executing", "settle"}
      \/ UNCHANGED <<workerVars, dispatches>>
      \/ Release
      \/ \E status \in ResultStatus : Finalize(status) \/ DriverResult(status)
  <2> USE DEF workerVars
  <2>1. CASE UNCHANGED vars
    BY <2>1 DEF vars
  <2>2. CASE Environment
    BY <2>2 DEF Environment, Advance, SetBack, Unlink, Pair, Crash, Stop, WorkerLost
  <2>3. CASE StartSteps
    BY <2>3 DEF StartSteps, Start, RecoverStartup, StartupFrozen
  <2>4. CASE ReceiptSteps
    <3>1. CASE DrainDone
      BY <1>1, <3>1 DEF DrainDone, AfterDrain, IInv, DrainInv, TypeOK, WorkerOK
    <3>2. CASE ~DrainDone
      BY <2>4, <3>2
      DEF ReceiptSteps, BeginReceiptPass, RecoverBlocked, DrainUndeliverable,
          DrainUnavailable, DrainSubmit, SubmitAccepted, BlockedDone, SubmitFailed
    <3> QED BY <3>1, <3>2
  <2>5. CASE CommandSteps
    BY <2>5
    DEF CommandSteps, BeginCommandPass, Pull, EndPass, SkipCommand, RejectConflict,
        Claim, StartDispatch, OutcomeUnknown, SettleBlocked, SettleTerminal
  <2> QED BY <2>1, <2>2, <2>3, <2>4, <2>5 DEF Next
<1> QED BY <1>2, <1>3, <1>4, <1>5, <1>6, <1>7

\* Every step keeps the results of the journal and of the Relay true.
LEMMA ResultStep ==
    ASSUME RInv, [Next]_vars
    PROVE  ResultInv'
<1> USE EnvelopesAssumption DEF EnvelopesAssumption
<1>1. /\ IInv /\ StoredInv /\ VerdictInv /\ ResultInv /\ CursorInv
      /\ journal \in [CommandIds -> Entry]
      /\ \A c \in CommandIds : WellFormed(c, journal[c])
      /\ receipts \in [Envelopes -> SUBSET Receipt]
  BY DEF RInv, IInv, TypeOK, JournalOK, HistoryOK
<1>2. pc = "release" => /\ cur \in Envelopes /\ IdOf[cur] \in CommandIds
                        /\ journal[IdOf[cur]].env = cur
                        /\ journal[IdOf[cur]].state \in ActiveState
  BY <1>1 DEF CursorInv
<1>3. \A c \in CommandIds : journal[c].state \in TerminalState =>
          /\ journal[c].env \in Envelopes
          /\ ~(pc = "release" /\ journal[c].env = cur)
  BY <1>1, <1>2 DEF WellFormed, TerminalState, ActiveState
<1>4. ASSUME NEW c \in CommandIds, journal'[c].state \in TerminalState
      PROVE  Truthful(dispatches', journal'[c].result.status, journal'[c].env)
  <2>1. CASE Kept(c) \/ Delivered(c)
    <3>1. /\ journal[c].state \in TerminalState
          /\ journal'[c].result = journal[c].result /\ journal'[c].env = journal[c].env
      BY <1>4, <2>1 DEF Kept, Delivered
    <3>2. Truthful(dispatches, journal[c].result.status, journal[c].env)
      BY <1>1, <3>1 DEF ResultInv
    <3>3. Truthful(dispatches', journal[c].result.status, journal[c].env)
      BY <1>3, <3>1, <3>2, TruthIsStable
    <3> QED BY <3>1, <3>3
  <2>2. CASE Settled(c)
    <3>1. /\ pc = "settle" /\ journal'[c].result = verdict /\ cur \in Envelopes
          /\ journal'[c].env = cur
      BY <1>1, <2>2 DEF Settled, CursorInv
    <3>2. Truthful(dispatches, verdict.status, cur)
      BY <1>1, <3>1 DEF VerdictInv
    <3>3. UNCHANGED dispatches
      BY <3>1, Releases DEF Release
    <3> QED BY <3>1, <3>2, <3>3 DEF Truthful
  <2>3. ~(Forgotten(c) \/ Opened(c) \/ Moved(c))
    BY <1>4 DEF Forgotten, Opened, Moved, NoEntry, TerminalState
  <2> QED BY <1>1, <2>1, <2>2, <2>3, EntryStep
<1>5. ASSUME NEW e \in Envelopes, NEW r \in receipts'[e]
      PROVE  Truthful(dispatches', r.status, e)
  <2>1. CASE r \in receipts[e]
    <3>1. ~(pc = "release" /\ e = cur)
      BY <1>1, <1>2, <2>1 DEF StoredInv, ActiveState
    <3>2. Truthful(dispatches, r.status, e)
      BY <1>1, <2>1 DEF ResultInv
    <3> QED BY <3>1, <3>2, TruthIsStable
  <2>2. CASE r \notin receipts[e]
    <3>1. PICK c \in CommandIds :
              /\ c \in Pending
              /\ receipts' = [receipts EXCEPT ![journal[c].env] = @ \union {ReceiptOf(journal[c])}]
              /\ UNCHANGED <<journal, dispatches, maxNow>>
      BY <1>1, <2>2, Submissions
    <3>2. r = ReceiptOf(journal[c]) /\ journal[c].env = e
      BY <1>1, <1>5, <2>2, <3>1
    <3>3. Truthful(dispatches, journal[c].result.status, e)
      BY <1>1, <3>1, <3>2 DEF ResultInv, Pending, TerminalState
    <3> QED BY <3>1, <3>2, <3>3 DEF ReceiptOf, Truthful
  <2> QED BY <2>1, <2>2
<1> QED BY <1>4, <1>5 DEF ResultInv, Truthful

-----------------------------------------------------------------------------
(* The pins *)

\* What a step may do with a pin: nothing deletes one but the end of a drain.
LEMMA PinChanges ==
    ASSUME TypeOK, [Next]_vars, NEW p \in Pins,
           pins[p].status \notin {"unpaired", "pruned"},
           pins'[p].status \in {"unpaired", "pruned"}
    PROVE  /\ Prune
           /\ \A c \in CommandIds :
                 PrunedJournal[c].state # "absent" /\ PinOf[PrunedJournal[c].env] = p
                    => ~(RetainedThrough(PrunedJournal[c]) >= now)
<1>1. pins'[p] # pins[p]
  OBVIOUS
<1>2. ASSUME NEW q \in Pins, Pair(q) PROVE FALSE
  BY <1>2 DEF Pair
<1>3. CASE pins' = ReconciledPins
  BY <1>3 DEF ReconciledPins
<1>4. CASE Prune
  <2>1. PICK held \in SUBSET Pins : pins' = PrunedPins(PrunedJournal, held)
    BY <1>4 DEF Prune
  <2> QED BY <1>1, <1>4, <2>1 DEF PrunedPins
<1>5. \/ UNCHANGED pins
      \/ \E q \in Pins : Pair(q)
      \/ pins' = ReconciledPins \/ Prune
  BY DEF Next, vars, Environment, StartSteps, ReceiptSteps, CommandSteps,
         Advance, SetBack, Unlink, Crash, Stop, Start, RecoverStartup, StartupFrozen,
         BeginReceiptPass, RecoverBlocked, DrainUndeliverable, DrainUnavailable,
         DrainSubmit, SubmitAccepted, BlockedDone, SubmitFailed, DrainDone,
         BeginCommandPass, Pull, EndPass, SkipCommand, RejectConflict, Claim,
         Finalize, DriverResult, StartDispatch, Release, OutcomeUnknown,
         SettleBlocked, SettleTerminal, RefreshAuthority
<1> QED BY <1>1, <1>2, <1>3, <1>4, <1>5

\* Every step keeps the pins that the journal refers to.
LEMMA PinsStep ==
    ASSUME RInv, [Next]_vars
    PROVE  ReferencedPinsAreKept'
<1> USE EnvelopesAssumption, RetentionAssumption DEF EnvelopesAssumption, RetentionAssumption
<1>1. /\ IInv /\ TypeOK /\ ReferencedPinsAreKept /\ ClockOK
      /\ journal \in [CommandIds -> Entry]
      /\ \A c \in CommandIds : WellFormed(c, journal[c])
  BY DEF RInv, IInv, TypeOK, JournalOK
<1> SUFFICES ASSUME NEW c \in CommandIds, Present(c)',
                    pins'[PinOf[journal'[c].env]].status \in {"unpaired", "pruned"}
             PROVE  FALSE
  BY DEF ReferencedPinsAreKept
<1> DEFINE p == PinOf[journal'[c].env]
<1>2. CASE Opened(c)
  <2>1. PICK e \in Envelopes : Claim(e) /\ journal'[c].env = e
    BY <1>2 DEF Opened
  <2>2. pins' = pins /\ pins[PinOf[e]].status \in {"active", "retiring"}
    BY <2>1 DEF Claim, Prepared, PinServes, Serves
  <2> QED BY <2>1, <2>2
<1>3. CASE Kept(c) \/ Moved(c) \/ Settled(c) \/ Delivered(c)
  <2>1. Present(c) /\ journal'[c].env = journal[c].env
    BY <1>3 DEF Kept, Moved, Settled, Delivered, Present, ActiveState, TerminalState
  <2>2. journal[c].env \in Envelopes /\ p \in Pins
    BY <1>1, <2>1 DEF Present, WellFormed
  <2>3. pins[p].status \notin {"unpaired", "pruned"}
    BY <1>1, <2>1 DEF ReferencedPinsAreKept
  <2>4. /\ journal' = PrunedJournal
        /\ ~(RetainedThrough(PrunedJournal[c]) >= now)
    BY <1>1, <2>2, <2>3, PinChanges DEF Present, Prune
  <2>5. PrunedJournal[c] = journal[c] /\ ~(RetainedThrough(journal[c]) < now)
    BY <2>1, <2>4 DEF PrunedJournal, Present, NoEntry
  <2>6. RetainedThrough(journal[c]) \in Int /\ now \in Int
    BY <1>1, <2>2 DEF RetainedThrough, Entry, Result, ClockOK
  <2> QED BY <2>4, <2>5, <2>6
<1>4. ~Forgotten(c)
  BY DEF Forgotten, Present, NoEntry
<1> QED BY <1>1, <1>2, <1>3, <1>4, EntryStep

-----------------------------------------------------------------------------
(* The theorems *)

\* The invariant of the receipts and the pins holds in every reachable state.
THEOREM ReceiptInvariance == Spec => []RInv
<1>1. Init => RInv
  <2> SUFFICES ASSUME Init PROVE RInv
    OBVIOUS
  <2>1. IInv
    BY InitInvariant
  <2>2. StoredInv /\ VerdictInv /\ ResultInv /\ ReferencedPinsAreKept
    BY DEF Init, StoredInv, VerdictInv, ResultInv, ReferencedPinsAreKept, NoEntry,
           Present, TerminalState
  <2> QED BY <2>1, <2>2 DEF RInv
<1>2. RInv /\ [Next]_vars => RInv'
  <2> SUFFICES ASSUME RInv, [Next]_vars PROVE RInv'
    OBVIOUS
  <2>1. IInv'
    BY TypeStep, CursorStep, DrainStep, RetainedStep, JournaledStep, OnceStep DEF RInv, IInv
  <2> QED BY <2>1, StoredStep, VerdictStep, ResultStep, PinsStep DEF RInv
<1> QED BY <1>1, <1>2, PTL DEF Spec

\* The Relay never holds two receipts of one command, for any number of crashes between
\* a submission and its acknowledgement (drainPendingCommandReceipts).
THEOREM ReceiptsAreUnique == Spec => []OneReceiptPerCommand
<1>1. RInv => OneReceiptPerCommand
  <2> SUFFICES ASSUME RInv, NEW e \in Envelopes PROVE Cardinality(receipts[e]) <= 1
    BY DEF OneReceiptPerCommand
  <2>1. receipts[e] = {} \/ \E r : receipts[e] = {r}
    BY DEF RInv, StoredInv
  <2>2. Cardinality(receipts[e]) \in {0, 1}
    BY <2>1, FS_EmptySet, FS_Singleton
  <2> QED BY <2>2
<1> QED BY <1>1, ReceiptInvariance, PTL

\* A receipt says what happened to its command, and there is none of a command whose
\* outcome is unknown (CommandRouter.handle, persistTerminalCommandResult).
THEOREM ReceiptsAreTrue == Spec => []ReceiptsTellTheTruth
<1>1. RInv => ReceiptsTellTheTruth
  <2> SUFFICES ASSUME RInv PROVE ReceiptsTellTheTruth
    OBVIOUS
  <2>1. ASSUME NEW c \in CommandIds, journal[c].state \in UncertainState
        PROVE  receipts[journal[c].env] = {}
    <3>1. journal[c].env \in Envelopes /\ IdOf[journal[c].env] = c
      BY <2>1 DEF RInv, IInv, TypeOK, JournalOK, WellFormed, UncertainState, ActiveState
    <3> QED BY <2>1, <3>1 DEF RInv, StoredInv, UncertainState, ActiveState
  <2> QED BY <2>1 DEF RInv, ResultInv, Truthful, ReceiptsTellTheTruth
<1> QED BY <1>1, ReceiptInvariance, PTL

\* The pin of an execution that is in the journal is in the keyring, revoked or not
\* (pruneCommandRuntime, pruneRetiring).
THEOREM PinsAreKept == Spec => []ReferencedPinsAreKept
<1>1. RInv => ReferencedPinsAreKept
  BY DEF RInv
<1> QED BY <1>1, ReceiptInvariance, PTL

-----------------------------------------------------------------------------
(***************************************************************************)
(* The commands the user runs.                                             *)
(***************************************************************************)

\* A list of steps has one of those.
Has(t, steps) == \E i \in 1 .. Len(t) : t[i] \in steps

\* The steps of the commands, by what the proof must know of them: the
\* initialisation of the Host,
HostSteps == {"host-init", "identity", "identity-config", "encryption"}
\* what a command begins with before it holds any lock,
Opening == {"unsupported", "detect", "stable-cli", "lock"}
\* what setups do and no other command does,
SetupSteps == {"detect", "stable-cli", "lock", "host-init", "installer", "bridge-service",
               "save-service", "start-if-down", "wait", "health", "adapter", "save-pi", "readiness"}
\* and all of them.
StepNames == ServiceSteps \cup SetupSteps \cup HostSteps \cup
    {"unsupported", "self-upgrade", "up-service", "converge-pi", "svc-install", "svc-uninstall",
     "svc-start", "svc-restart", "svc-stop", "pi-install", "pi-remove", "uninstall",
     "merge-service", "merge-no-service", "merge-pi", "merge-no-pi", "merge-dev",
     "save-uninstalled", "purge"}
\* A setup opens with these; a refused command with one of its own.
SetupPlan == <<"detect", "stable-cli", "lock", "host-init", "installer",
               "bridge-service", "wait", "health", "adapter", "readiness">>
Openings == {<<"unsupported">>, SetupPlan, Tail(SetupPlan), Tail(Tail(SetupPlan))}
\* A definition that is written is owed its record,
Commits == {"save-service", "merge-service"}
InstallSteps == {"write", "bootout", "bootstrap", "reload", "enable"}
\* and one that is removed is owed that its record is forgotten.
Forgets == {"merge-no-service", "save-uninstalled", "purge"}
RemovalDebts == {"remove"} \cup Forgets
RemovalSteps == {"bootout", "disable", "reload", "pi-remove"} \cup RemovalDebts
Debts == Commits \cup RemovalDebts

\* A list of steps that some command may have left: a commit is at most an
\* installation away and the write comes first; what a removal owes is at most a
\* removal away; the installer is recorded after the Host is there.
Shape(t) ==
    /\ t \in Openings \/ ~Has(t, Opening)
    /\ \A i \in 1 .. Len(t) :
        /\ t[i] \in Commits => \A j \in 1 .. (i - 1) : t[j] \in InstallSteps
        /\ t[i] = "write" => i = 1 /\ Has(t, Commits)
        /\ t[i] \in RemovalDebts => \A j \in 1 .. (i - 1) : t[j] \in RemovalSteps
        /\ t[i] = "installer" => \A j \in 1 .. (i - 1) : t[j] \in Opening \cup HostSteps
        /\ t[i] = "bridge-service" => i < Len(t)

\* A setup takes the steps of setups alone, and no other command takes one of them.
OtherSteps == {"up-service", "svc-install", "svc-uninstall", "uninstall", "merge-service"} \cup Forgets
Suits(t, cmd) ==
    /\ Has(t, SetupSteps) => cmd = "setup"
    /\ Has(t, OtherSteps) => cmd # "setup"

\* What is left of a list of steps when its first is done.
LEMMA TailIs ==
  ASSUME NEW t \in Seq(StepNames), t # <<>>
  PROVE  /\ Tail(t) \in Seq(StepNames) /\ Len(t) \in Nat \ {0} /\ Len(Tail(t)) = Len(t) - 1
         /\ \A i \in 1 .. Len(Tail(t)) : i + 1 \in 1 .. Len(t) /\ Tail(t)[i] = t[i + 1]
         /\ Head(t) = t[1] /\ Head(t) \in StepNames
  OBVIOUS

\* Only the first step is missing from the rest.
LEMMA TailHas ==
  ASSUME NEW t \in Seq(StepNames), t # <<>>, NEW S
  PROVE  /\ Has(Tail(t), S) => Has(t, S)
         /\ Has(t, S) => Head(t) \in S \/ Has(Tail(t), S)
<1>1. Has(Tail(t), S) => Has(t, S)
  BY TailIs DEF Has
<1>2. ASSUME Has(t, S), Head(t) \notin S PROVE Has(Tail(t), S)
  <2>1. PICK i \in 1 .. Len(t) : t[i] \in S
    BY <1>2 DEF Has
  <2>2. i - 1 \in 1 .. Len(Tail(t)) /\ Tail(t)[i - 1] = t[i]
    BY <2>1, <1>2, TailIs
  <2> QED BY <2>1, <2>2 DEF Has
<1> QED BY <1>1, <1>2

\* A list prepended to another: whose step is where.
LEMMA ConcatIs ==
  ASSUME NEW a \in Seq(StepNames), NEW r \in Seq(StepNames)
  PROVE  /\ a \o r \in Seq(StepNames) /\ Len(a) \in Nat /\ Len(r) \in Nat /\ Len(a \o r) = Len(a) + Len(r)
         /\ \A i \in 1 .. Len(a \o r) :
              \/ i \in 1 .. Len(a) /\ (a \o r)[i] = a[i]
              \/ i - Len(a) \in 1 .. Len(r) /\ (a \o r)[i] = r[i - Len(a)] /\ i > Len(a)
         /\ \A i \in 1 .. Len(a) : i \in 1 .. Len(a \o r) /\ (a \o r)[i] = a[i]
         /\ \A i \in 1 .. Len(r) : i + Len(a) \in 1 .. Len(a \o r) /\ (a \o r)[i + Len(a)] = r[i]
  OBVIOUS

\* What a concatenation has, one of its halves has.
LEMMA ConcatHas ==
  ASSUME NEW a \in Seq(StepNames), NEW r \in Seq(StepNames), NEW S
  PROVE  Has(a \o r, S) <=> Has(a, S) \/ Has(r, S)
<1>1. Has(a \o r, S) => Has(a, S) \/ Has(r, S)
  BY ConcatIs DEF Has
<1>2. Has(a, S) => Has(a \o r, S)
  BY ConcatIs DEF Has
<1>3. ASSUME Has(r, S) PROVE Has(a \o r, S)
  <2>1. PICK i \in 1 .. Len(r) : r[i] \in S
    BY <1>3 DEF Has
  <2>2. i + Len(a) \in 1 .. Len(a \o r) /\ (a \o r)[i + Len(a)] = r[i]
    BY ConcatIs
  <2> QED BY <2>1, <2>2 DEF Has
<1> QED BY <1>1, <1>2, <1>3

\* The rest of a list suits whoever the list suits.
LEMMA TailSuits ==
  ASSUME NEW t \in Seq(StepNames), t # <<>>, NEW cmd, Suits(t, cmd)
  PROVE  Suits(Tail(t), cmd)
  BY TailHas DEF Suits

\* So does a list that two such lists make up.
LEMMA ConcatSuits ==
  ASSUME NEW a \in Seq(StepNames), NEW r \in Seq(StepNames), NEW cmd, Suits(a, cmd), Suits(r, cmd)
  PROVE  Suits(a \o r, cmd)
  BY ConcatHas DEF Suits

\* A step that is no opening leaves a well-formed rest, and no opening in it.
LEMMA TailShape ==
  ASSUME NEW t \in Seq(StepNames), t # <<>>, Shape(t), Head(t) \notin Opening
  PROVE  Shape(Tail(t)) /\ ~Has(Tail(t), Opening)
<1> DEFINE r == Tail(t)
<1>1. ~Has(t, Opening)
  <2>1. t \notin Openings
    BY DEF Openings, SetupPlan, Opening
  <2> QED BY <2>1 DEF Shape
<1>2. ~Has(r, Opening)
  BY <1>1, TailHas
<1>3. ASSUME NEW i \in 1 .. Len(r), r[i] \in Commits, NEW j \in 1 .. (i - 1) PROVE r[j] \in InstallSteps
  BY <1>3, TailIs DEF Shape
<1>4. ASSUME NEW i \in 1 .. Len(r) PROVE r[i] # "write"
  BY <1>4, TailIs DEF Shape
<1>5. ASSUME NEW i \in 1 .. Len(r), r[i] \in RemovalDebts, NEW j \in 1 .. (i - 1) PROVE r[j] \in RemovalSteps
  BY <1>5, TailIs DEF Shape
<1>6. ASSUME NEW i \in 1 .. Len(r), r[i] = "installer", NEW j \in 1 .. (i - 1) PROVE r[j] \in Opening \cup HostSteps
  BY <1>6, TailIs DEF Shape
<1>7. ASSUME NEW i \in 1 .. Len(r), r[i] = "bridge-service" PROVE i < Len(r)
  BY <1>7, TailIs DEF Shape
<1> HIDE DEF r
<1>8. Shape(r)
  BY <1>2, <1>3, <1>4, <1>5, <1>6, <1>7 DEF Shape
<1> QED BY <1>2, <1>8 DEF r

\* Steps are only prepended to a rest that owes nothing; in front of the
\* installer's step only those of the Host's initialisation.
LEMMA Prepending ==
  ASSUME NEW a \in Seq(StepNames), NEW r \in Seq(StepNames), Shape(a), Shape(r), ~Has(a, Opening),
         ~Has(r, Opening \cup Debts \cup {"write"}),
         Has(r, {"installer"}) => \A i \in 1 .. Len(a) : a[i] \in HostSteps
  PROVE  Shape(a \o r) /\ ~Has(a \o r, Opening)
<1> DEFINE t == a \o r
<1>1. ~Has(t, Opening)
  BY ConcatHas DEF Has
<1>0. \A i \in 1 .. Len(r) : r[i] \notin Opening \cup Debts \cup {"write"}
  BY DEF Has
<1>2. ASSUME NEW i \in 1 .. Len(t), t[i] \in Commits, NEW j \in 1 .. (i - 1) PROVE t[j] \in InstallSteps
  BY <1>2, <1>0, ConcatIs DEF Shape, Debts
<1>3. ASSUME NEW i \in 1 .. Len(t), t[i] = "write" PROVE i = 1 /\ Has(t, Commits)
  BY <1>3, <1>0, ConcatIs, ConcatHas DEF Shape
<1>4. ASSUME NEW i \in 1 .. Len(t), t[i] \in RemovalDebts, NEW j \in 1 .. (i - 1) PROVE t[j] \in RemovalSteps
  BY <1>4, <1>0, ConcatIs DEF Shape, Debts
<1>5. ASSUME NEW i \in 1 .. Len(t), t[i] = "installer", NEW j \in 1 .. (i - 1) PROVE t[j] \in Opening \cup HostSteps
  <2>1. CASE i \in 1 .. Len(a)
    BY <2>1, <1>5, ConcatIs DEF Shape
  <2>2. CASE i - Len(a) \in 1 .. Len(r) /\ t[i] = r[i - Len(a)] /\ i > Len(a)
    <3>1. Has(r, {"installer"})
      BY <2>2, <1>5 DEF Has
    <3>2. CASE j \in 1 .. Len(a)
      BY <3>1, <3>2, ConcatIs
    <3>3. CASE j > Len(a)
      <4>1. j - Len(a) \in 1 .. (i - Len(a) - 1) /\ t[j] = r[j - Len(a)]
        BY <3>3, <2>2, ConcatIs
      <4> QED BY <4>1, <2>2, <1>5 DEF Shape
    <3> QED BY <3>2, <3>3, ConcatIs
  <2> QED BY <2>1, <2>2, ConcatIs
<1>6. ASSUME NEW i \in 1 .. Len(t), t[i] = "bridge-service" PROVE i < Len(t)
  <2>1. CASE i \in 1 .. Len(a) /\ t[i] = a[i]
    BY <2>1, <1>6, ConcatIs DEF Shape
  <2>2. CASE i - Len(a) \in 1 .. Len(r) /\ t[i] = r[i - Len(a)]
    <3>1. i - Len(a) < Len(r)
      BY <2>2, <1>6 DEF Shape
    <3> QED BY <3>1, ConcatIs
  <2> QED BY <2>1, <2>2, ConcatIs
<1> HIDE DEF t
<1>7. Shape(t)
  BY <1>1, <1>2, <1>3, <1>4, <1>5, <1>6 DEF Shape
<1> QED BY <1>1, <1>7 DEF t

\* The installations a setup prepends, with the commit they end in.
LEMMA InstallShapes ==
  /\ Shape(<<"write", "bootout", "bootstrap", "save-service", "start-if-down">>)
  /\ Shape(<<"write", "reload", "enable", "save-service", "start-if-down">>)
  BY DEF Shape, Has, Commits, InstallSteps, RemovalDebts, Forgets, RemovalSteps, Opening, HostSteps

\* Sequences of the same elements are the same.
LEMMA SameSeq ==
  ASSUME NEW S, NEW s \in Seq(S), NEW t \in Seq(S), Len(s) = Len(t), \A i \in 1 .. Len(s) : s[i] = t[i]
  PROVE  s = t
  OBVIOUS

\* Concatenating a triple and a pair.
LEMMA FiveAre == ASSUME NEW S, NEW a \in S, NEW b \in S, NEW c \in S, NEW d \in S, NEW e \in S
   PROVE <<a, b, c>> \o <<d, e>> = <<a, b, c, d, e>>
<1> DEFINE s == <<a, b, c>> \o <<d, e>>
           t == <<a, b, c, d, e>>
<1>0. <<a, b, c>> \in Seq(S) /\ <<d, e>> \in Seq(S) /\ s \in Seq(S) /\ t \in Seq(S)
  OBVIOUS
<1>1. Len(s) = 5 /\ Len(t) = 5
  OBVIOUS
<1>2. s[1] = a /\ s[2] = b /\ s[3] = c /\ s[4] = d /\ s[5] = e
  OBVIOUS
<1>3. t[1] = a /\ t[2] = b /\ t[3] = c /\ t[4] = d /\ t[5] = e
  OBVIOUS
<1> HIDE DEF s, t
<1>4. \A i \in 1 .. 5 : s[i] = t[i]
  BY <1>2, <1>3
<1>5. s = t
  BY <1>0, <1>1, <1>4, SameSeq
<1> QED BY <1>5 DEF s, t

\* The short lists of the plans are sequences of their elements.
LEMMA Tuples ==
  ASSUME NEW S
  PROVE  /\ <<>> \in Seq(S)
         /\ \A a \in S : <<a>> \in Seq(S)
         /\ \A a, b \in S : <<a, b>> \in Seq(S)
         /\ \A a, b, c \in S : <<a, b, c>> \in Seq(S)
         /\ \A a, b, c, d, e \in S : <<a, b, c, d, e>> \in Seq(S)
  OBVIOUS

\* And so is the plan of a setup, of ten steps.
LEMMA Tuple10 ==
  ASSUME NEW S, NEW a \in S, NEW b \in S, NEW c \in S, NEW d \in S, NEW e \in S, NEW f \in S, NEW g \in S,
         NEW h \in S, NEW i \in S, NEW j \in S
  PROVE <<a, b, c, d, e, f, g, h, i, j>> \in Seq(S)
  OBVIOUS

\* What a setup prepends for its service, whichever the manager.
LEMMA Installing ==
  /\ InstallService \in Seq(StepNames)
  /\ \/ InstallService \o <<"save-service", "start-if-down">> = <<"write", "bootout", "bootstrap", "save-service", "start-if-down">>
     \/ InstallService \o <<"save-service", "start-if-down">> = <<"write", "reload", "enable", "save-service", "start-if-down">>
<1>1. /\ LaunchdInstall \in Seq(StepNames) /\ SystemdInstall \in Seq(StepNames)
      /\ <<"save-service", "start-if-down">> \in Seq(StepNames)
      /\ <<"write", "bootout", "bootstrap", "save-service", "start-if-down">> \in Seq(StepNames)
      /\ <<"write", "reload", "enable", "save-service", "start-if-down">> \in Seq(StepNames)
  BY Tuples DEF StepNames, ServiceSteps, SetupSteps, LaunchdInstall, SystemdInstall
<1>0. /\ "write" \in StepNames /\ "bootout" \in StepNames /\ "bootstrap" \in StepNames
      /\ "reload" \in StepNames /\ "enable" \in StepNames
      /\ "save-service" \in StepNames /\ "start-if-down" \in StepNames
  BY DEF StepNames, ServiceSteps, SetupSteps
<1>2. LaunchdInstall \o <<"save-service", "start-if-down">> = <<"write", "bootout", "bootstrap", "save-service", "start-if-down">>
  BY <1>0, FiveAre DEF LaunchdInstall
<1>3. SystemdInstall \o <<"save-service", "start-if-down">> = <<"write", "reload", "enable", "save-service", "start-if-down">>
  BY <1>0, FiveAre DEF SystemdInstall
<1> QED BY <1>1, <1>2, <1>3 DEF InstallService

\* What a step may find behind it.
LEMMA Heads ==
  ASSUME NEW t \in Seq(StepNames), t # <<>>, Shape(t)
  PROVE  /\ Has(t, Commits) => Head(t) \in InstallSteps \cup Commits
         /\ Has(t, {"write"}) => Head(t) = "write" /\ Has(t, Commits)
         /\ Has(t, RemovalDebts) => Head(t) \in RemovalSteps
         /\ Has(t, {"installer"}) => Head(t) \in Opening \cup HostSteps \cup {"installer"}
         /\ ~(Has(t, Commits) /\ Has(t, RemovalDebts))
         /\ Head(t) = "bridge-service" => Tail(t) # <<>>
         /\ Head(t) \in Opening <=> t \in Openings
<1>0. Len(t) \in Nat \ {0} /\ Head(t) = t[1] /\ 1 \in 1 .. Len(t)
  BY TailIs
<1>1. ASSUME Has(t, Commits) PROVE Head(t) \in InstallSteps \cup Commits
  <2>1. PICK i \in 1 .. Len(t) : t[i] \in Commits
    BY <1>1 DEF Has
  <2>2. CASE i = 1
    BY <2>1, <2>2, <1>0
  <2>3. CASE i # 1
    <3>1. 1 \in 1 .. (i - 1)
      BY <2>3, <1>0
    <3> QED BY <3>1, <2>1, <1>0 DEF Shape
  <2> QED BY <2>2, <2>3
<1>2. ASSUME Has(t, {"write"}) PROVE Head(t) = "write" /\ Has(t, Commits)
  <2>1. PICK i \in 1 .. Len(t) : t[i] = "write"
    BY <1>2 DEF Has
  <2> QED BY <2>1, <1>0 DEF Shape
<1>3. ASSUME Has(t, RemovalDebts) PROVE Head(t) \in RemovalSteps
  <2>1. PICK i \in 1 .. Len(t) : t[i] \in RemovalDebts
    BY <1>3 DEF Has
  <2>2. CASE i = 1
    BY <2>1, <2>2, <1>0 DEF RemovalSteps
  <2>3. CASE i # 1
    <3>1. 1 \in 1 .. (i - 1)
      BY <2>3, <1>0
    <3> QED BY <3>1, <2>1, <1>0 DEF Shape
  <2> QED BY <2>2, <2>3
<1>4. ASSUME Has(t, {"installer"}) PROVE Head(t) \in Opening \cup HostSteps \cup {"installer"}
  <2>1. PICK i \in 1 .. Len(t) : t[i] = "installer"
    BY <1>4 DEF Has
  <2>2. CASE i = 1
    BY <2>1, <2>2, <1>0
  <2>3. CASE i # 1
    <3>1. 1 \in 1 .. (i - 1)
      BY <2>3, <1>0
    <3> QED BY <3>1, <2>1, <1>0 DEF Shape
  <2> QED BY <2>2, <2>3
<1>5. ASSUME Has(t, Commits), Has(t, RemovalDebts) PROVE FALSE
  <2>1. PICK i \in 1 .. Len(t) : t[i] \in Commits
    BY <1>5 DEF Has
  <2>2. PICK k \in 1 .. Len(t) : t[k] \in RemovalDebts
    BY <1>5 DEF Has
  <2>3. i # k
    BY <2>1, <2>2 DEF Commits, RemovalDebts, Forgets
  <2>4. CASE i < k
    <3>1. i \in 1 .. (k - 1)
      BY <2>4, <1>0
    <3>2. t[i] \in RemovalSteps
      BY <3>1, <2>2 DEF Shape
    <3> QED BY <3>2, <2>1 DEF Commits, RemovalSteps, RemovalDebts, Forgets
  <2>5. CASE k < i
    <3>1. k \in 1 .. (i - 1)
      BY <2>5, <1>0
    <3>2. t[k] \in InstallSteps
      BY <3>1, <2>1 DEF Shape
    <3> QED BY <3>2, <2>2 DEF InstallSteps, RemovalDebts, Forgets
  <2> QED BY <2>3, <2>4, <2>5, <1>0
<1>6. ASSUME Head(t) = "bridge-service" PROVE Tail(t) # <<>>
  <2>1. 1 < Len(t)
    BY <1>6, <1>0 DEF Shape
  <2>5. Len(Tail(t)) = Len(t) - 1
    BY TailIs
  <2>2. Len(Tail(t)) # 0
    BY <2>1, <2>5, <1>0
  <2>3. Len(<<>>) = 0
    OBVIOUS
  <2> HIDE DEF Shape
  <2>4. ASSUME Tail(t) = <<>> PROVE FALSE
    <3>1. Len(Tail(t)) = 0
      BY <2>3, <2>4, Zenon
    <3> QED BY <3>1, <2>2
  <2> QED BY <2>4
<1>7. Head(t) \in Opening => t \in Openings
  BY <1>0 DEF Shape, Has
<1>8. t \in Openings => Head(t) \in Opening
  BY DEF Openings, SetupPlan, Opening
<1> QED BY <1>1, <1>2, <1>3, <1>4, <1>5, <1>6, <1>7, <1>8

\* The values of the state.
Managers == {"launchd", "systemd-user"}
MaybePath == Paths \cup {None}
Metadata == [service : Records \cup {None}, installer : MaybePath,
             source : {None, "release", "dev"}, pi : Nat \cup {None}]
Causes == ObstacleNames \cup {"unsupported"}
Results == {None, "unsupported", "contaminated", "no-pi", "locked", "identity", "backend",
            "ownership", "failed", "not-ready", "pi-foreign", "pi-broken", "ready", "done",
            "interrupted"}
CommandStates ==
    [cmd : CommandNames \cup {"idle"}, todo : Seq(StepNames), path : MaybePath, ver : Nat,
     npx : BOOLEAN, target : BOOLEAN, meta : Metadata, clean : BOOLEAN,
     cause : SUBSET Causes, kept : BOOLEAN, result : Results]

\* A running command has a list of that shape, of steps that suit it, and,
\* once a setup has bootstrapped its CLI, a path.
WellPlaced(c) ==
    c.todo # <<>> =>
      /\ Shape(c.todo)
      /\ Suits(c.todo, c.cmd)
      /\ c.path \in Paths \/ Head(c.todo) \in Opening \ {"lock"}
CliTypes ==
    /\ cli \in [Cli -> CommandStates]
    /\ \A p \in Cli : WellPlaced(cli[p])
WorldTypes ==
    /\ backend \in Managers
    /\ os \in [defn : MaybePath, enabled : BOOLEAN, loaded : MaybePath, wanted : BOOLEAN,
               proc : [path : Paths, ver : Nat] \cup {None}]
    /\ disk \in [Paths -> Nat] /\ prefix \in Paths
    /\ meta \in Metadata
    /\ host \in [id : BOOLEAN, named : BOOLEAN, enc : BOOLEAN]
    /\ pi \in [present : BOOLEAN, src : {None, Foreign} \cup Nat, man : Nat]
    /\ events \in 0 .. MaxEvents /\ messy \in BOOLEAN
OnboardingTypes == CliTypes /\ WorldTypes

\* A record this manager does not act on, and the agreement of the record
\* in the metadata with the definition file.
Unclaimed(r) == r = None \/ r.backend # backend
Agree == IF Unclaimed(meta.service) THEN os.defn = None ELSE meta.service = Record(os.defn)

\* What a command can rely on until it has paid its debts: the definition it
\* is about to record is the one it wrote, the one it is to forget is gone or
\* about to be, and the metadata it will write back is what the file holds.
Knows(p) ==
    LET t == cli[p].todo IN
    /\ Has(t, Commits) => Head(t) = "write" \/ os.defn = cli[p].path
    /\ Has(t, RemovalDebts) =>
         /\ Has(t, {"remove"}) \/ os.defn = None
         /\ Has(t, Forgets) \/ Unclaimed(meta.service)
    /\ Has(t, {"save-uninstalled"}) => Unclaimed(cli[p].meta.service)
    /\ cli[p].cmd = "setup" /\ t \notin Openings /\ ~Has(t, {"installer"})
         => cli[p].meta.service = meta.service

\* Unless there was a mess: every command can rely on that; of two that run,
\* both are setups and one has not got past its opening; and when no command owes
\* anything, record and definition agree.
Serial ==
    messy \/
      /\ \A p \in Cli : Live(p) => Knows(p)
      /\ \A p, q \in Cli : p # q /\ Live(p) /\ Live(q) =>
            cli[p].cmd = "setup" /\ (cli[p].todo \in Openings \/ cli[q].todo \in Openings)
      /\ (\A p \in Cli : Live(p) => ~Has(cli[p].todo, Debts)) => Agree

\* A list that owes nothing and opens nothing.
Plain(t) == ~Has(t, Opening \cup Debts \cup {"write"})

\* An opening owes nothing and writes nothing.
LEMMA OpeningHas ==
  ASSUME NEW t \in Openings
  PROVE  ~Has(t, Debts \cup {"write"}) /\ t # <<>>
<1>1. CASE t = <<"unsupported">>
  BY <1>1 DEF Has, Debts, Commits, RemovalDebts, Forgets
<1>2. CASE t = SetupPlan
  BY <1>2 DEF Has, Debts, Commits, RemovalDebts, Forgets, SetupPlan
<1>3. CASE t = Tail(SetupPlan)
  BY <1>3 DEF Has, Debts, Commits, RemovalDebts, Forgets, SetupPlan
<1>4. CASE t = Tail(Tail(SetupPlan))
  BY <1>4 DEF Has, Debts, Commits, RemovalDebts, Forgets, SetupPlan
<1> QED BY <1>1, <1>2, <1>3, <1>4 DEF Openings

\* Having one of some steps is having one of more.
LEMMA HasLess ==
  ASSUME NEW t, NEW S, NEW T, S \subseteq T, Has(t, S)
  PROVE  Has(t, T)
  BY DEF Has

\* Having one of two kinds of steps.
LEMMA HasMore ==
  ASSUME NEW t, NEW S, NEW T
  PROVE  Has(t, S \cup T) <=> Has(t, S) \/ Has(t, T)
  BY DEF Has

\* In an opening, a setup has touched nothing and knows nothing.
LEMMA OpeningKnows ==
  ASSUME NEW t \in Openings
  PROVE  /\ ~Has(t, Commits) /\ ~Has(t, RemovalDebts) /\ ~Has(t, {"save-uninstalled"}) /\ ~Has(t, Debts)
<1>1. Commits \subseteq Debts \cup {"write"} /\ RemovalDebts \subseteq Debts \cup {"write"}
      /\ {"save-uninstalled"} \subseteq Debts \cup {"write"} /\ Debts \subseteq Debts \cup {"write"}
  BY DEF Debts, RemovalDebts, Forgets
<1> QED BY <1>1, OpeningHas, HasLess

\* A command past its opening is alone, but for setups that have not begun.
LEMMA Alone ==
  ASSUME CliTypes, Serial, ~messy, NEW p \in Cli, Live(p), cli[p].todo \notin Openings
  PROVE  /\ Knows(p)
         /\ \A q \in Cli : q # p /\ Live(q) => /\ cli[q].cmd = "setup" /\ cli[q].todo \in Openings
                                               /\ cli[p].cmd = "setup"
         /\ ~Has(cli[p].todo, Debts) => Agree
<1>1. ASSUME NEW q \in Cli, q # p, Live(q) PROVE cli[q].cmd = "setup" /\ cli[q].todo \in Openings /\ cli[p].cmd = "setup"
  BY <1>1 DEF Serial
<1>2. ASSUME ~Has(cli[p].todo, Debts) PROVE Agree
  <2>1. ASSUME NEW q \in Cli, Live(q) PROVE ~Has(cli[q].todo, Debts)
    BY <1>1, <1>2, <2>1, OpeningKnows
  <2> QED BY <2>1 DEF Serial
<1>3. Knows(p)
  BY DEF Serial
<1> QED BY <1>1, <1>2, <1>3

\* A step of a command past its opening: the others are openings and stay
\* so, hence what it must show is about itself and the agreement.
LEMMA Turn ==
  ASSUME CliTypes, Serial, NEW p \in Cli, Live(p), cli[p].todo \notin Openings,
         backend' = backend, messy' = messy, \A q \in Cli \ {p} : cli'[q] = cli[q],
         ~messy /\ Live(p)' => Knows(p)' /\ cli'[p].cmd = cli[p].cmd,
         ~messy /\ (Live(p)' => ~Has(cli'[p].todo, Debts)) => Agree'
  PROVE  Serial'
<1>1. CASE messy
  BY <1>1 DEF Serial
<1>2. CASE ~messy
  <2>1. ASSUME NEW q \in Cli, Live(q)' PROVE Knows(q)'
    <3>1. CASE q = p
      BY <3>1, <2>1, <1>2
    <3>2. CASE q # p
      <4>1. cli'[q] = cli[q] /\ Live(q)
        BY <3>2, <2>1 DEF Live
      <4>2. cli'[q].todo \in Openings
        BY <4>1, <3>2, <1>2, Alone
      <4> QED BY <4>2, OpeningKnows DEF Knows
    <3> QED BY <3>1, <3>2
  <2>2. ASSUME NEW q \in Cli, q # p, Live(q)'
        PROVE  /\ cli'[q].cmd = "setup" /\ cli'[q].todo \in Openings
               /\ Live(p)' => cli'[p].cmd = "setup"
    <3>1. cli'[q] = cli[q] /\ Live(q)
      BY <2>2 DEF Live
    <3> QED BY <3>1, <2>2, <1>2, Alone
  <2>3. ASSUME NEW q \in Cli, NEW r \in Cli, q # r, Live(q)', Live(r)'
        PROVE  cli'[q].cmd = "setup" /\ (cli'[q].todo \in Openings \/ cli'[r].todo \in Openings)
    BY <2>2, <2>3
  <2>4. ASSUME \A q \in Cli : Live(q)' => ~Has(cli'[q].todo, Debts) PROVE Agree'
    BY <2>4, <1>2
  <2> QED BY <2>1, <2>3, <2>4 DEF Serial
<1> QED BY <1>1, <1>2

\* While it opens, a command changes nothing that a record or a definition is about.
LEMMA Opens ==
  ASSUME CliTypes, Serial, NEW p \in Cli, Live(p), cli[p].todo \in Openings,
         backend' = backend, messy' = messy, os' = os, meta' = meta,
         \A q \in Cli \ {p} : cli'[q] = cli[q],
         Live(p)' => /\ cli'[p].cmd = cli[p].cmd
                     /\ \/ cli'[p].todo \in Openings
                        \/ /\ Knows(p)' /\ ~Has(cli'[p].todo, Debts)
                           /\ \A q \in Cli \ {p} : Live(q) => cli[q].todo \in Openings
  PROVE  Serial'
<1>1. CASE messy
  BY <1>1 DEF Serial
<1>2. CASE ~messy
  <2>1. ASSUME NEW q \in Cli, Live(q)' PROVE Knows(q)'
    <3>1. CASE cli'[q].todo \in Openings
      BY <3>1, OpeningKnows DEF Knows
    <3>2. CASE q = p
      BY <3>1, <3>2, <2>1
    <3>3. CASE q # p
      <4>1. cli'[q] = cli[q] /\ Live(q)
        BY <3>3, <2>1 DEF Live
      <4>2. Knows(q)
        BY <4>1, <1>2 DEF Serial
      <4> QED BY <4>1, <4>2 DEF Knows, Unclaimed
    <3> QED BY <3>2, <3>3
  <2>2. ASSUME NEW q \in Cli, NEW r \in Cli, q # r, Live(q)', Live(r)'
        PROVE  cli'[q].cmd = "setup" /\ (cli'[q].todo \in Openings \/ cli'[r].todo \in Openings)
    <3>1. Live(q) /\ Live(r)
      BY <2>2 DEF Live
    <3>2. cli[q].cmd = "setup" /\ (cli[q].todo \in Openings \/ cli[r].todo \in Openings)
      BY <3>1, <2>2, <1>2 DEF Serial
    <3>3. CASE p \notin {q, r}
      BY <3>2, <3>3
    <3>4. CASE p \in {q, r}
      BY <3>1, <3>2, <3>4, <2>2
    <3> QED BY <3>3, <3>4
  <2>3. ASSUME \A q \in Cli : Live(q)' => ~Has(cli'[q].todo, Debts) PROVE Agree'
    <3>1. ASSUME NEW q \in Cli, Live(q) PROVE ~Has(cli[q].todo, Debts)
      <4>1. CASE q = p
        BY <4>1, OpeningKnows
      <4>2. CASE q # p
        BY <4>2, <3>1, <2>3 DEF Live
      <4> QED BY <4>1, <4>2
    <3>2. Agree
      BY <3>1, <1>2 DEF Serial
    <3> QED BY <3>2 DEF Agree, Unclaimed, Record
  <2> QED BY <2>1, <2>2, <2>3 DEF Serial
<1> QED BY <1>1, <1>2

\* The state of a process that runs no command.
LEMMA IdleTypes == ASSUME NEW r \in Results PROVE [Idle EXCEPT !.result = r] \in CommandStates /\ Idle \in CommandStates
<1>1. <<>> \in Seq(StepNames)
  BY Tuples
<1> QED BY <1>1 DEF Idle, CommandStates, NoMeta, Metadata, MaybePath, Results

\* A command moves to a well-formed state, the others stay.
LEMMA MoveTypes ==
  ASSUME CliTypes, NEW p \in Cli, NEW c \in CommandStates, WellPlaced(c), cli' = [cli EXCEPT ![p] = c]
  PROVE  CliTypes' /\ cli'[p] = c /\ \A q \in Cli \ {p} : cli'[q] = cli[q]
  BY DEF CliTypes

\* A command that ends leaves its process idle.
LEMMA EndsTypes ==
  ASSUME CliTypes, NEW p \in Cli, NEW r \in Results, Ends(p, r)
  PROVE  /\ CliTypes' /\ ~Live(p)' /\ \A q \in Cli \ {p} : cli'[q] = cli[q]
<1> DEFINE c == [Idle EXCEPT !.result = r]
<1>1. c \in CommandStates /\ c.todo = <<>>
  BY IdleTypes DEF Idle
<1>2. WellPlaced(c)
  BY <1>1 DEF WellPlaced
<1>3. cli' = [cli EXCEPT ![p] = c]
  BY DEF Ends
<1> HIDE DEF c
<1> QED BY <1>1, <1>2, <1>3, MoveTypes DEF Live

\* A command goes on with a well-formed list of steps.
LEMMA GoesTypes ==
  ASSUME CliTypes, NEW p \in Cli, Live(p), Head(cli[p].todo) \notin Opening \ {"lock"},
         NEW todo \in Seq(StepNames), Shape(todo),
         Suits(todo, cli[p].cmd), Goes(p, todo)
  PROVE  /\ CliTypes' /\ (Live(p)' <=> todo # <<>>) /\ \A q \in Cli \ {p} : cli'[q] = cli[q]
         /\ todo # <<>> => /\ cli'[p] = [cli[p] EXCEPT !.todo = todo] /\ cli'[p].todo = todo
                           /\ cli'[p].cmd = cli[p].cmd /\ cli'[p].meta = cli[p].meta
                           /\ cli'[p].path = cli[p].path
<1>1. CASE todo = <<>>
  <2>1. Ends(p, "done") /\ "done" \in Results
    BY <1>1 DEF Goes, Results
  <2> QED BY <2>1, <1>1, EndsTypes
<1>2. CASE todo # <<>>
  <2> DEFINE c == [cli[p] EXCEPT !.todo = todo]
  <2>0. cli[p] \in CommandStates /\ cli[p].path \in Paths
    BY DEF CliTypes, WellPlaced, Live
  <2>1. /\ c \in CommandStates /\ c.todo = todo /\ c.cmd = cli[p].cmd /\ c.meta = cli[p].meta
        /\ c.path = cli[p].path
    BY <2>0 DEF CommandStates
  <2>2. cli' = [cli EXCEPT ![p] = c]
    BY <1>2 DEF Goes
  <2> HIDE DEF c
  <2>3. WellPlaced(c)
    BY <2>0, <2>1 DEF WellPlaced
  <2>4. CliTypes' /\ cli'[p] = c /\ \A q \in Cli \ {p} : cli'[q] = cli[q]
    BY <2>1, <2>2, <2>3, MoveTypes
  <2> QED BY <1>2, <2>1, <2>4 DEF Live, c
<1> QED BY <1>1, <1>2

\* And so it does when it says what becomes of the daemon.
LEMMA KeepingTypes ==
  ASSUME CliTypes, NEW p \in Cli, Live(p), Head(cli[p].todo) \notin Opening \ {"lock"},
         NEW todo \in Seq(StepNames), Shape(todo),
         Suits(todo, cli[p].cmd), NEW kept \in BOOLEAN, Keeping(p, todo, kept)
  PROVE  /\ CliTypes' /\ (Live(p)' <=> todo # <<>>) /\ \A q \in Cli \ {p} : cli'[q] = cli[q]
         /\ cli'[p].todo = todo /\ cli'[p].cmd = cli[p].cmd /\ cli'[p].meta = cli[p].meta
         /\ cli'[p].path = cli[p].path
<1> DEFINE c == [cli[p] EXCEPT !.todo = todo, !.kept = kept]
<1>0. cli \in [Cli -> CommandStates] /\ cli[p] \in CommandStates /\ cli[p].path \in Paths
  BY DEF CliTypes, WellPlaced, Live
<1>1. /\ c \in CommandStates /\ c.todo = todo /\ c.cmd = cli[p].cmd /\ c.meta = cli[p].meta
      /\ c.path = cli[p].path
  BY <1>0 DEF CommandStates
<1>2. cli' = [cli EXCEPT ![p] = c]
  BY <1>0 DEF Keeping, CommandStates
<1> HIDE DEF c
<1>3. WellPlaced(c)
  BY <1>0, <1>1 DEF WellPlaced
<1>4. CliTypes' /\ cli'[p] = c /\ \A q \in Cli \ {p} : cli'[q] = cli[q]
  BY <1>1, <1>2, <1>3, MoveTypes
<1> QED BY <1>1, <1>4 DEF Live

\* A list that does not begin with an installation or a removal owes nothing.
LEMMA NoDebts ==
  ASSUME NEW t \in Seq(StepNames), t # <<>>, Shape(t), Head(t) \notin InstallSteps \cup Commits \cup RemovalSteps
  PROVE  ~Has(t, Debts) /\ ~Has(t, {"write"}) /\ ~Has(t, Commits) /\ ~Has(t, RemovalDebts)
<1>1. ~Has(t, Commits) /\ ~Has(t, RemovalDebts) /\ ~Has(t, {"write"})
  BY Heads
<1> QED BY <1>1, HasMore DEF Debts

\* What the types say of a running command.
LEMMA Todo ==
  ASSUME CliTypes, NEW p \in Cli, Live(p)
  PROVE  /\ cli[p] \in CommandStates /\ cli[p].todo \in Seq(StepNames) /\ cli[p].todo # <<>>
         /\ Shape(cli[p].todo) /\ WellPlaced(cli[p]) /\ Head(cli[p].todo) \in StepNames
         /\ cli[p].path \in MaybePath /\ cli[p].ver \in Nat /\ cli[p].meta \in Metadata
         /\ (cli[p].path \in Paths \/ Head(cli[p].todo) \in Opening \ {"lock"})
         /\ Suits(cli[p].todo, cli[p].cmd)
<1>1. cli[p] \in CommandStates
  BY DEF CliTypes
<1>2. cli[p].todo \in Seq(StepNames) /\ cli[p].todo # <<>>
  BY <1>1 DEF CommandStates, Live
<1> QED BY <1>1, <1>2, TailIs DEF CliTypes, WellPlaced, CommandStates

\* A command may end wherever it owes nothing.
LEMMA EndKeeps ==
  ASSUME CliTypes, Serial, NEW p \in Cli, Live(p), NEW r \in Results, Ends(p, r),
         backend' = backend, messy' = messy, os' = os, meta' = meta, ~Has(cli[p].todo, Debts)
  PROVE  CliTypes' /\ Serial'
<1>1. CliTypes' /\ ~Live(p)' /\ \A q \in Cli \ {p} : cli'[q] = cli[q]
  BY EndsTypes
<1>2. CASE cli[p].todo \in Openings
  BY <1>1, <1>2, Opens
<1>3. CASE cli[p].todo \notin Openings
  <2>1. ~messy => Agree'
    BY <1>3, Alone DEF Agree, Unclaimed, Record
  <2> QED BY <1>1, <1>3, <2>1, Turn
<1> QED BY <1>1, <1>2, <1>3

\* A step that touches neither the record nor the definition goes on to the next.
LEMMA RestSerial ==
  ASSUME CliTypes, Serial, NEW p \in Cli, Live(p),
         Head(cli[p].todo) \notin Opening \cup Debts \cup {"write", "installer"},
         Live(p)' <=> Rest(p) # <<>>, \A q \in Cli \ {p} : cli'[q] = cli[q],
         Rest(p) # <<>> => /\ cli'[p].todo = Rest(p) /\ cli'[p].cmd = cli[p].cmd
                           /\ cli'[p].meta = cli[p].meta /\ cli'[p].path = cli[p].path,
         backend' = backend, messy' = messy, os'.defn = os.defn, meta'.service = meta.service
  PROVE  Serial'
<1> DEFINE t == cli[p].todo
           r == Tail(t)
<1>0. t \in Seq(StepNames) /\ t # <<>> /\ Shape(t) /\ r = Rest(p)
  BY Todo DEF Rest
<1>1. t \notin Openings
  BY <1>0, Heads
<1>4. \A S : Has(r, S) => Has(t, S)
  BY <1>0, TailHas
<1>5. /\ Has(t, Commits) <=> Has(r, Commits)
      /\ Has(t, RemovalDebts) <=> Has(r, RemovalDebts)
      /\ Has(t, {"remove"}) <=> Has(r, {"remove"})
      /\ Has(t, Forgets) <=> Has(r, Forgets)
      /\ Has(t, {"installer"}) <=> Has(r, {"installer"})
      /\ Has(t, Debts) <=> Has(r, Debts)
      /\ Head(t) # "write"
  BY <1>0, TailHas DEF Debts, RemovalDebts
<1> HIDE DEF t, r
<1>7. ASSUME ~messy PROVE Knows(p) /\ (~Has(t, Debts) => Agree)
  BY <1>1, <1>7, Alone DEF t
<1>8. ASSUME ~messy, Live(p)' PROVE Knows(p)'
  BY <1>0, <1>1, <1>4, <1>5, <1>7, <1>8 DEF Knows, Unclaimed, t
<1>9. ASSUME ~messy, Live(p)' => ~Has(cli'[p].todo, Debts) PROVE Agree'
  <2>1. ~Has(t, Debts)
    <3>1. CASE r = <<>>
      BY <3>1, <1>5 DEF Has
    <3>2. CASE r # <<>>
      BY <3>2, <1>0, <1>5, <1>9
    <3> QED BY <3>1, <3>2
  <2> QED BY <2>1, <1>7, <1>9 DEF Agree, Unclaimed, Record
<1> QED BY <1>0, <1>1, <1>8, <1>9, Turn DEF t

\* What the types say of the rest of its list.
LEMMA RestTypes ==
  ASSUME CliTypes, NEW p \in Cli, Live(p), Head(cli[p].todo) \notin Opening
  PROVE  /\ Rest(p) \in Seq(StepNames) /\ Shape(Rest(p)) /\ ~Has(Rest(p), Opening)
         /\ Suits(Rest(p), cli[p].cmd)
         /\ \A S : Has(Rest(p), S) => Has(cli[p].todo, S)
         /\ \A S : Head(cli[p].todo) \notin S => (Has(cli[p].todo, S) <=> Has(Rest(p), S))
         /\ cli[p].path \in Paths
  BY Todo, TailIs, TailShape, TailHas, TailSuits DEF Rest

\* A step that touches neither definition nor record, and goes on.
LEMMA RestKeeps ==
  ASSUME CliTypes, Serial, NEW p \in Cli, Live(p), Goes(p, Rest(p)) \/ NotRestarted(p),
         Head(cli[p].todo) \notin Opening \cup Debts \cup {"write", "installer"},
         backend' = backend, messy' = messy, os'.defn = os.defn, meta'.service = meta.service
  PROVE  CliTypes' /\ Serial'
<1>1. /\ CliTypes' /\ (Live(p)' <=> Rest(p) # <<>>) /\ \A q \in Cli \ {p} : cli'[q] = cli[q]
      /\ Rest(p) # <<>> => /\ cli'[p].todo = Rest(p) /\ cli'[p].cmd = cli[p].cmd
                           /\ cli'[p].meta = cli[p].meta /\ cli'[p].path = cli[p].path
  BY RestTypes, GoesTypes, KeepingTypes DEF NotRestarted
<1> QED BY <1>1, RestSerial

\* A decision that owes nothing may plan further steps that owe nothing.
LEMMA PlainSerial ==
  ASSUME CliTypes, Serial, NEW p \in Cli, Live(p), NEW todo \in Seq(StepNames),
         Head(cli[p].todo) \notin Opening \cup InstallSteps \cup Commits \cup RemovalSteps,
         ~Has(todo, Debts), Has(cli[p].todo, {"installer"}) => Has(todo, {"installer"}),
         Live(p)' <=> todo # <<>>, \A q \in Cli \ {p} : cli'[q] = cli[q],
         todo # <<>> => /\ cli'[p].todo = todo /\ cli'[p].cmd = cli[p].cmd
                        /\ cli'[p].meta = cli[p].meta /\ cli'[p].path = cli[p].path,
         backend' = backend, messy' = messy, os' = os, meta' = meta
  PROVE  Serial'
<1> DEFINE t == cli[p].todo
<1>0. t \in Seq(StepNames) /\ t # <<>> /\ Shape(t)
  BY Todo
<1>1. t \notin Openings /\ ~Has(t, Debts)
  BY <1>0, Heads, NoDebts
<1>3. ~Has(todo, Commits) /\ ~Has(todo, RemovalDebts) /\ ~Has(todo, {"save-uninstalled"})
  BY HasLess DEF Debts, RemovalDebts, Forgets
<1> HIDE DEF t
<1>4. ASSUME ~messy PROVE Knows(p) /\ Agree
  BY <1>1, <1>4, Alone DEF t
<1>5. ASSUME ~messy, Live(p)' PROVE Knows(p)'
  BY <1>1, <1>3, <1>4, <1>5 DEF Knows, t
<1>6. ASSUME ~messy PROVE Agree'
  BY <1>4, <1>6 DEF Agree, Unclaimed, Record
<1> QED BY <1>1, <1>5, <1>6, Turn DEF t

\* A decision that goes on with steps that owe nothing.
LEMMA PlainKeeps ==
  ASSUME CliTypes, Serial, NEW p \in Cli, Live(p), NEW todo \in Seq(StepNames), Goes(p, todo),
         Head(cli[p].todo) \notin Opening \cup InstallSteps \cup Commits \cup RemovalSteps,
         Shape(todo), ~Has(todo, Debts), Suits(todo, cli[p].cmd),
         Has(cli[p].todo, {"installer"}) => Has(todo, {"installer"}),
         backend' = backend, messy' = messy, os' = os, meta' = meta
  PROVE  CliTypes' /\ Serial'
<1>1. /\ CliTypes' /\ (Live(p)' <=> todo # <<>>) /\ \A q \in Cli \ {p} : cli'[q] = cli[q]
      /\ todo # <<>> => /\ cli'[p].todo = todo /\ cli'[p].cmd = cli[p].cmd
                        /\ cli'[p].meta = cli[p].meta /\ cli'[p].path = cli[p].path
  BY GoesTypes
<1> QED BY <1>1, PlainSerial

\* The states of the service.
Services == [defn : MaybePath, enabled : BOOLEAN, loaded : MaybePath, wanted : BOOLEAN,
             proc : [path : Paths, ver : Nat] \cup {None}]

\* What a step of a manager does to the service, and to its definition.
LEMMA EffectTypes ==
  ASSUME WorldTypes, NEW step \in ServiceSteps, NEW path \in MaybePath, StepSucceeds(step)
  PROVE  /\ StepEffect(step, path) \in Services
         /\ StepEffect(step, path).defn = CASE step = "write" -> path
                                            [] step = "remove" -> None
                                            [] OTHER -> os.defn
<1> USE DEF WorldTypes, Services, MaybePath, StepSucceeds, StepEffect
<1>0. /\ os \in Services /\ os.loaded \in MaybePath /\ os.defn \in MaybePath /\ disk \in [Paths -> Nat]
      /\ None \notin Paths
  BY OnboardingNames
<1>1. ASSUME NEW s \in Services, s.loaded \in Paths PROVE Run(s) \in Services /\ Run(s).defn = s.defn
  BY <1>0, <1>1 DEF Run, Daemon
<1>2. ASSUME NEW s \in Services PROVE Halt(s) \in Services /\ Halt(s).defn = s.defn /\ Halt(s).loaded = s.loaded
  BY <1>2 DEF Halt
<1>3. ASSUME NEW s \in Services, s.loaded \in Paths PROVE Started(s) \in Services /\ Started(s).defn = s.defn
  BY <1>1, <1>3 DEF Started
<1>4. Bootout \in Services /\ Bootout.defn = os.defn
  BY <1>0, <1>2 DEF Bootout
<1>5. Unit \in MaybePath
  BY <1>0 DEF Unit
<1>6. ASSUME Unit # None PROVE /\ [os EXCEPT !.loaded = Unit] \in Services
                               /\ [os EXCEPT !.enabled = TRUE, !.loaded = Unit] \in Services
                               /\ Unit \in Paths
  BY <1>0, <1>5, <1>6
<1> USE DEF ServiceSteps
<1>a. CASE step = "write"
  BY <1>a, <1>0 DEF WriteDefinition
<1>b. CASE step = "remove"
  BY <1>b, <1>0 DEF RemoveDefinition
<1>c. CASE step = "bootout"
  BY <1>c, <1>4
<1>d. CASE step = "bootstrap"
  <2>1. os.defn \in Paths
    BY <1>d, <1>0
  <2>2. [Bootout EXCEPT !.loaded = os.defn] \in Services
    BY <1>4, <2>1
  <2> QED BY <1>d, <1>1, <1>4, <2>1, <2>2 DEF BootstrapDefinition
<1>e. CASE step = "kickstart"
  BY <1>e, <1>0, <1>3
<1>f. CASE step = "kickstart-k"
  BY <1>f, <1>0, <1>1
<1>g. CASE step = "reload"
  BY <1>g, <1>0 DEF DaemonReload
<1>h. CASE step = "enable"
  BY <1>h, <1>0, <1>3, <1>6 DEF EnableNow
<1>i. CASE step = "disable"
  <2>1. [os EXCEPT !.enabled = FALSE] \in Services
    BY <1>0
  <2> QED BY <1>i, <1>0, <1>2, <2>1 DEF DisableNow
<1>j. CASE step = "start"
  BY <1>j, <1>0, <1>3, <1>6
<1>k. CASE step = "restart"
  BY <1>k, <1>0, <1>1, <1>6
<1>l. CASE step = "stop"
  BY <1>l, <1>0, <1>2
<1> QED BY <1>a, <1>b, <1>c, <1>d, <1>e, <1>f, <1>g, <1>h, <1>i, <1>j, <1>k, <1>l

\* The definition is written for the path that the record will name.
LEMMA WriteKeeps ==
  ASSUME OnboardingTypes, Serial, NEW p \in Cli, Live(p), Head(cli[p].todo) = "write",
         Goes(p, Rest(p)), os'.defn = cli[p].path, meta' = meta, backend' = backend, messy' = messy
  PROVE  CliTypes' /\ Serial'
<1> DEFINE t == cli[p].todo
           r == Rest(p)
<1>0. t \in Seq(StepNames) /\ t # <<>> /\ Shape(t) /\ CliTypes
  BY Todo DEF OnboardingTypes
<1>1. "write" \notin Opening /\ "write" \notin Commits /\ "write" \notin RemovalSteps /\ "write" \notin Debts
  BY DEF Opening, Commits, RemovalSteps, RemovalDebts, Forgets, Debts
<1>2. t \notin Openings /\ Has(t, Commits) /\ ~Has(t, RemovalDebts)
  <2>1. Has(t, {"write"})
    BY <1>0, TailIs DEF Has
  <2> QED BY <2>1, <1>0, <1>1, Heads
<1>3. /\ r \in Seq(StepNames) /\ Shape(r) /\ Has(r, Commits) /\ ~Has(r, RemovalDebts)
      /\ Suits(r, cli[p].cmd)
      /\ Has(r, {"installer"}) <=> Has(t, {"installer"})
  BY <1>0, <1>1, <1>2, RestTypes
<1>4. r # <<>>
  BY <1>3 DEF Has
<1>5. /\ CliTypes' /\ Live(p)' /\ \A q \in Cli \ {p} : cli'[q] = cli[q]
      /\ cli'[p].todo = r /\ cli'[p].cmd = cli[p].cmd /\ cli'[p].meta = cli[p].meta /\ cli'[p].path = cli[p].path
  BY <1>0, <1>1, <1>3, <1>4, GoesTypes
<1> HIDE DEF t, r
<1>6. ASSUME ~messy PROVE Knows(p)
  BY <1>0, <1>2, <1>6, Alone DEF t
<1>7. ~Has(r, {"save-uninstalled"})
  BY <1>3, HasLess DEF RemovalDebts, Forgets
<1>8. ASSUME ~messy PROVE Knows(p)'
  BY <1>2, <1>3, <1>5, <1>6, <1>7, <1>8 DEF Knows, Unclaimed, t
<1>9. Has(r, Debts)
  BY <1>3, HasLess DEF Debts
<1> QED BY <1>0, <1>2, <1>5, <1>8, <1>9, Turn DEF t

\* Whoever removes the definition owes the record its deletion, or there is none.
LEMMA RemoveKeeps ==
  ASSUME OnboardingTypes, Serial, NEW p \in Cli, Live(p), Head(cli[p].todo) = "remove",
         Goes(p, Rest(p)), os'.defn = None, meta' = meta, backend' = backend, messy' = messy
  PROVE  CliTypes' /\ Serial'
<1> DEFINE t == cli[p].todo
           r == Rest(p)
<1>0. t \in Seq(StepNames) /\ t # <<>> /\ Shape(t) /\ CliTypes
  BY Todo DEF OnboardingTypes
<1>1. "remove" \notin Opening /\ "remove" \notin Forgets /\ "remove" \in RemovalDebts
  BY DEF Opening, RemovalDebts, Forgets
<1>2. t \notin Openings /\ Has(t, RemovalDebts) /\ ~Has(t, Commits)
  <2>1. Has(t, RemovalDebts)
    BY <1>0, <1>1, TailIs DEF Has
  <2> QED BY <2>1, <1>0, <1>1, Heads
<1>3. /\ r \in Seq(StepNames) /\ Shape(r) /\ ~Has(r, Commits)
      /\ Suits(r, cli[p].cmd)
      /\ Has(r, {"installer"}) <=> Has(t, {"installer"})
      /\ Has(r, Forgets) <=> Has(t, Forgets)
      /\ Has(r, {"save-uninstalled"}) <=> Has(t, {"save-uninstalled"})
  BY <1>0, <1>1, <1>2, RestTypes
<1>5. /\ CliTypes' /\ (Live(p)' <=> r # <<>>) /\ \A q \in Cli \ {p} : cli'[q] = cli[q]
      /\ r # <<>> => /\ cli'[p].todo = r /\ cli'[p].cmd = cli[p].cmd
                     /\ cli'[p].meta = cli[p].meta /\ cli'[p].path = cli[p].path
  BY <1>0, <1>1, <1>3, GoesTypes
<1> HIDE DEF t, r
<1>6. ASSUME ~messy PROVE Knows(p)
  BY <1>0, <1>2, <1>6, Alone DEF t
<1>8. ASSUME ~messy, Live(p)' PROVE Knows(p)'
  BY <1>2, <1>3, <1>5, <1>6, <1>8 DEF Knows, Unclaimed, t
<1>9. ASSUME ~messy, Live(p)' => ~Has(cli'[p].todo, Debts) PROVE Agree'
  <2>1. ~Has(r, Forgets)
    <3>1. CASE r = <<>>
      BY <3>1 DEF Has
    <3>2. CASE r # <<>>
      BY <3>2, <1>5, <1>9, HasLess DEF Debts, RemovalDebts
    <3> QED BY <3>1, <3>2
  <2>2. Unclaimed(meta.service)
    BY <2>1, <1>2, <1>3, <1>6, <1>9 DEF Knows, t
  <2> QED BY <2>2 DEF Agree, Unclaimed
<1> QED BY <1>0, <1>2, <1>5, <1>8, <1>9, Turn DEF t

\* A step that can fail owes nothing.
LEMMA FailureOwesNothing ==
  ASSUME OnboardingTypes, Serial, ~messy, NEW p \in Cli, Live(p), Head(cli[p].todo) \in ServiceSteps,
         ~StepSucceeds(Head(cli[p].todo))
  PROVE  ~Has(cli[p].todo, Debts)
<1> DEFINE t == cli[p].todo
           h == Head(cli[p].todo)
<1>0. t \in Seq(StepNames) /\ t # <<>> /\ Shape(t) /\ CliTypes /\ WorldTypes
  BY Todo DEF OnboardingTypes
<1>1. h \in {"bootstrap", "kickstart", "kickstart-k", "enable", "start", "restart"}
  BY DEF StepSucceeds, ServiceSteps
<1>2. ~Has(t, RemovalDebts)
  BY <1>0, <1>1, Heads DEF RemovalSteps, RemovalDebts, Forgets
<1>3. ASSUME Has(t, Commits) PROVE FALSE
  <2>1. h \in {"bootstrap", "enable"}
    BY <1>0, <1>1, <1>3, Heads DEF InstallSteps, Commits
  <2>2. h \notin Opening
    BY <2>1 DEF Opening
  <2>3. t \notin Openings /\ cli[p].path \in Paths
    BY <1>0, <2>2, Heads, Todo
  <2>4. os.defn = cli[p].path
    BY <1>0, <1>3, <2>1, <2>3, Alone DEF Knows
  <2>5. os.defn # None
    BY <2>3, <2>4, OnboardingNames
  <2> QED BY <2>1, <2>5 DEF StepSucceeds, Unit
<1> QED BY <1>2, <1>3, HasMore DEF Debts

\* After a mess there is nothing to keep but the types.
LEMMA MessyEnd ==
  ASSUME CliTypes, messy, messy' = messy, NEW p \in Cli, NEW r \in Results, Ends(p, r)
  PROVE  CliTypes' /\ Serial'
  BY EndsTypes DEF Serial

\* A step of a service manager.
LEMMA ServiceStepKeeps ==
  ASSUME OnboardingTypes, Serial, NEW p \in Cli, ServiceStep(p)
  PROVE  OnboardingTypes' /\ Serial'
<1> DEFINE h == Head(cli[p].todo)
<1>0. /\ Live(p) /\ h \in ServiceSteps /\ CliTypes /\ WorldTypes /\ cli[p].path \in MaybePath
      /\ UNCHANGED <<backend, disk, prefix, meta, host, pi, events, messy>>
  BY Todo DEF ServiceStep, OnboardingTypes
<1>1. "failed" \in Results
  BY DEF Results
<1>2. CASE StepSucceeds(h)
  <2>1. os' = StepEffect(h, cli[p].path) /\ Goes(p, Rest(p))
    BY <1>2 DEF ServiceStep
  <2>2. /\ os' \in Services
        /\ os'.defn = CASE h = "write" -> cli[p].path [] h = "remove" -> None [] OTHER -> os.defn
    BY <1>0, <1>2, <2>1, EffectTypes
  <2> HIDE DEF h
  <2>3. WorldTypes'
    BY <1>0, <2>2 DEF WorldTypes, Services
  <2>4. CASE h = "write"
    BY <1>0, <2>1, <2>2, <2>3, <2>4, WriteKeeps DEF OnboardingTypes, h
  <2>5. CASE h = "remove"
    BY <1>0, <2>1, <2>2, <2>3, <2>5, RemoveKeeps DEF OnboardingTypes, h
  <2>6. CASE h \notin {"write", "remove"}
    <3>1. os'.defn = os.defn
      BY <2>2, <2>6
    <3>2. h \notin Opening \cup Debts \cup {"write", "installer"}
      BY <1>0, <2>6 DEF ServiceSteps, Opening, Debts, Commits, RemovalDebts, Forgets
    <3> QED BY <1>0, <2>1, <2>3, <3>1, <3>2, RestKeeps DEF OnboardingTypes, h
  <2> QED BY <2>4, <2>5, <2>6
<1>3. CASE ~StepSucceeds(h)
  <2>1. os' = os /\ (NotRestarted(p) \/ Ends(p, "failed"))
    BY <1>3 DEF ServiceStep
  <2>2. WorldTypes'
    BY <1>0, <2>1 DEF WorldTypes
  <2>3. CASE NotRestarted(p)
    <3>1. h \notin Opening \cup Debts \cup {"write", "installer"}
      BY <1>0, <1>3 DEF StepSucceeds, ServiceSteps, Opening, Debts, Commits, RemovalDebts, Forgets
    <3> QED BY <1>0, <2>1, <2>2, <2>3, <3>1, RestKeeps DEF OnboardingTypes
  <2>4. CASE Ends(p, "failed")
    <3>1. CASE messy
      BY <1>0, <1>1, <2>2, <2>4, <3>1, MessyEnd DEF OnboardingTypes
    <3>2. CASE ~messy
      BY <1>0, <1>1, <1>3, <2>1, <2>2, <2>4, <3>2, FailureOwesNothing, EndKeeps DEF OnboardingTypes
    <3> QED BY <3>1, <3>2
  <2> QED BY <2>1, <2>3, <2>4
<1> QED BY <1>2, <1>3

\* The restart of an upgrade fails.
LEMMA RestartFailsKeeps ==
  ASSUME OnboardingTypes, Serial, NEW p \in Cli, RestartFails(p)
  PROVE  OnboardingTypes' /\ Serial'
<1>1. /\ Live(p) /\ CliTypes /\ WorldTypes /\ NotRestarted(p)
      /\ Head(cli[p].todo) \in {"kickstart-k", "restart"}
      /\ os' = os \/ os' = Die
      /\ UNCHANGED <<backend, disk, prefix, meta, host, pi, messy>>
  BY DEF RestartFails, Restarts, OnboardingTypes
<1>2. os' \in Services /\ os'.defn = os.defn
  BY <1>1 DEF WorldTypes, Services, Die
<1>3. Head(cli[p].todo) \notin Opening \cup Debts \cup {"write", "installer"}
  BY <1>1 DEF Opening, Debts, Commits, RemovalDebts, Forgets
<1>4. events' \in 0 .. MaxEvents
  BY <1>1, OnboardingBounds DEF RestartFails, Fault, Happens, WorldTypes
<1>5. CliTypes' /\ Serial'
  BY <1>1, <1>2, <1>3, RestKeeps
<1> QED BY <1>1, <1>2, <1>4, <1>5 DEF OnboardingTypes, WorldTypes, Services

\* All but the commands.
World == <<backend, os, disk, prefix, meta, host, pi, events, messy>>

\* The steps that decide, on a state in which nothing is owed.
Decisions == {"host-init", "identity", "identity-config", "encryption", "bridge-service",
              "start-if-down", "wait", "health", "adapter", "save-pi", "readiness",
              "self-upgrade", "up-service", "converge-pi", "svc-install", "svc-uninstall",
              "svc-start", "svc-restart", "svc-stop", "pi-install", "uninstall", "merge-pi",
              "merge-no-pi", "merge-dev"}

\* Where a command decides, it has nothing outstanding.
LEMMA DecisionsOweNothing ==
  ASSUME CliTypes, NEW p \in Cli, Live(p), Head(cli[p].todo) \in Decisions
  PROVE  /\ Head(cli[p].todo) \notin Opening \cup Debts \cup {"write", "installer"}
         /\ Head(cli[p].todo) \notin Opening \cup InstallSteps \cup Commits \cup RemovalSteps
         /\ ~Has(cli[p].todo, Debts) /\ ~Has(cli[p].todo, {"write"})
         /\ ~Has(cli[p].todo, Opening) /\ cli[p].todo \notin Openings
         /\ ~Has(Rest(p), Debts) /\ ~Has(Rest(p), {"write"}) /\ ~Has(Rest(p), Opening)
         /\ Head(cli[p].todo) \notin HostSteps => ~Has(cli[p].todo, {"installer"}) /\ ~Has(Rest(p), {"installer"})
         /\ (Has(cli[p].todo, {"installer"}) <=> Has(Rest(p), {"installer"}))
<1> DEFINE h == Head(cli[p].todo)
           t == cli[p].todo
<1>1. h \notin Opening \cup Debts \cup {"write", "installer"}
  BY DEF Decisions, Opening, Debts, Commits, RemovalDebts, Forgets
<1>2. h \notin Opening \cup InstallSteps \cup Commits \cup RemovalSteps
  BY DEF Decisions, Opening, InstallSteps, Commits, RemovalSteps, RemovalDebts, Forgets
<1> HIDE DEF h
<1>3. ~Has(t, Debts) /\ ~Has(t, {"write"}) /\ t \notin Openings
  BY <1>2, Todo, NoDebts, Heads DEF h
<1>4. ~Has(t, Opening)
  BY <1>3, Todo DEF Shape
<1>5. h \notin HostSteps => ~Has(t, {"installer"})
  BY <1>1, Todo, Heads DEF h
<1>6. /\ ~Has(Rest(p), Debts) /\ ~Has(Rest(p), {"write"}) /\ ~Has(Rest(p), Opening)
      /\ h \notin HostSteps => ~Has(Rest(p), {"installer"})
      /\ (Has(t, {"installer"}) <=> Has(Rest(p), {"installer"}))
  BY <1>1, <1>3, <1>4, <1>5, RestTypes DEF h
<1> QED BY <1>1, <1>2, <1>3, <1>4, <1>5, <1>6 DEF h

\* A check that passes.
LEMMA Proceeds ==
  ASSUME OnboardingTypes, Serial, NEW p \in Cli, Live(p), Head(cli[p].todo) \in Decisions,
         UNCHANGED World, Goes(p, Rest(p))
  PROVE  OnboardingTypes' /\ Serial'
<1>1. CliTypes' /\ Serial'
  BY DecisionsOweNothing, RestKeeps DEF OnboardingTypes, World
<1> QED BY <1>1 DEF OnboardingTypes, WorldTypes, World

\* A check that ends its command.
LEMMA Stops ==
  ASSUME OnboardingTypes, Serial, NEW p \in Cli, Live(p), Head(cli[p].todo) \in Decisions,
         UNCHANGED World, NEW r \in Results, Ends(p, r)
  PROVE  OnboardingTypes' /\ Serial'
<1>1. CliTypes' /\ Serial'
  BY DecisionsOweNothing, EndKeeps DEF OnboardingTypes, World
<1> QED BY <1>1 DEF OnboardingTypes, WorldTypes, World

\* The steps that nobody owes and no order is required of.
Free == StepNames \ (Opening \cup Debts \cup {"write", "installer", "bridge-service"})

\* Steps that are owed by nobody can be listed in any order.
LEMMA FreeShape ==
  ASSUME NEW a \in Seq(StepNames), \A i \in 1 .. Len(a) : a[i] \in Free
  PROVE  Shape(a) /\ ~Has(a, Opening) /\ ~Has(a, Debts) /\ ~Has(a, {"write"})
  BY DEF Shape, Has, Free, Debts

\* A decision that prepends such steps.
LEMMA Expands ==
  ASSUME OnboardingTypes, Serial, NEW p \in Cli, Live(p), Head(cli[p].todo) \in Decisions,
         UNCHANGED World, NEW a \in Seq(StepNames), Goes(p, a \o Rest(p)),
         \A i \in 1 .. Len(a) : a[i] \in Free,
         \/ Head(cli[p].todo) \notin HostSteps
         \/ \A i \in 1 .. Len(a) : a[i] \in HostSteps,
         Suits(a, cli[p].cmd)
  PROVE  OnboardingTypes' /\ Serial'
<1> DEFINE r == Rest(p)
<1>0. CliTypes
  BY DEF OnboardingTypes
<1>1. Shape(a) /\ ~Has(a, Opening) /\ ~Has(a, Debts)
  BY FreeShape
<1>2. /\ r \in Seq(StepNames) /\ Shape(r) /\ ~Has(r, Opening \cup Debts \cup {"write"})
      /\ ~Has(r, Debts) /\ Suits(r, cli[p].cmd)
  BY <1>0, DecisionsOweNothing, RestTypes, HasMore
<1>3. Has(r, {"installer"}) => \A i \in 1 .. Len(a) : a[i] \in HostSteps
  BY <1>0, DecisionsOweNothing
<1> HIDE DEF r
<1>4. /\ a \o r \in Seq(StepNames) /\ Shape(a \o r) /\ ~Has(a \o r, Debts)
      /\ Suits(a \o r, cli[p].cmd)
      /\ Has(r, {"installer"}) => Has(a \o r, {"installer"})
  BY <1>1, <1>2, <1>3, Prepending, ConcatHas, ConcatIs, ConcatSuits
<1>5. CliTypes' /\ Serial'
  BY <1>0, <1>4, DecisionsOweNothing, PlainKeeps DEF r, World
<1> QED BY <1>5 DEF OnboardingTypes, WorldTypes, World

\* A decision that goes on with such steps alone.
LEMMA Replans ==
  ASSUME OnboardingTypes, Serial, NEW p \in Cli, Live(p), Head(cli[p].todo) \in Decisions \ HostSteps,
         UNCHANGED World, NEW a \in Seq(StepNames), Goes(p, a),
         \A i \in 1 .. Len(a) : a[i] \in Free,
         Suits(a, cli[p].cmd)
  PROVE  OnboardingTypes' /\ Serial'
<1>1. Shape(a) /\ ~Has(a, Debts)
  BY FreeShape
<1>2. CliTypes' /\ Serial'
  BY <1>1, DecisionsOweNothing, PlainKeeps DEF OnboardingTypes, World
<1> QED BY <1>2 DEF OnboardingTypes, WorldTypes, World

\* Opening: Refuse, Detect, StableCli, AcquireLock
LEMMA OpeningIs ==
  ASSUME CliTypes, NEW p \in Cli, Live(p), Head(cli[p].todo) \in Opening
  PROVE  /\ cli[p].todo \in Openings /\ ~Has(cli[p].todo, Debts)
         /\ Head(cli[p].todo) = "detect" => cli[p].todo = SetupPlan /\ cli[p].cmd = "setup"
         /\ Head(cli[p].todo) = "stable-cli" => cli[p].todo = Tail(SetupPlan) /\ cli[p].cmd = "setup"
         /\ Head(cli[p].todo) = "lock" => cli[p].todo = Tail(Tail(SetupPlan)) /\ cli[p].cmd = "setup"
<1>1. cli[p].todo \in Openings
  BY Todo, Heads
<1>2. Head(<<"unsupported">>) = "unsupported" /\ Head(SetupPlan) = "detect" /\ Head(Tail(SetupPlan)) = "stable-cli"
      /\ Head(Tail(Tail(SetupPlan))) = "lock"
  BY DEF SetupPlan
<1>3. Head(cli[p].todo) \in SetupSteps => cli[p].cmd = "setup"
  BY Todo, TailIs DEF Has, Suits
<1> QED BY <1>1, <1>2, <1>3, OpeningKnows DEF Openings, SetupSteps

\* The plan of a setup, and what is left of it while it opens.
LEMMA PlanIs ==
  /\ SetupPlan \in Seq(StepNames) /\ Shape(SetupPlan) /\ SetupPlan # <<>>
  /\ Tail(SetupPlan) \in Seq(StepNames) /\ Shape(Tail(SetupPlan)) /\ Tail(SetupPlan) # <<>>
  /\ Tail(Tail(SetupPlan)) \in Seq(StepNames) /\ Shape(Tail(Tail(SetupPlan)))
  /\ Tail(Tail(SetupPlan)) # <<>>
  /\ Tail(Tail(Tail(SetupPlan))) \in Seq(StepNames) /\ Shape(Tail(Tail(Tail(SetupPlan))))
  /\ Tail(Tail(Tail(SetupPlan))) # <<>>
  /\ Suits(SetupPlan, "setup") /\ Suits(Tail(SetupPlan), "setup")
  /\ Suits(Tail(Tail(SetupPlan)), "setup") /\ Suits(Tail(Tail(Tail(SetupPlan))), "setup")
  /\ Has(Tail(Tail(Tail(SetupPlan))), {"installer"}) /\ ~Has(Tail(Tail(Tail(SetupPlan))), Debts)
<1>0. SetupPlan \in Seq(StepNames)
  BY Tuple10 DEF SetupPlan, StepNames, SetupSteps, HostSteps
<1>1. Shape(SetupPlan)
  BY DEF SetupPlan, Shape, Has, Openings, Commits, RemovalDebts, Forgets, Opening, HostSteps
<1>2. Shape(Tail(SetupPlan))
  BY DEF SetupPlan, Shape, Has, Openings, Commits, RemovalDebts, Forgets, Opening, HostSteps
<1>3. Shape(Tail(Tail(SetupPlan)))
  BY DEF SetupPlan, Shape, Has, Openings, Commits, RemovalDebts, Forgets, Opening, HostSteps
<1>4. Shape(Tail(Tail(Tail(SetupPlan))))
  BY DEF SetupPlan, Shape, Has, Openings, Commits, RemovalDebts, Forgets, Opening, HostSteps
<1>5. SetupPlan # <<>> /\ Tail(SetupPlan) # <<>> /\ Tail(Tail(SetupPlan)) # <<>> /\ Tail(Tail(Tail(SetupPlan))) # <<>>
  BY DEF SetupPlan
<1>6. Tail(SetupPlan) \in Seq(StepNames)
  BY <1>0, <1>5, TailIs
<1>7. Tail(Tail(SetupPlan)) \in Seq(StepNames)
  BY <1>6, <1>5, TailIs
<1>8. Tail(Tail(Tail(SetupPlan))) \in Seq(StepNames)
  BY <1>7, <1>5, TailIs
<1>9. Has(Tail(Tail(Tail(SetupPlan))), {"installer"})
  BY DEF SetupPlan, Has
<1>10. ~Has(Tail(Tail(Tail(SetupPlan))), Debts)
  BY DEF SetupPlan, Has, Debts, Commits, RemovalDebts, Forgets
<1>11. Suits(SetupPlan, "setup")
  BY DEF SetupPlan, Has, Suits, OtherSteps, Forgets
<1>12. Suits(Tail(SetupPlan), "setup") /\ Suits(Tail(Tail(SetupPlan)), "setup") /\ Suits(Tail(Tail(Tail(SetupPlan))), "setup")
  BY <1>0, <1>5, <1>6, <1>7, <1>11, TailSuits
<1> QED BY <1>0, <1>1, <1>2, <1>3, <1>4, <1>5, <1>6, <1>7, <1>8, <1>9, <1>10, <1>11, <1>12

\* A command is refused for want of a service manager.
LEMMA RefuseKeeps ==
  ASSUME OnboardingTypes, Serial, NEW p \in Cli, Refuse(p)
  PROVE  OnboardingTypes' /\ Serial'
<1>1. /\ Live(p) /\ Head(cli[p].todo) = "unsupported" /\ Ends(p, "unsupported") /\ UNCHANGED World
      /\ "unsupported" \in Results /\ "unsupported" \in Opening /\ CliTypes
  BY DEF Refuse, At, World, Results, Opening, OnboardingTypes
<1>2. CliTypes' /\ Serial'
  BY <1>1, OpeningIs, EndKeeps DEF World
<1> QED BY <1>1, <1>2 DEF OnboardingTypes, WorldTypes, World

\* A setup detects its environment.
LEMMA DetectKeeps ==
  ASSUME OnboardingTypes, Serial, NEW p \in Cli, Detect(p)
  PROVE  OnboardingTypes' /\ Serial'
<1>1. /\ Live(p) /\ Head(cli[p].todo) = "detect" /\ UNCHANGED World
      /\ "detect" \in Opening /\ CliTypes
      /\ Ends(p, "contaminated") \/ Ends(p, "no-pi") \/ Goes(p, Rest(p))
  BY DEF Detect, At, World, Opening, OnboardingTypes
<1>2. cli[p].todo = SetupPlan /\ cli[p].cmd = "setup" /\ cli[p].todo \in Openings /\ ~Has(cli[p].todo, Debts)
  BY <1>1, OpeningIs
<1>3. CASE Ends(p, "contaminated") \/ Ends(p, "no-pi")
  <2>1. "contaminated" \in Results /\ "no-pi" \in Results
    BY DEF Results
  <2>2. CliTypes' /\ Serial'
    BY <1>1, <1>2, <1>3, <2>1, EndKeeps DEF World
  <2> QED BY <1>1, <2>2 DEF OnboardingTypes, WorldTypes, World
<1>4. CASE Goes(p, Rest(p))
  <2> DEFINE c == [cli[p] EXCEPT !.todo = Rest(p)]
  <2>1. Rest(p) = Tail(SetupPlan) /\ Rest(p) # <<>>
    BY <1>2, PlanIs DEF Rest
  <2>2. cli' = [cli EXCEPT ![p] = c]
    BY <1>4, <2>1 DEF Goes
  <2>3. c \in CommandStates /\ c.todo = Tail(SetupPlan) /\ c.cmd = "setup" /\ c.path = cli[p].path
    BY <1>1, <1>2, <2>1, Todo, PlanIs DEF CommandStates
  <2>4. Head(Tail(SetupPlan)) = "stable-cli"
    BY DEF SetupPlan
  <2> HIDE DEF c
  <2>5. WellPlaced(c)
    BY <2>3, <2>4, PlanIs DEF WellPlaced, Opening
  <2>6. CliTypes' /\ cli'[p] = c /\ \A q \in Cli \ {p} : cli'[q] = cli[q]
    BY <1>1, <2>2, <2>3, <2>5, MoveTypes
  <2>7. Serial'
    BY <1>1, <1>2, <2>3, <2>6, Opens DEF World, Openings
  <2> QED BY <1>1, <2>6, <2>7 DEF OnboardingTypes, WorldTypes, World
<1> QED BY <1>1, <1>3, <1>4

\* The state a setup moves to when it has its stable CLI.
LEMMA StableState ==
  ASSUME NEW p \in Cli, cli \in [Cli -> CommandStates], NEW R, NEW Q, NEW B,
         cli' = [cli EXCEPT ![p].path = R, ![p].todo = Q, ![p].npx = @ \/ B]
  PROVE  cli' = [cli EXCEPT ![p] = [cli[p] EXCEPT !.path = R, !.todo = Q, !.npx = cli[p].npx \/ B]]
  BY DEF CommandStates

\* A setup bootstraps its stable CLI, or finds the version locked.
LEMMA StableCliKeeps ==
  ASSUME OnboardingTypes, Serial, NEW p \in Cli, StableCli(p)
  PROVE  OnboardingTypes' /\ Serial'
<1>1. /\ Live(p) /\ Head(cli[p].todo) = "stable-cli" /\ CliTypes /\ WorldTypes
      /\ UNCHANGED <<backend, os, prefix, meta, host, pi, events, messy>>
      /\ "stable-cli" \in Opening
  BY DEF StableCli, At, Opening, OnboardingTypes
<1>2. cli[p].todo = Tail(SetupPlan) /\ cli[p].cmd = "setup" /\ cli[p].todo \in Openings /\ ~Has(cli[p].todo, Debts)
  BY <1>1, OpeningIs
<1>3. CASE BootstrapLocked(p)
  <2>1. Ends(p, "locked") /\ disk' = disk /\ "locked" \in Results
    BY <1>3 DEF StableCli, Results
  <2>2. CliTypes' /\ Serial'
    BY <1>1, <1>2, <2>1, EndKeeps
  <2> QED BY <1>1, <2>1, <2>2 DEF OnboardingTypes, WorldTypes
<1>4. CASE ~BootstrapLocked(p)
  <2> DEFINE n == cli[p].npx \/ ~proveStableCli(p)
             c == [cli[p] EXCEPT !.path = prefix, !.todo = Rest(p), !.npx = n]
  <2>1. Rest(p) = Tail(Tail(SetupPlan)) /\ Rest(p) # <<>>
    BY <1>2, PlanIs DEF Rest
  <2>2. /\ disk' = [disk EXCEPT ![prefix] = cli[p].ver]
        /\ cli' = [cli EXCEPT ![p].path = prefix, ![p].todo = Rest(p), ![p].npx = @ \/ ~proveStableCli(p)]
    BY <1>4 DEF StableCli
  <2>9. cli \in [Cli -> CommandStates]
    BY <1>1 DEF CliTypes
  <2>3. cli' = [cli EXCEPT ![p] = c]
    BY <2>2, <2>9, StableState
  <2>4. c \in CommandStates /\ c.todo = Tail(Tail(SetupPlan)) /\ c.cmd = "setup" /\ c.path \in Paths
    <3>1. cli[p] \in CommandStates
      BY <1>1, Todo
    <3>2. n \in BOOLEAN
      BY <3>1 DEF proveStableCli, CommandStates
    <3>3. Rest(p) \in Seq(StepNames) /\ Rest(p) = Tail(Tail(SetupPlan)) /\ prefix \in Paths /\ cli[p].cmd = "setup"
      BY <1>1, <1>2, <2>1, PlanIs DEF WorldTypes
    <3> HIDE DEF n
    <3> QED BY <3>1, <3>2, <3>3 DEF CommandStates, MaybePath
  <2> HIDE DEF c
  <2>5. WellPlaced(c)
    BY <2>4, PlanIs DEF WellPlaced
  <2>6. CliTypes' /\ cli'[p] = c /\ \A q \in Cli \ {p} : cli'[q] = cli[q]
    BY <1>1, <2>3, <2>4, <2>5, MoveTypes
  <2>7. Serial'
    BY <1>1, <1>2, <2>4, <2>6, Opens DEF Openings
  <2>8. disk' \in [Paths -> Nat]
    BY <1>1, <2>2, Todo DEF WorldTypes
  <2> QED BY <1>1, <2>6, <2>7, <2>8 DEF OnboardingTypes, WorldTypes
<1> QED BY <1>3, <1>4

\* The onboarding lock: past it, no other setup is.
LEMMA AcquireLockKeeps ==
  ASSUME OnboardingTypes, Serial, NEW p \in Cli, AcquireLock(p)
  PROVE  OnboardingTypes' /\ Serial'
<1>1. /\ Live(p) /\ Head(cli[p].todo) = "lock" /\ UNCHANGED World
      /\ "lock" \in Opening /\ CliTypes
      /\ \/ Ends(p, "locked")
         \/ Goes(p, Rest(p)) /\ \A q \in Cli : ~HoldsOnboardingLock(q)
  BY DEF AcquireLock, At, World, Opening, OnboardingTypes
<1>2. cli[p].todo = Tail(Tail(SetupPlan)) /\ cli[p].cmd = "setup" /\ cli[p].todo \in Openings /\ ~Has(cli[p].todo, Debts)
  BY <1>1, OpeningIs
<1>3. CASE Ends(p, "locked")
  <2>1. "locked" \in Results
    BY DEF Results
  <2>2. CliTypes' /\ Serial'
    BY <1>1, <1>2, <1>3, <2>1, EndKeeps DEF World
  <2> QED BY <1>1, <2>2 DEF OnboardingTypes, WorldTypes, World
<1>4. CASE Goes(p, Rest(p)) /\ \A q \in Cli : ~HoldsOnboardingLock(q)
  <2> DEFINE r == Tail(Tail(Tail(SetupPlan)))
  <2>1. Rest(p) = r /\ r # <<>> /\ r \in Seq(StepNames) /\ Shape(r) /\ Suits(r, "setup")
    BY <1>2, PlanIs DEF Rest
  <2>2. Head(cli[p].todo) \notin Opening \ {"lock"}
    BY <1>1
  <2> HIDE DEF r
  <2>3. /\ CliTypes' /\ Live(p)' /\ \A q \in Cli \ {p} : cli'[q] = cli[q]
        /\ cli'[p].todo = r /\ cli'[p].cmd = cli[p].cmd
    BY <1>1, <1>2, <1>4, <2>1, <2>2, GoesTypes
  <2>4. Has(r, {"installer"}) /\ ~Has(r, Debts)
    BY PlanIs DEF r
  <2>5. Knows(p)'
    <3>1. ~Has(r, Commits) /\ ~Has(r, RemovalDebts) /\ ~Has(r, {"save-uninstalled"})
      BY <2>4, HasLess DEF Debts, RemovalDebts, Forgets
    <3> QED BY <2>3, <2>4, <3>1 DEF Knows
  <2>6. CASE messy
    BY <1>1, <2>3, <2>6 DEF Serial, OnboardingTypes, WorldTypes, World
  <2>7. CASE ~messy
    <3>1. ASSUME NEW q \in Cli \ {p}, Live(q) PROVE cli[q].todo \in Openings
      <4>1. cli[q].cmd = "setup"
        BY <1>1, <2>7, <3>1 DEF Serial
      <4>2. Head(cli[q].todo) \in Opening
        BY <1>4, <3>1, <4>1 DEF HoldsOnboardingLock, Opening
      <4> QED BY <1>1, <3>1, <4>2, Todo, Heads
    <3>2. Serial'
      BY <1>1, <1>2, <2>3, <2>4, <2>5, <3>1, Opens DEF World
    <3> QED BY <1>1, <2>3, <3>2 DEF OnboardingTypes, WorldTypes, World
  <2> QED BY <2>6, <2>7
<1> QED BY <1>1, <1>3, <1>4

\* A setup decides whether to initialise the Host.
LEMMA HostInitKeeps ==
  ASSUME OnboardingTypes, Serial, NEW p \in Cli, HostInit(p)
  PROVE  OnboardingTypes' /\ Serial'
<1> DEFINE a == <<"identity", "identity-config", "encryption">>
<1>1. /\ Live(p) /\ Head(cli[p].todo) = "host-init" /\ UNCHANGED World
      /\ "host-init" \in Decisions /\ "identity" \in Results
      /\ Goes(p, Rest(p)) \/ Ends(p, "identity") \/ Goes(p, a \o Rest(p))
  BY DEF HostInit, At, World, Decisions, Results, Plan
<1>2. a \in Seq(StepNames) /\ Suits(a, cli[p].cmd) /\ \A i \in 1 .. Len(a) : a[i] \in HostSteps /\ a[i] \in Free
  <2>1. a \in Seq(StepNames)
    BY Tuples DEF StepNames, HostSteps
  <2>2. Suits(a, cli[p].cmd)
    BY DEF Suits, Has, SetupSteps, OtherSteps, Forgets
  <2>3. \A i \in 1 .. Len(a) : a[i] \in HostSteps
    BY DEF HostSteps
  <2>4. \A i \in 1 .. Len(a) : a[i] \in Free
    BY <2>3 DEF HostSteps, Free, StepNames, Opening, Debts, Commits, RemovalDebts, Forgets
  <2> QED BY <2>1, <2>2, <2>3, <2>4
<1> HIDE DEF a
<1> QED BY <1>1, <1>2, Proceeds, Stops, Expands

\* A step of the Host's initialisation.
LEMMA InitializeKeeps ==
  ASSUME OnboardingTypes, Serial, NEW p \in Cli, Initialize(p)
  PROVE  OnboardingTypes' /\ Serial'
<1>1. /\ Live(p) /\ Head(cli[p].todo) \in Decisions /\ Goes(p, Rest(p))
      /\ UNCHANGED <<backend, os, disk, prefix, meta, pi, events, messy>>
  BY DEF Initialize, At, Decisions
<1>2. CliTypes' /\ Serial'
  BY <1>1, DecisionsOweNothing, RestKeeps DEF OnboardingTypes
<1>3. host' \in [id : BOOLEAN, named : BOOLEAN, enc : BOOLEAN]
  BY DEF Initialize, OnboardingTypes, WorldTypes
<1> QED BY <1>1, <1>2, <1>3 DEF OnboardingTypes, WorldTypes

\* A setup loads the metadata: from here its copy is the file.
LEMMA RecordInstallerKeeps ==
  ASSUME OnboardingTypes, Serial, NEW p \in Cli, RecordInstaller(p)
  PROVE  OnboardingTypes' /\ Serial'
<1> DEFINE t == cli[p].todo
           r == Rest(p)
           copy == [meta EXCEPT !.installer = cli[p].path,
                                !.source = IF @ = None THEN "release" ELSE @]
           c == [cli[p] EXCEPT !.meta = copy, !.todo = r]
<1>1. /\ Live(p) /\ Head(t) = "installer" /\ CliTypes /\ WorldTypes
      /\ UNCHANGED <<backend, os, disk, prefix, host, pi, events, messy>>
      /\ meta' = copy /\ cli' = [cli EXCEPT ![p].meta = copy, ![p].todo = r]
  BY DEF RecordInstaller, At, OnboardingTypes
<1>2. /\ t \in Seq(StepNames) /\ t # <<>> /\ Shape(t) /\ cli[p] \in CommandStates
      /\ "installer" \notin Opening \cup InstallSteps \cup Commits \cup RemovalSteps \cup Debts
  BY <1>1, Todo DEF Opening, InstallSteps, Commits, RemovalSteps, RemovalDebts, Forgets, Debts
<1>3. /\ r \in Seq(StepNames) /\ Shape(r) /\ Suits(r, cli[p].cmd) /\ cli[p].path \in Paths
      /\ ~Has(t, Debts) /\ t \notin Openings /\ ~Has(r, Debts)
  BY <1>1, <1>2, RestTypes, NoDebts, Heads
<1>4. copy \in Metadata /\ copy.service = meta.service
  BY <1>1, <1>3 DEF WorldTypes, Metadata, MaybePath
<1> HIDE DEF copy, r
<1>5. /\ c \in CommandStates /\ c.todo = r /\ c.cmd = cli[p].cmd /\ c.meta = copy /\ c.path = cli[p].path
      /\ cli' = [cli EXCEPT ![p] = c]
  <2>1. cli \in [Cli -> CommandStates]
    BY <1>1 DEF CliTypes
  <2> QED BY <1>1, <1>2, <1>3, <1>4, <2>1 DEF CommandStates
<1> HIDE DEF c, t
<1>6. WellPlaced(c)
  BY <1>3, <1>5 DEF WellPlaced
<1>7. CliTypes' /\ cli'[p] = c /\ \A q \in Cli \ {p} : cli'[q] = cli[q]
  BY <1>1, <1>5, <1>6, MoveTypes
<1>8. ~Has(r, Commits) /\ ~Has(r, RemovalDebts) /\ ~Has(r, {"save-uninstalled"})
  BY <1>3, HasLess DEF Debts, RemovalDebts, Forgets
<1>9. Knows(p)'
  BY <1>1, <1>5, <1>7, <1>8 DEF Knows
<1>10. ASSUME ~messy PROVE Agree'
  <2>1. Agree
    BY <1>1, <1>3, <1>10, Alone DEF t
  <2> QED BY <1>1, <1>4, <2>1 DEF Agree, Unclaimed, Record
<1>11. Serial'
  BY <1>1, <1>3, <1>5, <1>7, <1>9, <1>10, Turn DEF t
<1> QED BY <1>1, <1>4, <1>7, <1>11 DEF OnboardingTypes, WorldTypes

\* Whoever decides to install owes the record its new path.
LEMMA InstallBegins ==
  ASSUME OnboardingTypes, Serial, NEW p \in Cli, Live(p), Head(cli[p].todo) \in Decisions \ HostSteps,
         UNCHANGED World, NEW todo \in Seq(StepNames), Shape(todo),
         Goes(p, todo) \/ \E kept \in BOOLEAN : Keeping(p, todo, kept),
         todo # <<>>, Head(todo) = "write", Has(todo, Commits), Suits(todo, cli[p].cmd)
  PROVE  OnboardingTypes' /\ Serial'
<1>0. CliTypes /\ WorldTypes
  BY DEF OnboardingTypes
<1>1. /\ Head(cli[p].todo) \notin Opening /\ cli[p].todo \notin Openings
      /\ ~Has(cli[p].todo, {"installer"})
  BY <1>0, DecisionsOweNothing
<1>2. /\ CliTypes' /\ Live(p)' /\ \A q \in Cli \ {p} : cli'[q] = cli[q]
      /\ cli'[p].todo = todo /\ cli'[p].cmd = cli[p].cmd /\ cli'[p].meta = cli[p].meta
  <2>1. CASE Goes(p, todo)
    BY <1>0, <1>1, <2>1, GoesTypes
  <2>2. ASSUME NEW kept \in BOOLEAN, Keeping(p, todo, kept)
        PROVE  /\ CliTypes' /\ Live(p)' /\ \A q \in Cli \ {p} : cli'[q] = cli[q]
               /\ cli'[p].todo = todo /\ cli'[p].cmd = cli[p].cmd /\ cli'[p].meta = cli[p].meta
    BY <1>0, <1>1, <2>2, KeepingTypes
  <2> QED BY <2>1, <2>2
<1>3. ~Has(todo, RemovalDebts) /\ ~Has(todo, {"save-uninstalled"})
  BY Heads, HasLess DEF RemovalDebts, Forgets
<1>4. ASSUME ~messy PROVE Knows(p)'
  <2>1. Knows(p)
    BY <1>0, <1>1, <1>4, Alone
  <2> QED BY <1>1, <1>2, <1>3, <2>1 DEF Knows, World
<1>5. Has(todo, Debts)
  BY HasLess DEF Debts
<1>6. Serial'
  BY <1>0, <1>1, <1>2, <1>4, <1>5, Turn DEF World
<1> QED BY <1>0, <1>2, <1>6 DEF OnboardingTypes, WorldTypes, World

\* A setup reconciles the service.
LEMMA BridgeServiceKeeps ==
  ASSUME OnboardingTypes, Serial, NEW p \in Cli, BridgeService(p)
  PROVE  OnboardingTypes' /\ Serial'
<1> DEFINE r == Rest(p)
           a == InstallService \o <<"save-service", "start-if-down">>
<1>1. /\ Live(p) /\ Head(cli[p].todo) = "bridge-service" /\ UNCHANGED World /\ CliTypes
      /\ \/ Ends(p, "backend")
         \/ Ends(p, "ownership")
         \/ Keeping(p, Tail(r), TRUE)
         \/ Goes(p, a \o r)
         \/ Goes(p, <<"start-if-down">> \o r)
  BY DEF BridgeService, At, World, OnboardingTypes
<1>2. /\ "bridge-service" \in Decisions \ HostSteps /\ "backend" \in Results /\ "ownership" \in Results
      /\ "bridge-service" \in SetupSteps
  BY DEF Decisions, HostSteps, Results, SetupSteps
<1>3. cli[p].cmd = "setup"
  <2>1. Has(cli[p].todo, SetupSteps)
    <3>1. cli[p].todo \in Seq(StepNames) /\ cli[p].todo # <<>>
      BY <1>1, Todo
    <3>2. cli[p].todo[1] \in SetupSteps /\ 1 \in 1 .. Len(cli[p].todo)
      BY <1>1, <1>2, <3>1, TailIs
    <3> QED BY <3>2 DEF Has
  <2> QED BY <1>1, <2>1, Todo DEF Suits
<1>4. /\ r \in Seq(StepNames) /\ Shape(r) /\ Suits(r, cli[p].cmd)
      /\ ~Has(r, Debts) /\ ~Has(r, {"write"}) /\ ~Has(r, Opening) /\ ~Has(r, {"installer"})
      /\ ~Has(cli[p].todo, {"installer"}) /\ r # <<>> /\ cli[p].path \in Paths
  BY <1>1, <1>2, DecisionsOweNothing, RestTypes, Todo, Heads DEF Rest
<1> HIDE DEF r
<1>5. CASE Keeping(p, Tail(r), TRUE)
  <2>1. /\ Tail(r) \in Seq(StepNames) /\ Shape(Tail(r)) /\ Suits(Tail(r), cli[p].cmd)
        /\ ~Has(Tail(r), Debts)
    <3>1. Head(r) \notin Opening
      BY <1>4, TailIs DEF Has
    <3> QED BY <1>4, <3>1, TailIs, TailShape, TailHas, TailSuits
  <2>2. Head(cli[p].todo) \notin Opening
    BY <1>1 DEF Opening
  <2>3. /\ CliTypes' /\ (Live(p)' <=> Tail(r) # <<>>) /\ \A q \in Cli \ {p} : cli'[q] = cli[q]
        /\ cli'[p].todo = Tail(r) /\ cli'[p].cmd = cli[p].cmd /\ cli'[p].meta = cli[p].meta
        /\ cli'[p].path = cli[p].path
    BY <1>1, <1>5, <2>1, <2>2, KeepingTypes
  <2>4. Serial'
    BY <1>1, <1>2, <1>4, <2>1, <2>3, DecisionsOweNothing, PlainSerial DEF World
  <2> QED BY <1>1, <2>3, <2>4 DEF OnboardingTypes, WorldTypes, World
<1>6. CASE Goes(p, a \o r)
  <2>1. /\ a \in Seq(StepNames) /\ Shape(a) /\ a # <<>> /\ Len(a) = 5 /\ a[1] = "write" /\ Has(a, Commits)
        /\ ~Has(a, Opening) /\ Suits(a, "setup")
    <3> DEFINE l == <<"write", "bootout", "bootstrap", "save-service", "start-if-down">>
               s == <<"write", "reload", "enable", "save-service", "start-if-down">>
    <3>1. CASE a = l
      <4>1. l \in Seq(StepNames)
        BY Tuples DEF StepNames, ServiceSteps, SetupSteps
      <4>2. Has(l, Commits) /\ ~Has(l, Opening) /\ Suits(l, "setup")
        BY DEF Has, Suits, Commits, Opening, OtherSteps, Forgets
      <4>3. Shape(l) /\ l # <<>> /\ Len(l) = 5 /\ l[1] = "write"
        BY InstallShapes
      <4> HIDE DEF a, l
      <4> QED BY <3>1, <4>1, <4>2, <4>3
    <3>2. CASE a = s
      <4>1. s \in Seq(StepNames)
        BY Tuples DEF StepNames, ServiceSteps, SetupSteps
      <4>2. Has(s, Commits) /\ ~Has(s, Opening) /\ Suits(s, "setup")
        BY DEF Has, Suits, Commits, Opening, OtherSteps, Forgets
      <4>3. Shape(s) /\ s # <<>> /\ Len(s) = 5 /\ s[1] = "write"
        BY InstallShapes
      <4> HIDE DEF a, s
      <4> QED BY <3>2, <4>1, <4>2, <4>3
    <3> QED BY <3>1, <3>2, Installing
  <2> HIDE DEF a
  <2>2. Shape(a \o r) /\ Has(a \o r, Commits) /\ Suits(a \o r, cli[p].cmd) /\ a \o r \in Seq(StepNames)
    <3>1. ~Has(r, Opening \cup Debts \cup {"write"})
      BY <1>4, HasMore
    <3> QED BY <1>3, <1>4, <2>1, <3>1, Prepending, ConcatHas, ConcatSuits, ConcatIs
  <2>3. a \o r # <<>> /\ Head(a \o r) = "write"
    <3>1. Len(a \o r) > 0 /\ (a \o r)[1] = "write"
      BY <1>4, <2>1, ConcatIs
    <3> QED BY <2>2, <3>1, TailIs
  <2> QED BY <1>1, <1>2, <1>6, <2>2, <2>3, InstallBegins
<1>7. CASE Goes(p, <<"start-if-down">> \o r)
  <2> DEFINE b == <<"start-if-down">>
  <2>1. b \in Seq(StepNames) /\ Suits(b, cli[p].cmd) /\ \A i \in 1 .. Len(b) : b[i] \in Free
    <3>1. b \in Seq(StepNames)
      BY Tuples DEF StepNames, SetupSteps
    <3>2. Suits(b, cli[p].cmd)
      BY <1>3 DEF Suits, Has, OtherSteps, Forgets
    <3>3. \A i \in 1 .. Len(b) : b[i] \in Free
      BY DEF Free, StepNames, SetupSteps, Opening, Debts, Commits, RemovalDebts, Forgets
    <3> QED BY <3>1, <3>2, <3>3
  <2> HIDE DEF b
  <2> QED BY <1>1, <1>2, <1>7, <2>1, Expands DEF b, r
<1>8. CASE Ends(p, "backend") \/ Ends(p, "ownership")
  BY <1>1, <1>2, <1>8, Stops
<1> QED BY <1>1, <1>5, <1>6, <1>7, <1>8

\* Whose command takes the step it is at.
LEMMA HeadSuits ==
  ASSUME CliTypes, NEW p \in Cli, Live(p)
  PROVE  /\ Head(cli[p].todo) \in SetupSteps => cli[p].cmd = "setup"
         /\ Head(cli[p].todo) \in OtherSteps => cli[p].cmd # "setup"
<1>1. cli[p].todo \in Seq(StepNames) /\ cli[p].todo # <<>> /\ Suits(cli[p].todo, cli[p].cmd)
  BY Todo
<1>2. cli[p].todo[1] = Head(cli[p].todo) /\ 1 \in 1 .. Len(cli[p].todo)
  BY <1>1, TailIs
<1> QED BY <1>1, <1>2 DEF Suits, Has

\* A record that is written is the backend's own.
LEMMA RecordIs ==
  ASSUME WorldTypes, NEW path \in Paths
  PROVE  Record(path) \in Records /\ ~Unclaimed(Record(path))
<1>1. Record(path) \in Records
  BY DEF Record, Records, WorldTypes, Managers
<1> QED BY <1>1, OnboardingNames DEF Record, Unclaimed

\* The record is written for the path that the definition names.
LEMMA CommitSerial ==
  ASSUME CliTypes, WorldTypes, Serial, NEW p \in Cli, Live(p), Head(cli[p].todo) \in Commits,
         Live(p)' <=> Rest(p) # <<>>, \A q \in Cli \ {p} : cli'[q] = cli[q],
         Rest(p) # <<>> => /\ cli'[p].todo = Rest(p) /\ cli'[p].cmd = cli[p].cmd
                           /\ cli'[p].path = cli[p].path,
         cli[p].cmd = "setup" /\ Rest(p) # <<>> => cli'[p].meta.service = meta'.service,
         backend' = backend, messy' = messy, os' = os, meta'.service = Record(cli[p].path)
  PROVE  Serial'
<1> DEFINE t == cli[p].todo
           r == Rest(p)
<1>1. /\ Head(t) \notin Opening /\ Head(t) # "write" /\ Head(t) \notin RemovalDebts
      /\ Head(t) # "installer"
  BY DEF Commits, Opening, RemovalDebts, Forgets
<1>2. t \notin Openings /\ cli[p].path \in Paths
  BY <1>1, Todo, Heads, RestTypes
<1>3. Has(t, Commits)
  BY Todo, TailIs DEF Has
<1>4. ~Has(t, RemovalDebts) /\ ~Has(r, RemovalDebts) /\ ~Has(r, {"save-uninstalled"})
  <2>1. ~Has(t, RemovalDebts)
    BY <1>3, Todo, Heads
  <2>2. ~Has(r, RemovalDebts)
    BY <1>1, <2>1, RestTypes
  <2> QED BY <2>1, <2>2, HasLess DEF RemovalDebts, Forgets
<1> HIDE DEF r
<1>5. ASSUME ~messy PROVE os.defn = cli[p].path
  BY <1>1, <1>2, <1>3, <1>5, Alone DEF Knows
<1> HIDE DEF t
<1>6. ASSUME ~messy, Live(p)' PROVE Knows(p)'
  BY <1>4, <1>5, <1>6 DEF Knows, r
<1>7. ASSUME ~messy PROVE Agree'
  BY <1>2, <1>5, <1>7, RecordIs DEF Agree, Unclaimed, Record
<1> QED BY <1>2, <1>6, <1>7, Turn DEF r, t

\* A setup records the service it installed, in its copy of the metadata.
LEMMA SaveServiceKeeps ==
  ASSUME OnboardingTypes, Serial, NEW p \in Cli, SaveService(p)
  PROVE  OnboardingTypes' /\ Serial'
<1> DEFINE r == Rest(p)
           copy == [cli[p].meta EXCEPT !.service = Record(cli[p].path)]
           c == [cli[p] EXCEPT !.meta = copy, !.todo = r]
<1>1. /\ Live(p) /\ Head(cli[p].todo) = "save-service" /\ CliTypes /\ WorldTypes
      /\ UNCHANGED <<backend, os, disk, prefix, host, pi, events, messy>>
      /\ meta' = copy /\ cli' = [cli EXCEPT ![p].meta = copy, ![p].todo = r]
  BY DEF SaveService, At, OnboardingTypes
<1>2. "save-service" \in Commits /\ "save-service" \notin Opening
  BY DEF Commits, Opening
<1>3. /\ r \in Seq(StepNames) /\ Shape(r) /\ Suits(r, cli[p].cmd) /\ cli[p].path \in Paths
      /\ cli[p] \in CommandStates /\ cli[p].meta \in Metadata
  BY <1>1, <1>2, RestTypes, Todo
<1>4. copy \in Metadata /\ copy.service = Record(cli[p].path)
  BY <1>1, <1>3, RecordIs DEF Metadata
<1> HIDE DEF copy, r
<1>5. /\ c \in CommandStates /\ c.todo = r /\ c.cmd = cli[p].cmd /\ c.meta = copy /\ c.path = cli[p].path
      /\ cli' = [cli EXCEPT ![p] = c]
  <2>1. cli \in [Cli -> CommandStates]
    BY <1>1 DEF CliTypes
  <2> QED BY <1>1, <1>3, <1>4, <2>1 DEF CommandStates
<1> HIDE DEF c
<1>6. WellPlaced(c)
  BY <1>3, <1>5 DEF WellPlaced
<1>7. CliTypes' /\ cli'[p] = c /\ \A q \in Cli \ {p} : cli'[q] = cli[q]
  BY <1>1, <1>5, <1>6, MoveTypes
<1>8. Serial'
  BY <1>1, <1>2, <1>4, <1>5, <1>7, CommitSerial DEF Live, r
<1> QED BY <1>1, <1>4, <1>7, <1>8 DEF OnboardingTypes, WorldTypes

\* Another command records it in the file as it is.
LEMMA MergeServiceKeeps ==
  ASSUME OnboardingTypes, Serial, NEW p \in Cli, MergeService(p)
  PROVE  OnboardingTypes' /\ Serial'
<1> DEFINE copy == [meta EXCEPT !.service = Record(cli[p].path), !.installer = cli[p].path,
                                !.source = IF @ = None THEN "release" ELSE @]
<1>1. /\ Live(p) /\ Head(cli[p].todo) = "merge-service" /\ CliTypes /\ WorldTypes
      /\ UNCHANGED <<backend, os, disk, prefix, host, pi, events, messy>>
      /\ meta' = copy /\ Goes(p, Rest(p))
  BY DEF MergeService, At, OnboardingTypes
<1>2. "merge-service" \in Commits /\ "merge-service" \notin Opening /\ "merge-service" \in OtherSteps
  BY DEF Commits, Opening, OtherSteps
<1>3. cli[p].cmd # "setup" /\ cli[p].path \in Paths
  BY <1>1, <1>2, HeadSuits, RestTypes
<1>4. copy \in Metadata /\ copy.service = Record(cli[p].path)
  BY <1>1, <1>3, RecordIs DEF WorldTypes, Metadata, MaybePath
<1> HIDE DEF copy
<1>5. /\ CliTypes' /\ (Live(p)' <=> Rest(p) # <<>>) /\ \A q \in Cli \ {p} : cli'[q] = cli[q]
      /\ Rest(p) # <<>> => /\ cli'[p].todo = Rest(p) /\ cli'[p].cmd = cli[p].cmd
                           /\ cli'[p].meta = cli[p].meta /\ cli'[p].path = cli[p].path
  BY <1>1, <1>2, RestTypes, GoesTypes
<1>6. Serial'
  BY <1>1, <1>2, <1>3, <1>4, <1>5, CommitSerial
<1> QED BY <1>1, <1>4, <1>5, <1>6 DEF OnboardingTypes, WorldTypes

\* A setup starts a service that is down.
LEMMA StartIfDownKeeps ==
  ASSUME OnboardingTypes, Serial, NEW p \in Cli, StartIfDown(p)
  PROVE  OnboardingTypes' /\ Serial'
<1>1. /\ Live(p) /\ Head(cli[p].todo) = "start-if-down" /\ UNCHANGED World
      /\ "start-if-down" \in Decisions \ HostSteps /\ "failed" \in Results
      /\ Goes(p, Rest(p)) \/ Ends(p, "failed") \/ Goes(p, StartService \o Rest(p))
  BY DEF StartIfDown, At, World, Decisions, HostSteps, Results
<1>2. StartService \in Seq(StepNames) /\ Suits(StartService, cli[p].cmd) /\ \A i \in 1 .. Len(StartService) : StartService[i] \in Free
  <2>1. StartService \in Seq(StepNames)
    BY Tuples DEF StartService, LaunchdStart, SystemdStart, StepNames, ServiceSteps
  <2>2. Suits(StartService, cli[p].cmd)
    BY DEF Suits, Has, SetupSteps, OtherSteps, Forgets, StartService, LaunchdStart, SystemdStart
  <2>3. \A i \in 1 .. Len(StartService) : StartService[i] \in {"bootout", "bootstrap", "kickstart", "start"}
    BY DEF StartService, LaunchdStart, SystemdStart
  <2>4. {"bootout", "bootstrap", "kickstart", "start"} \subseteq Free
    BY DEF Free, StepNames, ServiceSteps, Opening, Debts, Commits, RemovalDebts, Forgets
  <2> QED BY <2>1, <2>2, <2>3, <2>4
<1> QED BY <1>1, <1>2, Proceeds, Stops, Expands

\* The checks a setup ends with.
LEMMA WaitReadyKeeps ==
  ASSUME OnboardingTypes, Serial, NEW p \in Cli, WaitReady(p) \/ BridgeHealth(p) \/ Readiness(p)
  PROVE  OnboardingTypes' /\ Serial'
<1>1. /\ Live(p) /\ Head(cli[p].todo) \in Decisions /\ UNCHANGED World
      /\ "not-ready" \in Results /\ "ready" \in Results
      /\ Goes(p, Rest(p)) \/ Ends(p, "not-ready") \/ Ends(p, "ready")
  BY DEF WaitReady, BridgeHealth, Readiness, At, World, Decisions, Results
<1> QED BY <1>1, Proceeds, Stops

\* What may become of a Pi package.
LEMMA Verdicts ==
  ASSUME NEW ver
  PROVE  ensureExactPiPackage(ver) \in {"reused", "pi-foreign", "pi-broken", "no-pi", "install"}
  BY DEF ensureExactPiPackage

\* The steps of its installation are owed by nobody.
LEMMA PiPlans ==
  ASSUME NEW a, a \in {<<"pi-install", "merge-pi">>, <<"merge-pi">>}
  PROVE  a \in Seq(StepNames) /\ (\A cmd : Suits(a, cmd)) /\ \A i \in 1 .. Len(a) : a[i] \in Free
<1>1. a \in Seq(StepNames)
  <2>1. "pi-install" \in StepNames /\ "merge-pi" \in StepNames
    BY DEF StepNames
  <2> QED BY <2>1, Tuples
<1>2. \A cmd : Suits(a, cmd)
  BY DEF Suits, Has, SetupSteps, OtherSteps, Forgets
<1>3. \A i \in 1 .. Len(a) : a[i] \in Free
  BY DEF Free, StepNames, Opening, Debts, Commits, RemovalDebts, Forgets
<1> QED BY <1>1, <1>2, <1>3

\* A setup installs the Pi package.
LEMMA AdapterKeeps ==
  ASSUME OnboardingTypes, Serial, NEW p \in Cli, Adapter(p)
  PROVE  OnboardingTypes' /\ Serial'
<1> DEFINE a == <<"pi-install", "save-pi">>
           v == ensureExactPiPackage(cli[p].ver)
<1>1. /\ Live(p) /\ Head(cli[p].todo) = "adapter" /\ UNCHANGED World /\ CliTypes
      /\ "adapter" \in Decisions \ HostSteps /\ "no-pi" \in Results /\ "adapter" \in SetupSteps
      /\ \/ Goes(p, Rest(p)) \/ Ends(p, "no-pi") \/ Goes(p, a \o Rest(p))
         \/ v \notin {"reused", "install"} /\ Ends(p, v)
  BY DEF Adapter, At, World, Decisions, HostSteps, Results, SetupSteps, OnboardingTypes
<1>2. a \in Seq(StepNames) /\ Suits(a, cli[p].cmd) /\ \A i \in 1 .. Len(a) : a[i] \in Free
  <2>1. a \in Seq(StepNames)
    BY Tuples DEF StepNames, SetupSteps
  <2>2. Suits(a, cli[p].cmd)
    BY <1>1, HeadSuits DEF Suits, Has, OtherSteps, Forgets
  <2>3. \A i \in 1 .. Len(a) : a[i] \in Free
    BY DEF Free, StepNames, SetupSteps, Opening, Debts, Commits, RemovalDebts, Forgets
  <2> QED BY <2>1, <2>2, <2>3
<1>3. v \notin {"reused", "install"} => v \in Results
  BY Verdicts DEF Results
<1> HIDE DEF a, v
<1> QED BY <1>1, <1>2, <1>3, Proceeds, Stops, Expands

\* Another command does.
LEMMA ConvergePiKeeps ==
  ASSUME OnboardingTypes, Serial, NEW p \in Cli, ConvergePi(p)
  PROVE  OnboardingTypes' /\ Serial'
<1> DEFINE a == <<"pi-install", "merge-pi">>
           b == <<"merge-pi">>
<1>1. /\ Live(p) /\ Head(cli[p].todo) = "converge-pi" /\ UNCHANGED World
      /\ "converge-pi" \in Decisions \ HostSteps /\ "failed" \in Results
      /\ Goes(p, b \o Rest(p)) \/ Ends(p, "failed") \/ Goes(p, a \o Rest(p))
  BY DEF ConvergePi, At, World, Decisions, HostSteps, Results
<1>2. /\ a \in Seq(StepNames) /\ Suits(a, cli[p].cmd) /\ \A i \in 1 .. Len(a) : a[i] \in Free
      /\ b \in Seq(StepNames) /\ Suits(b, cli[p].cmd) /\ \A i \in 1 .. Len(b) : b[i] \in Free
  BY PiPlans
<1> HIDE DEF a, b
<1> QED BY <1>1, <1>2, Stops, Expands

\* A setup records the package, in its copy of the metadata.
LEMMA SavePiKeeps ==
  ASSUME OnboardingTypes, Serial, NEW p \in Cli, SavePi(p)
  PROVE  OnboardingTypes' /\ Serial'
<1>1. /\ Live(p) /\ Head(cli[p].todo) = "save-pi" /\ CliTypes /\ WorldTypes
      /\ UNCHANGED <<backend, os, disk, prefix, host, pi, events, messy>>
      /\ meta' = [cli[p].meta EXCEPT !.pi = cli[p].ver] /\ Goes(p, Rest(p))
      /\ "save-pi" \in SetupSteps /\ "save-pi" \in Decisions \ HostSteps /\ "save-pi" \notin Opening
  BY DEF SavePi, At, OnboardingTypes, SetupSteps, Decisions, HostSteps, Opening
<1>2. cli[p].meta \in Metadata /\ cli[p].ver \in Nat /\ cli[p].cmd = "setup"
  BY <1>1, Todo, HeadSuits
<1>3. meta' \in Metadata /\ meta'.service = cli[p].meta.service
  BY <1>1, <1>2 DEF Metadata
<1>4. CASE messy
  <2>1. CliTypes' /\ Serial'
    BY <1>1, <1>4, RestTypes, GoesTypes DEF Serial
  <2> QED BY <1>1, <1>3, <2>1 DEF OnboardingTypes, WorldTypes
<1>5. CASE ~messy
  <2>1. cli[p].todo \notin Openings /\ ~Has(cli[p].todo, {"installer"})
    BY <1>1, DecisionsOweNothing
  <2>2. cli[p].meta.service = meta.service
    BY <1>1, <1>2, <1>5, <2>1, Alone DEF Knows
  <2>3. CliTypes' /\ Serial'
    BY <1>1, <1>3, <2>2, DecisionsOweNothing, RestKeeps
  <2> QED BY <1>1, <1>3, <2>3 DEF OnboardingTypes, WorldTypes
<1> QED BY <1>4, <1>5

\* An upgrade replaces the CLI on disk.
LEMMA SelfUpgradeKeeps ==
  ASSUME OnboardingTypes, Serial, NEW p \in Cli, SelfUpgrade(p)
  PROVE  OnboardingTypes' /\ Serial'
<1> DEFINE r == Rest(p)
           v == disk'[cli[p].path]
           c == [cli[p] EXCEPT !.todo = r, !.ver = v]
<1>1. /\ Live(p) /\ Head(cli[p].todo) = "self-upgrade" /\ CliTypes /\ WorldTypes
      /\ UNCHANGED <<backend, os, prefix, meta, host, pi, events, messy>>
      /\ disk' = [disk EXCEPT ![prefix] = Latest]
      /\ cli' = [cli EXCEPT ![p].todo = r, ![p].ver = v]
      /\ "self-upgrade" \in Decisions \ HostSteps /\ "self-upgrade" \notin Opening
  BY DEF SelfUpgrade, At, OnboardingTypes, Decisions, HostSteps, Opening
<1>2. /\ r \in Seq(StepNames) /\ Shape(r) /\ Suits(r, cli[p].cmd) /\ cli[p].path \in Paths
      /\ cli[p] \in CommandStates
  BY <1>1, RestTypes, Todo
<1>3. disk' \in [Paths -> Nat] /\ v \in Nat
  BY <1>1, <1>2, OnboardingBounds DEF WorldTypes
<1> HIDE DEF r, v
<1>4. /\ c \in CommandStates /\ c.todo = r /\ c.cmd = cli[p].cmd /\ c.meta = cli[p].meta /\ c.path = cli[p].path
      /\ cli' = [cli EXCEPT ![p] = c]
  <2>1. cli \in [Cli -> CommandStates]
    BY <1>1 DEF CliTypes
  <2> QED BY <1>1, <1>2, <1>3, <2>1 DEF CommandStates
<1> HIDE DEF c
<1>5. WellPlaced(c)
  BY <1>2, <1>4 DEF WellPlaced
<1>6. CliTypes' /\ cli'[p] = c /\ \A q \in Cli \ {p} : cli'[q] = cli[q]
  BY <1>1, <1>4, <1>5, MoveTypes
<1>7. Serial'
  BY <1>1, <1>4, <1>6, DecisionsOweNothing, RestSerial DEF Live, r
<1> QED BY <1>1, <1>3, <1>6, <1>7 DEF OnboardingTypes, WorldTypes

\* What an installation writes first and what it ends with.
LEMMA Merging ==
  /\ InstallService \o <<"merge-service">> \in Seq(StepNames)
  /\ Shape(InstallService \o <<"merge-service">>)
  /\ (InstallService \o <<"merge-service">>)[1] = "write"
  /\ Has(InstallService \o <<"merge-service">>, Commits) /\ ~Has(InstallService \o <<"merge-service">>, Opening)
  /\ \A cmd : cmd # "setup" => Suits(InstallService \o <<"merge-service">>, cmd)
<1> DEFINE m == <<"merge-service">>
           i == InstallService
           t == i \o m
<1>1. i \in Seq(StepNames) /\ m \in Seq(StepNames) /\ t \in Seq(StepNames)
  BY Installing, Tuples, ConcatIs DEF StepNames
<1>2. Len(i) = 3 /\ i[1] = "write" /\ i[2] \in InstallSteps \ {"write"} /\ i[3] \in InstallSteps \ {"write"}
  BY DEF InstallService, LaunchdInstall, SystemdInstall, InstallSteps
<1>3. Len(m) = 1 /\ m[1] = "merge-service"
  OBVIOUS
<1> HIDE DEF m, i
<1>4. /\ Len(t) = 4 /\ t[1] = "write" /\ t[2] \in InstallSteps \ {"write"}
      /\ t[3] \in InstallSteps \ {"write"} /\ t[4] = "merge-service"
  <2>0. /\ Len(t) = Len(i) + Len(m)
        /\ \A k \in 1 .. Len(i) : t[k] = i[k]
        /\ \A k \in 1 .. Len(m) : t[k + Len(i)] = m[k]
    BY <1>1, ConcatIs
  <2> HIDE DEF t
  <2>1. Len(t) = 4
    BY <1>2, <1>3, <2>0
  <2>2. t[1] = i[1] /\ t[2] = i[2] /\ t[3] = i[3]
    BY <1>2, <2>0
  <2>3. t[4] = m[1]
    <3>1. t[1 + 3] = m[1]
      BY <1>2, <1>3, <2>0
    <3> QED BY <3>1
  <2> QED BY <1>2, <1>3, <2>1, <2>2, <2>3
<1> HIDE DEF t
<1>5. \A k \in 1 .. Len(t) : t[k] \in InstallSteps \cup {"merge-service"} /\ (t[k] = "write" => k = 1) /\ (t[k] = "merge-service" => k = 4)
  BY <1>4 DEF InstallSteps
<1>6. Has(t, Commits)
  BY <1>4 DEF Has, Commits
<1>7. ~Has(t, Opening)
  BY <1>5 DEF Has, Opening, InstallSteps
<1>8. Shape(t)
  <2>1. ASSUME NEW k \in 1 .. Len(t), t[k] \in Commits, NEW j \in 1 .. (k - 1) PROVE t[j] \in InstallSteps
    BY <2>1, <1>4, <1>5 DEF Commits, InstallSteps
  <2>2. \A k \in 1 .. Len(t) : t[k] \notin RemovalDebts /\ t[k] # "installer" /\ t[k] # "bridge-service"
    BY <1>5 DEF RemovalDebts, Forgets, InstallSteps
  <2> QED BY <1>5, <1>6, <1>7, <2>1, <2>2 DEF Shape
<1>9. ASSUME NEW cmd, cmd # "setup" PROVE Suits(t, cmd)
  BY <1>5, <1>9 DEF Suits, Has, SetupSteps, InstallSteps
<1> QED BY <1>1, <1>4, <1>6, <1>7, <1>8, <1>9 DEF t, m, i

\* An upgrade or `service install' installs the service for its own path.
LEMMA ServiceInstallKeeps ==
  ASSUME OnboardingTypes, Serial, NEW p \in Cli, ServiceInstall(p)
  PROVE  OnboardingTypes' /\ Serial'
<1> DEFINE a == InstallService \o <<"merge-service">>
           r == Rest(p)
<1>1. /\ Live(p) /\ Head(cli[p].todo) \in {"up-service", "svc-install"} /\ UNCHANGED World /\ CliTypes
      /\ \/ Goes(p, r) \/ Ends(p, "failed") \/ Goes(p, a)
         \/ \E skip \in BOOLEAN :
               Keeping(p, InstallService \o <<"merge-service">>
                            \o (IF skip THEN <<>> ELSE RestartService) \o r, skip)
  BY DEF ServiceInstall, At, World, OnboardingTypes
<1>2. {"up-service", "svc-install"} \subseteq (Decisions \ HostSteps) \cap OtherSteps /\ "failed" \in Results
  BY DEF Decisions, HostSteps, OtherSteps, Results
<1>3. cli[p].cmd # "setup"
  BY <1>1, <1>2, HeadSuits
<1>4. /\ r \in Seq(StepNames) /\ Shape(r) /\ Suits(r, cli[p].cmd)
      /\ ~Has(r, Opening \cup Debts \cup {"write"}) /\ ~Has(r, {"installer"})
  BY <1>1, <1>2, DecisionsOweNothing, RestTypes, HasMore
<1>5. /\ RestartService \in Seq(StepNames) /\ Suits(RestartService, cli[p].cmd)
      /\ Shape(RestartService) /\ ~Has(RestartService, Opening \cup Debts \cup {"write"})
      /\ ~Has(RestartService, {"installer"})
  <2>1. RestartService \in Seq(StepNames)
    BY Tuples DEF RestartService, LaunchdRestart, SystemdRestart, StepNames, ServiceSteps
  <2>2. Suits(RestartService, cli[p].cmd) /\ ~Has(RestartService, {"installer"})
    BY DEF Suits, Has, SetupSteps, OtherSteps, Forgets, RestartService, LaunchdRestart, SystemdRestart
  <2>3. \A i \in 1 .. Len(RestartService) : RestartService[i] \in {"kickstart-k", "restart"}
    BY DEF RestartService, LaunchdRestart, SystemdRestart
  <2>4. {"kickstart-k", "restart"} \subseteq Free
    BY DEF Free, StepNames, ServiceSteps, Opening, Debts, Commits, RemovalDebts, Forgets
  <2> QED BY <2>1, <2>2, <2>3, <2>4, FreeShape, HasMore
<1>6. /\ a \in Seq(StepNames) /\ Shape(a) /\ a[1] = "write" /\ Has(a, Commits) /\ ~Has(a, Opening)
      /\ Suits(a, cli[p].cmd) /\ a # <<>> /\ Len(a) > 0
  <2>1. /\ a \in Seq(StepNames) /\ Shape(a) /\ a[1] = "write" /\ Has(a, Commits) /\ ~Has(a, Opening)
        /\ Suits(a, cli[p].cmd)
    BY <1>3, Merging
  <2> HIDE DEF a
  <2>2. Len(a) > 0
    BY <2>1 DEF Has
  <2> QED BY <2>1, <2>2
<1> HIDE DEF a, r
<1>7. CASE Goes(p, a)
  <2>1. Head(a) = "write"
    BY <1>6, TailIs
  <2> QED BY <1>1, <1>2, <1>6, <1>7, <2>1, InstallBegins
<1>8. ASSUME NEW skip \in BOOLEAN,
             Keeping(p, a \o (IF skip THEN <<>> ELSE RestartService) \o r, skip)
      PROVE  OnboardingTypes' /\ Serial'
  <2> DEFINE e == IF skip THEN <<>> ELSE RestartService
             b == a \o e
  <2>1. /\ e \in Seq(StepNames) /\ Suits(e, cli[p].cmd) /\ Shape(e)
        /\ ~Has(e, Opening \cup Debts \cup {"write"}) /\ ~Has(e, {"installer"})
    <3>1. CASE skip
      <4>1. <<>> \in Seq(StepNames) /\ \A i \in 1 .. Len(<<>>) : <<>>[i] \in Free
        BY Tuples
      <4>2. Shape(<<>>) /\ ~Has(<<>>, Opening \cup Debts \cup {"write"})
        BY <4>1, FreeShape, HasMore
      <4>3. Suits(<<>>, cli[p].cmd) /\ ~Has(<<>>, {"installer"})
        BY DEF Suits, Has
      <4> QED BY <3>1, <4>1, <4>2, <4>3
    <3>2. CASE ~skip
      BY <1>5, <3>2
    <3> QED BY <3>1, <3>2
  <2>2. Keeping(p, b \o r, skip)
    BY <1>8
  <2> HIDE DEF e
  <2>3. /\ b \in Seq(StepNames) /\ Shape(b) /\ b[1] = "write" /\ Has(b, Commits) /\ ~Has(b, Opening)
        /\ Suits(b, cli[p].cmd) /\ Len(b) > 0
    <3>1. b[1] = "write" /\ Len(b) > 0 /\ b \in Seq(StepNames)
      BY <1>6, <2>1, ConcatIs
    <3> QED BY <1>6, <2>1, <3>1, Prepending, ConcatHas, ConcatSuits
  <2> HIDE DEF b
  <2>4. /\ b \o r \in Seq(StepNames) /\ Shape(b \o r) /\ (b \o r)[1] = "write"
        /\ Has(b \o r, Commits) /\ Suits(b \o r, cli[p].cmd) /\ Len(b \o r) > 0
    <3>1. (b \o r)[1] = "write" /\ Len(b \o r) > 0 /\ b \o r \in Seq(StepNames)
      BY <1>4, <2>3, ConcatIs
    <3> QED BY <1>4, <2>3, <3>1, Prepending, ConcatHas, ConcatSuits
  <2>5. b \o r # <<>> /\ Head(b \o r) = "write"
    BY <2>4, TailIs
  <2> QED BY <1>1, <1>2, <2>2, <2>4, <2>5, InstallBegins
<1>9. \/ Goes(p, r) \/ Ends(p, "failed") \/ Goes(p, a)
      \/ \E skip \in BOOLEAN : Keeping(p, a \o (IF skip THEN <<>> ELSE RestartService) \o r, skip)
  BY <1>1 DEF a, r
<1> QED BY <1>1, <1>2, <1>7, <1>8, <1>9, Proceeds, Stops DEF r

\* A removal may take its steps in any order.
LEMMA RemovalShape ==
  ASSUME NEW t \in Seq(StepNames), \A i \in 1 .. Len(t) : t[i] \in RemovalSteps
  PROVE  /\ Shape(t) /\ ~Has(t, Commits) /\ ~Has(t, {"installer"})
         /\ \A cmd : cmd # "setup" => Suits(t, cmd)
<1>1. \A i \in 1 .. Len(t) : t[i] \notin Opening \cup Commits \cup SetupSteps \cup {"write", "installer", "bridge-service"}
  BY DEF RemovalSteps, RemovalDebts, Forgets, Opening, Commits, SetupSteps
<1> QED BY <1>1 DEF Shape, Has, Suits

\* The steps of a removal: without a definition there may be none.
LEMMA Uninstalling ==
  /\ UninstallService \in Seq(StepNames)
  /\ \A i \in 1 .. Len(UninstallService) : UninstallService[i] \in RemovalSteps \ Forgets
  /\ Has(UninstallService, {"remove"}) \/ (UninstallService = <<>> /\ os.defn = None)
<1>1. LaunchdUninstall \in Seq(StepNames) /\ SystemdUninstall \in Seq(StepNames)
  BY Tuples DEF LaunchdUninstall, SystemdUninstall, StepNames, ServiceSteps
<1>2. \A i \in 1 .. Len(LaunchdUninstall) : LaunchdUninstall[i] \in RemovalSteps \ Forgets
  BY DEF LaunchdUninstall, RemovalSteps, RemovalDebts, Forgets
<1>3. \A i \in 1 .. Len(SystemdUninstall) : SystemdUninstall[i] \in RemovalSteps \ Forgets
  BY DEF SystemdUninstall, RemovalSteps, RemovalDebts, Forgets
<1>4. Has(LaunchdUninstall, {"remove"})
  BY DEF LaunchdUninstall, Has
<1>5. Has(SystemdUninstall, {"remove"}) \/ (SystemdUninstall = <<>> /\ os.defn = None)
  BY DEF SystemdUninstall, Has, Unit
<1> QED BY <1>1, <1>2, <1>3, <1>4, <1>5 DEF UninstallService

\* Whoever decides to remove the service owes the definition and the record their deletion.
LEMMA RemovalBegins ==
  ASSUME CliTypes, Serial, NEW p \in Cli, Live(p), Head(cli[p].todo) \in Decisions,
         cli[p].cmd # "setup", NEW todo \in Seq(StepNames), backend' = backend, messy' = messy, os' = os,
         meta' = meta, \A i \in 1 .. Len(todo) : todo[i] \in RemovalSteps,
         Live(p)' <=> todo # <<>>, \A q \in Cli \ {p} : cli'[q] = cli[q],
         todo # <<>> => cli'[p].todo = todo /\ cli'[p].cmd = cli[p].cmd,
         ~messy /\ Agree => \/ Has(todo, {"remove"}) \/ os.defn = None,
         ~messy /\ Agree /\ Has(todo, RemovalDebts) => Has(todo, Forgets) \/ Unclaimed(meta.service),
         ~messy /\ Agree /\ Has(todo, {"save-uninstalled"}) => Unclaimed(cli'[p].meta.service)
  PROVE  Serial'
<1>1. cli[p].todo \notin Openings /\ ~Has(cli[p].todo, Debts)
  BY DecisionsOweNothing
<1>2. ASSUME ~messy PROVE Agree
  BY <1>1, <1>2, Alone
<1>3. ~Has(todo, Commits)
  BY RemovalShape
<1>4. ASSUME ~messy, Live(p)' PROVE Knows(p)'
  BY <1>2, <1>3, <1>4 DEF Knows, Unclaimed
<1>5. ASSUME ~messy PROVE Agree'
  BY <1>2, <1>5 DEF Agree, Unclaimed, Record
<1> QED BY <1>1, <1>4, <1>5, Turn

\* The other commands of the service decide.
LEMMA ServiceCommandKeeps ==
  ASSUME OnboardingTypes, Serial, NEW p \in Cli, ServiceCommand(p)
  PROVE  OnboardingTypes' /\ Serial'
<1> DEFINE m == <<"merge-no-service">>
           u == UninstallService
<1>1. /\ Live(p) /\ Head(cli[p].todo) \in {"svc-uninstall", "svc-start", "svc-restart", "svc-stop"}
      /\ UNCHANGED World /\ CliTypes
      /\ \/ Ends(p, "done") \/ Ends(p, "failed")
         \/ Goes(p, StartService) \/ Goes(p, RestartService) \/ Goes(p, StopService)
         \/ Head(cli[p].todo) = "svc-uninstall" /\ Goes(p, u \o m)
         \/ Head(cli[p].todo) = "svc-uninstall" /\ meta.service = None /\ Goes(p, u)
  BY DEF ServiceCommand, At, World, OnboardingTypes
<1>2. /\ {"svc-uninstall", "svc-start", "svc-restart", "svc-stop"} \subseteq Decisions \ HostSteps
      /\ "failed" \in Results /\ "done" \in Results /\ "svc-uninstall" \in OtherSteps
  BY DEF Decisions, HostSteps, OtherSteps, Results
<1>3. CASE Ends(p, "done") \/ Ends(p, "failed")
  BY <1>1, <1>2, <1>3, Stops
<1>4. CASE Goes(p, StartService) \/ Goes(p, RestartService) \/ Goes(p, StopService)
  <2>1. ASSUME NEW a, a = StartService \/ a = RestartService \/ a = StopService
        PROVE a \in Seq(StepNames) /\ Suits(a, cli[p].cmd) /\ \A i \in 1 .. Len(a) : a[i] \in Free
    <3>1. a \in {<<"bootout", "bootstrap", "kickstart">>, <<"start">>, <<"bootout">>, <<>>, <<"stop">>,
                 <<"kickstart-k">>, <<"restart">>}
      BY <2>1 DEF StartService, LaunchdStart, SystemdStart,
                   RestartService, LaunchdRestart, SystemdRestart, StopService, LaunchdStop, SystemdStop
    <3>2. a \in Seq({"bootout", "bootstrap", "kickstart", "start", "kickstart-k", "restart", "stop"})
      <4> DEFINE K == {"bootout", "bootstrap", "kickstart", "start", "kickstart-k", "restart", "stop"}
      <4>1. "bootout" \in K /\ "bootstrap" \in K /\ "kickstart" \in K /\ "start" \in K
            /\ "kickstart-k" \in K /\ "restart" \in K /\ "stop" \in K
        OBVIOUS
      <4> HIDE DEF K
      <4>2. a \in Seq(K)
        <5>1. <<"bootout", "bootstrap", "kickstart">> \in Seq(K)
          BY <4>1, Tuples
        <5>2. \A b \in K : <<b>> \in Seq(K)
          BY Tuples
        <5>3. <<>> \in Seq(K)
          BY Tuples
        <5>4. CASE a = <<"bootout", "bootstrap", "kickstart">>
          BY <5>1, <5>4
        <5>5. CASE a = <<>>
          BY <5>3, <5>5
        <5>6. CASE a \in {<<"start">>, <<"bootout">>, <<"stop">>, <<"kickstart-k">>, <<"restart">>}
          BY <4>1, <5>2, <5>6, Zenon
        <5> QED BY <3>1, <5>4, <5>5, <5>6
      <4> QED BY <4>2 DEF K
    <3>3. \A i \in 1 .. Len(a) : a[i] \in {"bootout", "bootstrap", "kickstart", "start", "kickstart-k", "restart", "stop"}
      BY <3>2
    <3>0. a \in Seq(StepNames)
      <4>1. {"bootout", "bootstrap", "kickstart", "start", "kickstart-k", "restart", "stop"} \subseteq StepNames
        BY DEF StepNames, ServiceSteps
      <4> QED BY <3>2, <4>1
    <3>4. {"bootout", "bootstrap", "kickstart", "start", "kickstart-k", "restart", "stop"} \subseteq Free
      BY DEF Free, StepNames, ServiceSteps, Opening, Debts, Commits, RemovalDebts, Forgets
    <3>5. {"bootout", "bootstrap", "kickstart", "start", "kickstart-k", "restart", "stop"}
             \cap (SetupSteps \cup OtherSteps) = {}
      BY DEF SetupSteps, OtherSteps, Forgets
    <3>6. Suits(a, cli[p].cmd)
      BY <3>3, <3>5 DEF Suits, Has
    <3> QED BY <3>0, <3>3, <3>4, <3>6
  <2> QED BY <1>1, <1>2, <1>4, <2>1, Replans
<1>5. CASE Head(cli[p].todo) = "svc-uninstall" /\ (Goes(p, u \o m) \/ (meta.service = None /\ Goes(p, u)))
  <2>1. cli[p].cmd # "setup"
    BY <1>1, <1>2, <1>5, HeadSuits
  <2>2. m \in Seq(StepNames) /\ m[1] \in RemovalSteps /\ Len(m) = 1 /\ Has(m, Forgets) /\ ~Has(m, {"save-uninstalled"})
    BY Tuples DEF StepNames, RemovalSteps, RemovalDebts, Forgets, Has
  <2>3. /\ u \in Seq(StepNames) /\ \A i \in 1 .. Len(u) : u[i] \in RemovalSteps \ Forgets
        /\ Has(u, {"remove"}) \/ os.defn = None
    BY Uninstalling
  <2> HIDE DEF u, m
  <2>4. ~Has(u, {"save-uninstalled"})
    BY <2>3 DEF Has, Forgets
  <2>5. PICK todo \in {u \o m, u} : Goes(p, todo) /\ (todo = u => (meta.service = None \/ todo = u \o m))
    BY <1>5
  <2>6. /\ todo \in Seq(StepNames) /\ \A i \in 1 .. Len(todo) : todo[i] \in RemovalSteps
        /\ Has(todo, {"remove"}) \/ os.defn = None
        /\ Has(todo, Forgets) \/ meta.service = None
    <3>1. CASE todo = u /\ meta.service = None
      BY <2>3, <3>1
    <3>2. CASE todo = u \o m
      <4>1. u \o m \in Seq(StepNames) /\ \A i \in 1 .. Len(u \o m) : (u \o m)[i] \in RemovalSteps
        <5>1. \A i \in 1 .. Len(m) : m[i] \in RemovalSteps
          BY <2>2
        <5> QED BY <2>2, <2>3, <5>1, ConcatIs
      <4> QED BY <2>2, <2>3, <2>4, <3>2, <4>1, ConcatHas
    <3> QED BY <2>5, <3>1, <3>2
  <2>7. Shape(todo) /\ Suits(todo, cli[p].cmd)
    BY <2>1, <2>6, RemovalShape
  <2>8. Head(cli[p].todo) \notin Opening \ {"lock"}
    BY <1>5 DEF Opening
  <2>9. /\ CliTypes' /\ (Live(p)' <=> todo # <<>>) /\ \A q \in Cli \ {p} : cli'[q] = cli[q]
        /\ todo # <<>> => cli'[p].todo = todo /\ cli'[p].cmd = cli[p].cmd
    BY <1>1, <2>5, <2>6, <2>7, <2>8, GoesTypes
  <2>10. ~Has(todo, {"save-uninstalled"}) /\ (Has(todo, Forgets) \/ Unclaimed(meta.service))
    <3>1. ~Has(todo, {"save-uninstalled"})
      <4>1. CASE todo = u
        BY <2>4, <4>1
      <4>2. CASE todo = u \o m
        BY <2>2, <2>3, <2>4, <4>2, ConcatHas
      <4> QED BY <4>1, <4>2
    <3> QED BY <2>6, <3>1 DEF Unclaimed
  <2>11. Serial'
    BY <1>1, <1>2, <1>5, <2>1, <2>6, <2>9, <2>10, RemovalBegins DEF World
  <2> QED BY <1>1, <2>9, <2>11 DEF OnboardingTypes, WorldTypes, World
<1> QED BY <1>1, <1>3, <1>4, <1>5

\* An uninstall decides, and keeps the metadata it will save.
LEMMA UninstallsKeeps ==
  ASSUME OnboardingTypes, Serial, NEW p \in Cli, Uninstalls(p)
  PROVE  OnboardingTypes' /\ Serial'
<1> DEFINE foreign == meta.service # None /\ ~Ours
           u == IF foreign THEN <<>> ELSE UninstallService
           k == IF cli[p].cmd = "uninstall" THEN <<>> ELSE <<"pi-remove">>
           w == IF cli[p].cmd = "purge" THEN <<"purge">> ELSE <<"save-uninstalled">>
           todo == u \o k \o w
           copy == [meta EXCEPT !.service = IF foreign THEN @ ELSE None,
                                !.pi = IF cli[p].cmd = "uninstall" THEN @ ELSE None]
           c == [cli[p] EXCEPT !.todo = todo, !.meta = copy]
<1>1. /\ Live(p) /\ Head(cli[p].todo) = "uninstall" /\ UNCHANGED World /\ CliTypes /\ WorldTypes
      /\ cli' = [cli EXCEPT ![p].todo = todo, ![p].meta = copy]
      /\ "uninstall" \in Decisions /\ "uninstall" \in OtherSteps /\ "uninstall" \notin Opening
  BY DEF Uninstalls, At, World, OnboardingTypes, Decisions, OtherSteps, Opening
<1>2. cli[p].cmd # "setup" /\ cli[p].path \in Paths /\ cli[p] \in CommandStates
  BY <1>1, HeadSuits, RestTypes, Todo
<1>3. foreign <=> meta.service # None /\ Unclaimed(meta.service)
  BY DEF Ours, Unclaimed
<1>4. copy \in Metadata /\ (copy.service = IF foreign THEN meta.service ELSE None)
  BY <1>1 DEF WorldTypes, Metadata
<1>5. Unclaimed(copy.service)
  BY <1>3, <1>4 DEF Unclaimed
<1>6. /\ u \in Seq(StepNames) /\ \A i \in 1 .. Len(u) : u[i] \in RemovalSteps
      /\ Has(u, {"remove"}) \/ os.defn = None \/ foreign
  <2>1. CASE foreign
    BY <2>1, Tuples
  <2>2. CASE ~foreign
    BY <2>2, Uninstalling
  <2> QED BY <2>1, <2>2
<1>7. k \in Seq(StepNames) /\ \A i \in 1 .. Len(k) : k[i] \in RemovalSteps
  <2>1. "pi-remove" \in StepNames /\ "pi-remove" \in RemovalSteps
    BY DEF StepNames, RemovalSteps
  <2>2. k \in {<<>>, <<"pi-remove">>}
    OBVIOUS
  <2> QED BY <2>1, <2>2, Tuples
<1>8. w \in Seq(StepNames) /\ (\A i \in 1 .. Len(w) : w[i] \in RemovalSteps) /\ Has(w, Forgets)
  <2>1. "purge" \in StepNames /\ "save-uninstalled" \in StepNames
        /\ "purge" \in Forgets /\ "save-uninstalled" \in Forgets /\ Forgets \subseteq RemovalSteps
    BY DEF StepNames, RemovalSteps, RemovalDebts, Forgets
  <2>2. w \in {<<"purge">>, <<"save-uninstalled">>}
    OBVIOUS
  <2>3. w \in Seq(StepNames) /\ Len(w) = 1 /\ w[1] \in Forgets
    BY <2>1, <2>2, Tuples
  <2> QED BY <2>1, <2>3 DEF Has
<1> HIDE DEF foreign, u, k, w, copy
<1>9. u \o k \in Seq(StepNames) /\ \A i \in 1 .. Len(u \o k) : (u \o k)[i] \in RemovalSteps
  BY <1>6, <1>7, ConcatIs
<1>10. /\ todo \in Seq(StepNames) /\ \A i \in 1 .. Len(todo) : todo[i] \in RemovalSteps
       /\ Has(todo, {"remove"}) \/ os.defn = None \/ foreign
       /\ Has(todo, Forgets)
  <2>1. todo = (u \o k) \o w
    BY <1>6, <1>7, <1>8
  <2>2. todo \in Seq(StepNames) /\ \A i \in 1 .. Len(todo) : todo[i] \in RemovalSteps
    BY <2>1, <1>8, <1>9, ConcatIs
  <2>3. \A S : Has(todo, S) <=> Has(u, S) \/ Has(k, S) \/ Has(w, S)
    BY <2>1, <1>6, <1>7, <1>8, <1>9, ConcatHas
  <2> QED BY <2>2, <2>3, <1>6, <1>8
<1> HIDE DEF todo
<1>11. todo # <<>> /\ Shape(todo) /\ Suits(todo, cli[p].cmd)
  BY <1>2, <1>10, RemovalShape DEF Has
<1>12. /\ c \in CommandStates /\ c.todo = todo /\ c.cmd = cli[p].cmd /\ c.meta = copy /\ c.path = cli[p].path
       /\ cli' = [cli EXCEPT ![p] = c]
  <2>1. cli \in [Cli -> CommandStates]
    BY <1>1 DEF CliTypes
  <2> QED BY <1>1, <1>2, <1>4, <1>10, <2>1 DEF CommandStates
<1> HIDE DEF c
<1>13. WellPlaced(c)
  BY <1>2, <1>11, <1>12 DEF WellPlaced
<1>14. CliTypes' /\ cli'[p] = c /\ \A q \in Cli \ {p} : cli'[q] = cli[q]
  BY <1>1, <1>12, <1>13, MoveTypes
<1>15. Agree => (Has(todo, {"remove"}) \/ os.defn = None)
  BY <1>3, <1>10 DEF Agree
<1>16. Serial'
  <2>1. Live(p)' /\ cli'[p].todo = todo /\ cli'[p].cmd = cli[p].cmd /\ cli'[p].meta = copy
    BY <1>11, <1>12, <1>14 DEF Live
  <2>2. backend' = backend /\ messy' = messy /\ os' = os /\ meta' = meta
    BY <1>1 DEF World
  <2>3. Unclaimed(cli'[p].meta.service)
    BY <1>5, <2>1
  <2> QED BY <1>1, <1>2, <1>10, <1>11, <1>14, <1>15, <2>1, <2>2, <2>3, RemovalBegins
<1> QED BY <1>1, <1>14, <1>16 DEF OnboardingTypes, WorldTypes, World

\* The record is forgotten: its definition is gone, or owes to be.
LEMMA ForgetKeeps ==
  ASSUME CliTypes, Serial, NEW p \in Cli, Live(p), Head(cli[p].todo) \in Forgets, Goes(p, Rest(p)),
         backend' = backend, messy' = messy, os' = os, ~messy => Unclaimed(meta'.service)
  PROVE  CliTypes' /\ Serial'
<1> DEFINE t == cli[p].todo
           r == Rest(p)
<1>1. /\ Head(t) \notin Opening /\ Head(t) \in RemovalDebts /\ Head(t) # "remove" /\ Head(t) \in OtherSteps
  BY DEF Forgets, Opening, RemovalDebts, OtherSteps
<1>2. t \notin Openings /\ cli[p].cmd # "setup"
  BY <1>1, Todo, Heads, HeadSuits
<1>3. Has(t, RemovalDebts)
  BY <1>1, Todo, TailIs DEF Has
<1>4. /\ ~Has(t, Commits) /\ ~Has(r, Commits) /\ (Has(r, {"remove"}) <=> Has(t, {"remove"}))
      /\ Has(r, {"save-uninstalled"}) => Has(t, {"save-uninstalled"})
  BY <1>1, <1>3, Todo, Heads, RestTypes
<1>5. /\ CliTypes' /\ (Live(p)' <=> r # <<>>) /\ \A q \in Cli \ {p} : cli'[q] = cli[q]
      /\ r # <<>> => /\ cli'[p].todo = r /\ cli'[p].cmd = cli[p].cmd
                     /\ cli'[p].meta = cli[p].meta /\ cli'[p].path = cli[p].path
  BY <1>1, RestTypes, GoesTypes
<1> HIDE DEF t, r
<1>6. ASSUME ~messy PROVE Knows(p)
  BY <1>2, <1>6, Alone DEF t
<1>7. ASSUME ~messy, Live(p)' PROVE Knows(p)'
  BY <1>2, <1>3, <1>4, <1>5, <1>6, <1>7 DEF Knows, Unclaimed, t
<1>8. ASSUME ~messy, Live(p)' => ~Has(cli'[p].todo, Debts) PROVE Agree'
  <2>1. ~Has(r, {"remove"})
    <3>1. CASE r = <<>>
      BY <3>1 DEF Has
    <3>2. CASE r # <<>>
      BY <3>2, <1>5, <1>8, HasLess DEF Debts, RemovalDebts
    <3> QED BY <3>1, <3>2
  <2>2. os.defn = None
    BY <2>1, <1>3, <1>4, <1>6, <1>8 DEF Knows, t
  <2> QED BY <2>2, <1>8 DEF Agree, Unclaimed
<1> QED BY <1>2, <1>5, <1>7, <1>8, Turn DEF t

\* A command writes the metadata.
LEMMA WriteMetadataKeeps ==
  ASSUME OnboardingTypes, Serial, NEW p \in Cli, WriteMetadata(p)
  PROVE  OnboardingTypes' /\ Serial'
<1>1. /\ Live(p) /\ CliTypes /\ WorldTypes /\ Goes(p, Rest(p))
      /\ UNCHANGED <<backend, os, disk, prefix, pi, events, messy>>
      /\ cli[p].meta \in Metadata /\ cli[p].ver \in Nat
  BY Todo DEF WriteMetadata, At, OnboardingTypes
<1>2. /\ meta' \in Metadata /\ host' \in [id : BOOLEAN, named : BOOLEAN, enc : BOOLEAN]
  <2>1. meta \in Metadata /\ host \in [id : BOOLEAN, named : BOOLEAN, enc : BOOLEAN]
    BY <1>1 DEF WorldTypes
  <2>2. NoMeta \in Metadata /\ NoHost \in [id : BOOLEAN, named : BOOLEAN, enc : BOOLEAN]
    BY DEF NoMeta, NoHost, Metadata, MaybePath
  <2>3. /\ [meta EXCEPT !.service = None] \in Metadata /\ [meta EXCEPT !.pi = None] \in Metadata
        /\ [meta EXCEPT !.pi = cli[p].ver] \in Metadata /\ [meta EXCEPT !.source = "dev"] \in Metadata
    <3>1. [meta EXCEPT !.service = None] \in Metadata
      BY <2>1 DEF Metadata
    <3>2. [meta EXCEPT !.pi = None] \in Metadata
      BY <2>1 DEF Metadata
    <3>3. [meta EXCEPT !.pi = cli[p].ver] \in Metadata
      BY <1>1, <2>1 DEF Metadata
    <3>4. [meta EXCEPT !.source = "dev"] \in Metadata
      BY <2>1 DEF Metadata
    <3> QED BY <3>1, <3>2, <3>3, <3>4
  <2> QED BY <1>1, <2>1, <2>2, <2>3 DEF WriteMetadata
<1>3. CliTypes' /\ Serial'
  <2>1. CASE At(p, "merge-no-service") /\ meta' = [meta EXCEPT !.service = None]
    <3>1. Unclaimed(meta'.service) /\ "merge-no-service" \in Forgets
      BY <1>1, <2>1 DEF Unclaimed, Forgets, WorldTypes, Metadata
    <3> QED BY <1>1, <2>1, <3>1, ForgetKeeps DEF At
  <2>2. CASE At(p, "purge") /\ meta' = NoMeta
    <3>1. Unclaimed(meta'.service) /\ "purge" \in Forgets
      BY <2>2 DEF Unclaimed, Forgets, NoMeta
    <3> QED BY <1>1, <2>2, <3>1, ForgetKeeps DEF At
  <2>3. CASE At(p, "save-uninstalled") /\ meta' = cli[p].meta
    <3>1. "save-uninstalled" \in Forgets /\ Head(cli[p].todo) = "save-uninstalled" /\ "save-uninstalled" \notin Opening
      BY <2>3 DEF Forgets, At, Opening
    <3>2. cli[p].todo \notin Openings
      BY <1>1, <3>1, Todo, Heads
    <3>3. Has(cli[p].todo, {"save-uninstalled"})
      BY <1>1, <3>1, Todo, TailIs DEF Has
    <3>4. ASSUME ~messy PROVE Unclaimed(meta'.service)
      BY <1>1, <2>3, <3>2, <3>3, <3>4, Alone DEF Knows
    <3> QED BY <1>1, <3>1, <3>4, ForgetKeeps
  <2>4. CASE (At(p, "merge-no-pi") \/ At(p, "merge-pi") \/ At(p, "merge-dev")) /\ meta'.service = meta.service
    <3>1. Head(cli[p].todo) \in Decisions
      BY <2>4 DEF At, Decisions
    <3> QED BY <1>1, <2>4, <3>1, DecisionsOweNothing, RestKeeps
  <2>5. meta \in Metadata
    BY <1>1 DEF WorldTypes
  <2> QED BY <2>1, <2>2, <2>3, <2>4, <2>5 DEF WriteMetadata, Metadata
<1> QED BY <1>1, <1>2, <1>3 DEF OnboardingTypes, WorldTypes

\* Pi installs or removes the package.
LEMMA PiCommandKeeps ==
  ASSUME OnboardingTypes, Serial, NEW p \in Cli, PiCommand(p)
  PROVE  OnboardingTypes' /\ Serial'
<1>1. /\ Live(p) /\ CliTypes /\ WorldTypes /\ Goes(p, Rest(p)) /\ cli[p].ver \in Nat
      /\ UNCHANGED <<backend, os, disk, prefix, meta, host, events, messy>>
      /\ Head(cli[p].todo) \in {"pi-install", "pi-remove"}
  BY Todo DEF PiCommand, At, OnboardingTypes
<1>2. pi' \in [present : BOOLEAN, src : {None, Foreign} \cup Nat, man : Nat]
  <2>1. pi \in [present : BOOLEAN, src : {None, Foreign} \cup Nat, man : Nat]
    BY <1>1 DEF WorldTypes
  <2>2. [pi EXCEPT !.src = cli[p].ver, !.man = cli[p].ver] \in [present : BOOLEAN, src : {None, Foreign} \cup Nat, man : Nat]
    BY <1>1, <2>1
  <2>3. PiRemoved \in [present : BOOLEAN, src : {None, Foreign} \cup Nat, man : Nat]
    BY <2>1 DEF PiRemoved
  <2> QED BY <2>2, <2>3 DEF PiCommand
<1>3. Head(cli[p].todo) \notin Opening \cup Debts \cup {"write", "installer"}
  BY <1>1 DEF Opening, Debts, Commits, RemovalDebts, Forgets
<1>4. CliTypes' /\ Serial'
  BY <1>1, <1>3, RestKeeps
<1> QED BY <1>1, <1>2, <1>4 DEF OnboardingTypes, WorldTypes

\* Whatever else happens in the world leaves the commands where they are.
LEMMA Elsewhere ==
  ASSUME Serial, backend' = backend, messy' = messy,
         os'.defn = os.defn, meta' = meta,
         \A q \in Cli : Live(q)' <=> Live(q),
         \A q \in Cli : Live(q) => /\ cli'[q].todo = cli[q].todo /\ cli'[q].cmd = cli[q].cmd
                                   /\ cli'[q].meta = cli[q].meta /\ cli'[q].path = cli[q].path
  PROVE  Serial'
<1>1. CASE messy
  BY <1>1 DEF Serial
<1>2. CASE ~messy
  <2>1. ASSUME NEW q \in Cli, Live(q)' PROVE Knows(q)'
    <3>1. Knows(q) /\ Live(q)
      BY <1>2, <2>1 DEF Serial
    <3> QED BY <3>1 DEF Knows, Unclaimed
  <2>2. ASSUME NEW q \in Cli, NEW r \in Cli, q # r, Live(q)', Live(r)'
        PROVE  cli'[q].cmd = "setup" /\ (cli'[q].todo \in Openings \/ cli'[r].todo \in Openings)
    BY <1>2, <2>2 DEF Serial
  <2>3. ASSUME \A q \in Cli : Live(q)' => ~Has(cli'[q].todo, Debts) PROVE Agree'
    <3>1. Agree
      BY <1>2, <2>3 DEF Serial
    <3> QED BY <3>1 DEF Agree, Unclaimed, Record
  <2> QED BY <2>1, <2>2, <2>3 DEF Serial
<1> QED BY <1>1, <1>2

\* A disturbance changes nothing of a command but that it was disturbed.
LEMMA DisturbedStates ==
  ASSUME CliTypes, NEW q \in Cli
  PROVE  /\ Disturbed[q] \in CommandStates /\ WellPlaced(Disturbed[q])
         /\ Disturbed[q].todo = cli[q].todo
         /\ Live(q) => /\ Disturbed[q].cmd = cli[q].cmd
                       /\ Disturbed[q].meta = cli[q].meta /\ Disturbed[q].path = cli[q].path
<1>1. CASE Live(q)
  <2>1. cli[q] \in CommandStates /\ WellPlaced(cli[q]) /\ Disturbed[q] = [cli[q] EXCEPT !.clean = FALSE]
    BY <1>1 DEF CliTypes, Disturbed
  <2>2. [cli[q] EXCEPT !.clean = FALSE] \in CommandStates
    BY <2>1 DEF CommandStates
  <2>3. /\ Disturbed[q].todo = cli[q].todo /\ Disturbed[q].cmd = cli[q].cmd
        /\ Disturbed[q].meta = cli[q].meta /\ Disturbed[q].path = cli[q].path
    BY <2>1 DEF CommandStates
  <2> QED BY <2>1, <2>2, <2>3 DEF WellPlaced
<1>2. CASE ~Live(q)
  <2>1. Disturbed[q] = Idle /\ Idle.todo = <<>> /\ cli[q].todo = <<>>
    BY <1>2 DEF Disturbed, Idle, Live
  <2>2. Idle \in CommandStates
    BY IdleTypes DEF Results
  <2> QED BY <1>2, <2>1, <2>2 DEF WellPlaced
<1> QED BY <1>1, <1>2

\* And so it leaves every command where it is.
LEMMA DisturbedTypes ==
  ASSUME CliTypes, cli' = Disturbed
  PROVE  /\ CliTypes'
         /\ \A q \in Cli : Live(q)' <=> Live(q)
         /\ \A q \in Cli : Live(q) => /\ cli'[q].todo = cli[q].todo /\ cli'[q].cmd = cli[q].cmd
                                      /\ cli'[q].meta = cli[q].meta /\ cli'[q].path = cli[q].path
<1>1. cli' = [q \in Cli |-> Disturbed[q]]
  BY DEF Disturbed
<1>2. cli' \in [Cli -> CommandStates]
  BY <1>1, DisturbedStates
<1>3. CliTypes'
  BY <1>2, DisturbedStates DEF CliTypes, WellPlaced
<1> QED BY <1>3, DisturbedStates DEF Live

\* A command that is cut off is a mess from then on.
LEMMA InterruptKeeps ==
  ASSUME OnboardingTypes, Serial, NEW p \in Cli, Interrupt(p)
  PROVE  OnboardingTypes' /\ Serial'
<1>1. /\ Fault /\ Live(p) /\ CliTypes /\ WorldTypes /\ messy' = TRUE
      /\ cli' = [Disturbed EXCEPT ![p] = [Idle EXCEPT !.result = "interrupted"]]
      /\ UNCHANGED <<backend, os, disk, prefix, meta, host>>
  BY DEF Interrupt, OnboardingTypes
<1>2. CliTypes'
  <2> DEFINE i == [Idle EXCEPT !.result = "interrupted"]
  <2>1. i \in CommandStates /\ i.todo = <<>>
    BY IdleTypes DEF Idle, Results
  <2>2. WellPlaced(i)
    BY <2>1 DEF WellPlaced
  <2> HIDE DEF i
  <2>3. cli' = [q \in Cli |-> IF q = p THEN i ELSE Disturbed[q]]
    BY <1>1 DEF Disturbed, i
  <2>4. \A q \in Cli : cli'[q] \in CommandStates /\ WellPlaced(cli'[q])
    BY <1>1, <2>1, <2>2, <2>3, DisturbedStates
  <2> QED BY <2>3, <2>4 DEF CliTypes, WellPlaced
<1>3. pi' \in [present : BOOLEAN, src : {None, Foreign} \cup Nat, man : Nat]
  <2>1. pi \in [present : BOOLEAN, src : {None, Foreign} \cup Nat, man : Nat] /\ cli[p].ver \in Nat
    BY <1>1, Todo DEF WorldTypes
  <2>2. [pi EXCEPT !.src = cli[p].ver, !.man = 0] \in [present : BOOLEAN, src : {None, Foreign} \cup Nat, man : Nat]
    BY <2>1
  <2>3. pi' = pi \/ pi' = [pi EXCEPT !.src = cli[p].ver, !.man = 0]
    BY DEF Interrupt
  <2> QED BY <2>1, <2>2, <2>3
<1>4. WorldTypes'
  BY <1>1, <1>3, OnboardingBounds DEF WorldTypes, Fault, Happens
<1> QED BY <1>1, <1>2, <1>4 DEF OnboardingTypes, Serial

\* A service that is started keeps its definition.
LEMMA RunTypes ==
  ASSUME disk \in [Paths -> Nat], NEW s \in Services, s.loaded \in Paths
  PROVE  Run(s) \in Services /\ Run(s).defn = s.defn
BY DEF Run, Daemon, Services, MaybePath

\* The daemon, the session and Node.js change under the commands.
LEMMA WorldKeeps ==
  ASSUME OnboardingTypes, Serial,
         DaemonDies \/ DaemonRespawns \/ DaemonCompletesHost \/ NewLogin \/ SwitchNode
  PROVE  OnboardingTypes' /\ Serial'
<1>1. CliTypes /\ WorldTypes /\ os \in Services /\ disk \in [Paths -> Nat]
  BY DEF OnboardingTypes, WorldTypes, Services
<1>2. /\ backend' = backend /\ messy' = messy /\ meta' = meta
      /\ UNCHANGED <<disk, pi>>
      /\ cli' = cli \/ cli' = Disturbed
      /\ events' = events \/ Fault
      /\ os' = os \/ os' = Die \/ os' = Login \/ (os' = Respawn /\ os.loaded # None)
      /\ prefix' = prefix \/ prefix' \in Paths
      /\ host' = host \/ host' = [host EXCEPT !.enc = TRUE]
  BY DEF DaemonDies, DaemonRespawns, DaemonCompletesHost, NewLogin, SwitchNode
<1>3. CliTypes' /\ (\A q \in Cli : Live(q)' <=> Live(q))
      /\ \A q \in Cli : Live(q) => /\ cli'[q].todo = cli[q].todo /\ cli'[q].cmd = cli[q].cmd
                                   /\ cli'[q].meta = cli[q].meta /\ cli'[q].path = cli[q].path
  <2>1. CASE cli' = cli
    BY <1>1, <2>1 DEF CliTypes, WellPlaced, Live
  <2>2. CASE cli' = Disturbed
    BY <1>1, <2>2, DisturbedTypes
  <2> QED BY <1>2, <2>1, <2>2
<1>4. os' \in Services /\ os'.defn = os.defn
  <2>1. CASE os' = os
    BY <1>1, <2>1
  <2>2. CASE os' = Die
    BY <1>1, <2>2 DEF Die, Services
  <2>3. CASE os' = Respawn /\ os.loaded # None
    <3>1. os.loaded \in Paths
      BY <1>1, <2>3 DEF Services, MaybePath
    <3> QED BY <1>1, <2>3, <3>1, RunTypes DEF Respawn
  <2>4. CASE os' = Login
    <3> DEFINE fresh == [NoService EXCEPT !.defn = os.defn, !.enabled = os.enabled, !.loaded = os.defn]
    <3>1. fresh \in Services /\ fresh.defn = os.defn /\ fresh.loaded = os.defn
      BY <1>1 DEF NoService, Services, MaybePath
    <3>2. os' = fresh \/ (os.defn # None /\ os' = Run(fresh))
      BY <2>4 DEF Login
    <3> HIDE DEF fresh
    <3>3. os.defn # None => fresh.loaded \in Paths
      BY <1>1, <3>1 DEF Services, MaybePath
    <3> QED BY <1>1, <3>1, <3>2, <3>3, RunTypes
  <2> QED BY <1>2, <2>1, <2>2, <2>3, <2>4
<1>5. host' \in [id : BOOLEAN, named : BOOLEAN, enc : BOOLEAN]
  BY <1>1, <1>2 DEF WorldTypes
<1>6. events' \in 0 .. MaxEvents
  BY <1>1, <1>2, OnboardingBounds DEF WorldTypes, Fault, Happens
<1>7. WorldTypes'
  BY <1>1, <1>2, <1>4, <1>5, <1>6 DEF WorldTypes, Services
<1>8. Serial'
  BY <1>2, <1>3, <1>4, Elsewhere
<1> QED BY <1>3, <1>7, <1>8 DEF OnboardingTypes

\* What a command sets out to do: open a setup, or what only such a command does.
LEMMA Plans ==
  ASSUME NEW cmd \in CommandNames, NEW supported \in BOOLEAN
  PROVE  LET t == PlanFor(cmd, supported) IN
         /\ t \in Seq(StepNames) /\ t # <<>> /\ Shape(t) /\ Suits(t, cmd) /\ ~Has(t, Debts)
         /\ cmd = "setup" => t \in Openings /\ Head(t) \in Opening \ {"lock"}
<1> DEFINE t == PlanFor(cmd, supported)
<1>1. CASE t = <<"unsupported">>
  <2>1. "unsupported" \in StepNames
    BY DEF StepNames
  <2>2. t \in Seq(StepNames) /\ t # <<>>
    BY <1>1, <2>1, Tuples
  <2>3. t \in Openings /\ Head(t) \in Opening \ {"lock"}
    BY <1>1 DEF Openings, Opening
  <2>4. \A i \in 1 .. Len(t) : t[i] = "unsupported"
    BY <1>1
  <2>5. Shape(t) /\ Suits(t, cmd)
    BY <2>3, <2>4 DEF Shape, Suits, Has, SetupSteps, OtherSteps, Commits, Forgets, RemovalDebts
  <2> QED BY <2>2, <2>3, <2>5, OpeningKnows
<1>2. CASE t = Plan("setup") /\ cmd = "setup"
  <2>1. t = SetupPlan
    BY <1>2 DEF Plan, SetupPlan
  <2>2. SetupPlan \in Openings /\ Head(SetupPlan) \in Opening \ {"lock"}
    BY DEF Openings, Opening, SetupPlan
  <2> QED BY <1>2, <2>1, <2>2, PlanIs, OpeningKnows
<1>3. CASE cmd # "setup" /\ t \in {Plan(cmd), <<"self-upgrade", "converge-pi">>}
  <2> DEFINE K == {"self-upgrade", "up-service", "converge-pi", "identity", "identity-config", "encryption",
                   "svc-install", "svc-uninstall", "svc-start", "svc-restart", "svc-stop", "pi-remove",
                   "merge-no-pi", "merge-dev", "uninstall"}
  <2>1. K \subseteq Free /\ K \cap SetupSteps = {}
    BY DEF Free, StepNames, HostSteps, ServiceSteps, SetupSteps, Opening, Debts, Commits, RemovalDebts, Forgets
  <2>2. t \in Seq(K) /\ t # <<>>
    <3>1. /\ "self-upgrade" \in K /\ "up-service" \in K /\ "converge-pi" \in K /\ "identity" \in K
          /\ "identity-config" \in K /\ "encryption" \in K /\ "svc-install" \in K
          /\ "svc-uninstall" \in K /\ "svc-start" \in K /\ "svc-restart" \in K
          /\ "svc-stop" \in K /\ "pi-remove" \in K /\ "merge-no-pi" \in K /\ "merge-dev" \in K
          /\ "uninstall" \in K
      OBVIOUS
    <3>2. \/ t \in {<<"self-upgrade", "up-service", "converge-pi">>, <<"identity", "identity-config", "encryption">>}
          \/ t \in {<<"pi-remove", "merge-no-pi">>, <<"self-upgrade", "converge-pi">>}
          \/ t \in {<<"svc-install">>, <<"svc-uninstall">>, <<"svc-start">>, <<"svc-restart">>, <<"svc-stop">>,
                    <<"converge-pi">>, <<"merge-dev">>, <<"uninstall">>}
      BY <1>3 DEF Plan, CommandNames
    <3> HIDE DEF K, t
    <3>3. CASE t \in {<<"self-upgrade", "up-service", "converge-pi">>, <<"identity", "identity-config", "encryption">>}
      <4>1. \A a, b, c \in K : <<a, b, c>> \in Seq(K) /\ <<a, b, c>> # <<>>
        BY Tuples
      <4> QED BY <3>1, <3>3, <4>1, Zenon
    <3>4. CASE t \in {<<"pi-remove", "merge-no-pi">>, <<"self-upgrade", "converge-pi">>}
      <4>1. \A a, b \in K : <<a, b>> \in Seq(K) /\ <<a, b>> # <<>>
        BY Tuples
      <4> QED BY <3>1, <3>4, <4>1, Zenon
    <3>5. CASE t \in {<<"svc-install">>, <<"svc-uninstall">>, <<"svc-start">>, <<"svc-restart">>, <<"svc-stop">>,
                      <<"converge-pi">>, <<"merge-dev">>, <<"uninstall">>}
      <4>1. \A a \in K : <<a>> \in Seq(K) /\ <<a>> # <<>>
        BY Tuples
      <4> QED BY <3>1, <3>5, <4>1, Zenon
    <3> QED BY <3>2, <3>3, <3>4, <3>5
  <2> HIDE DEF K, t
  <2>3. t \in Seq(StepNames) /\ \A i \in 1 .. Len(t) : t[i] \in K
    <3>1. K \subseteq StepNames
      BY <2>1 DEF Free
    <3> QED BY <2>2, <3>1
  <2>4. Suits(t, cmd)
    BY <1>3, <2>1, <2>3 DEF Suits, Has
  <2>5. Shape(t) /\ ~Has(t, Debts)
    BY <2>1, <2>3, FreeShape
  <2> QED BY <1>3, <2>2, <2>3, <2>4, <2>5 DEF t
<1>4. t = <<"unsupported">> \/ t = Plan(cmd) \/ (cmd # "setup" /\ t = <<"self-upgrade", "converge-pi">>)
  BY DEF PlanFor
<1> QED BY <1>1, <1>2, <1>3, <1>4

\* A command starts; beside a running one it is a mess, unless both are setups.
LEMMA StartCommandKeeps ==
  ASSUME OnboardingTypes, Serial, NEW p \in Cli, StartCommand(p)
  PROVE  OnboardingTypes' /\ Serial'
<1>1. CliTypes /\ WorldTypes /\ ~Live(p)
  BY DEF OnboardingTypes, StartCommand
<1> DEFINE others == {q \in Cli \ {p} : Live(q)}
<1>2. PICK cmd \in CommandNames, npx \in BOOLEAN, target \in BOOLEAN, supported \in BOOLEAN :
        /\ backend = "launchd" => supported
        /\ npx => cmd = "setup"
        /\ ~npx => disk[prefix] # 0
        /\ target => cmd = "setup"
        /\ LET ver == IF npx THEN Latest ELSE disk[prefix]
           IN cli' = [q \in Cli |->
                  IF q = p
                  THEN [Idle EXCEPT !.cmd = cmd, !.todo = PlanFor(cmd, supported),
                                    !.npx = npx,
                                    !.path = IF npx THEN None ELSE prefix,
                                    !.ver = ver, !.target = target,
                                    !.clean = (others = {}),
                                    !.cause = Obstacles(ver) \cup
                                        (IF supported THEN {} ELSE {"unsupported"})]
                  ELSE IF Live(q) THEN [cli[q] EXCEPT !.clean = FALSE] ELSE Idle]
        /\ messy' = (messy \/ \E q \in others : {cmd, cli[q].cmd} # {"setup"})
  BY DEF StartCommand
<1> DEFINE ver == IF npx THEN Latest ELSE disk[prefix]
           path == IF npx THEN None ELSE prefix
           cause == Obstacles(ver) \cup (IF supported THEN {} ELSE {"unsupported"})
           t == PlanFor(cmd, supported)
           c == [Idle EXCEPT !.cmd = cmd, !.todo = t, !.npx = npx, !.path = path, !.ver = ver,
                             !.target = target, !.clean = (others = {}), !.cause = cause]
<1>3. ver \in Nat /\ path \in MaybePath /\ (~npx => path \in Paths) /\ cause \subseteq Causes
  <2>1. cause \subseteq Causes
    BY DEF Causes, Obstacles
  <2> QED BY <1>1, <2>1, OnboardingBounds DEF WorldTypes, MaybePath
<1>4. /\ t \in Seq(StepNames) /\ t # <<>> /\ Shape(t) /\ Suits(t, cmd) /\ ~Has(t, Debts)
      /\ cmd = "setup" => t \in Openings /\ Head(t) \in Opening \ {"lock"}
  BY Plans
<1>5. /\ cli' = [q \in Cli |-> IF q = p THEN c ELSE Disturbed[q]]
      /\ messy' = (messy \/ \E q \in others : {cmd, cli[q].cmd} # {"setup"})
      /\ npx => cmd = "setup"
  BY <1>2 DEF Disturbed
<1> HIDE DEF ver, path, cause, t
<1>6. c \in CommandStates /\ c.todo = t /\ c.cmd = cmd /\ c.path = path
  <2>1. Idle \in CommandStates
    BY IdleTypes DEF Results
  <2>2. (others = {}) \in BOOLEAN
    OBVIOUS
  <2> HIDE DEF others
  <2> QED BY <1>3, <1>4, <2>1, <2>2 DEF CommandStates
<1> HIDE DEF c
<1>7. WellPlaced(c)
  BY <1>3, <1>4, <1>5, <1>6 DEF WellPlaced
<1>8. cli'[p] = c /\ \A q \in Cli \ {p} : cli'[q] = Disturbed[q]
  BY <1>5
<1>9. CliTypes'
  <2>1. \A q \in Cli : cli'[q] \in CommandStates /\ WellPlaced(cli'[q])
    BY <1>1, <1>6, <1>7, <1>8, DisturbedStates
  <2> QED BY <1>5, <2>1 DEF CliTypes, WellPlaced
<1>10. /\ UNCHANGED <<backend, os, disk, prefix, meta, host, pi>>
       /\ Happens(1) \/ Happens(4)
  BY DEF StartCommand
<1>11. WorldTypes'
  BY <1>1, <1>5, <1>10, OnboardingBounds DEF WorldTypes, Happens
<1>12. CASE messy'
  BY <1>9, <1>11, <1>12 DEF OnboardingTypes, Serial
<1>13. CASE ~messy'
  <2>1. ~messy /\ \A q \in Cli \ {p} : Live(q) => cmd = "setup" /\ cli[q].cmd = "setup"
    <3>1. ~messy /\ ~(\E q \in others : {cmd, cli[q].cmd} # {"setup"})
      BY <1>5, <1>13, Zenon
    <3>2. ASSUME NEW q \in Cli \ {p}, Live(q) PROVE cmd = "setup" /\ cli[q].cmd = "setup"
      <4>1. {cmd, cli[q].cmd} = {"setup"}
        BY <3>1, <3>2
      <4>2. cmd \in {"setup"} /\ cli[q].cmd \in {"setup"}
        BY <4>1
      <4> QED BY <4>2
    <3> QED BY <3>1, <3>2
  <2>2. ASSUME NEW q \in Cli \ {p}, Live(q)'
        PROVE  /\ Live(q) /\ cli'[q].todo = cli[q].todo /\ cli'[q].cmd = cli[q].cmd
               /\ cli'[q].meta = cli[q].meta /\ cli'[q].path = cli[q].path
    BY <1>1, <1>8, <2>2, DisturbedStates DEF Live
  <2>3. ASSUME NEW q \in Cli \ {p}, Live(q)
        PROVE  Live(q)' /\ cli'[q].todo = cli[q].todo
    BY <1>1, <1>8, <2>3, DisturbedStates DEF Live
  <2>4. ASSUME NEW q \in Cli, Live(q)' PROVE Knows(q)'
    <3>1. CASE q = p
      <4>1. ~Has(t, Commits) /\ ~Has(t, RemovalDebts) /\ ~Has(t, {"save-uninstalled"})
        <5>1. Commits \subseteq Debts /\ RemovalDebts \subseteq Debts /\ {"save-uninstalled"} \subseteq Debts
          BY DEF Debts, RemovalDebts, Forgets
        <5> QED BY <1>4, <5>1, HasLess
      <4> QED BY <1>4, <1>6, <1>8, <3>1, <4>1 DEF Knows
    <3>2. CASE q # p
      <4>1. Knows(q)
        BY <2>1, <2>2, <2>4, <3>2 DEF Serial
      <4> QED BY <1>10, <2>2, <2>4, <3>2, <4>1 DEF Knows, Unclaimed
    <3> QED BY <3>1, <3>2
  <2>5. ASSUME NEW q \in Cli, NEW r \in Cli, q # r, Live(q)', Live(r)'
        PROVE  cli'[q].cmd = "setup" /\ (cli'[q].todo \in Openings \/ cli'[r].todo \in Openings)
    <3>1. CASE p \notin {q, r}
      BY <2>1, <2>2, <2>5, <3>1 DEF Serial
    <3>2. CASE q = p
      BY <1>4, <1>6, <1>8, <2>1, <2>2, <2>5, <3>2
    <3>3. CASE r = p
      BY <1>4, <1>6, <1>8, <2>1, <2>2, <2>5, <3>3
    <3> QED BY <3>1, <3>2, <3>3
  <2>6. ASSUME \A q \in Cli : Live(q)' => ~Has(cli'[q].todo, Debts) PROVE Agree'
    <3>1. ASSUME NEW q \in Cli, Live(q) PROVE ~Has(cli[q].todo, Debts)
      BY <1>1, <2>3, <2>6, <3>1
    <3>2. Agree
      BY <2>1, <3>1 DEF Serial
    <3> QED BY <1>10, <3>2 DEF Agree, Unclaimed, Record
  <2>7. Serial'
    BY <2>4, <2>5, <2>6 DEF Serial
  <2> QED BY <1>9, <1>11, <2>7 DEF OnboardingTypes
<1> QED BY <1>12, <1>13

\* A machine that never saw Ariava agrees with its metadata, and so does one
\* that an older version was installed on.
LEMMA OnboardingStarts == OnboardingInit => OnboardingTypes /\ Serial
<1> SUFFICES ASSUME OnboardingInit PROVE OnboardingTypes /\ Serial
  OBVIOUS
<1>1. /\ backend \in Managers /\ prefix \in Paths /\ events = 0 /\ messy = FALSE
      /\ cli = [p \in Cli |-> Idle]
  BY DEF OnboardingInit, Managers
<1>2. Idle \in CommandStates /\ Idle.todo = <<>>
  BY IdleTypes DEF Results, Idle
<1>3. CliTypes /\ \A p \in Cli : ~Live(p)
  BY <1>1, <1>2 DEF CliTypes, WellPlaced, Live
<1>4. /\ os \in Services /\ disk \in [Paths -> Nat] /\ meta \in Metadata
      /\ host \in [id : BOOLEAN, named : BOOLEAN, enc : BOOLEAN]
      /\ pi \in [present : BOOLEAN, src : {None, Foreign} \cup Nat, man : Nat]
      /\ Agree
  <2> DEFINE Fresh ==
        /\ os = NoService
        /\ disk = [path \in Paths |-> 0]
        /\ host = NoHost
        /\ meta \in {NoMeta, [NoMeta EXCEPT !.service = [path |-> prefix, backend |-> Foreign]]}
        /\ pi \in {[present |-> TRUE, src |-> None, man |-> 0], [present |-> FALSE, src |-> None, man |-> 0],
                   [present |-> TRUE, src |-> Foreign, man |-> 0]}
      Installed ==
        /\ os = [defn |-> prefix, enabled |-> TRUE, loaded |-> prefix, wanted |-> TRUE,
                 proc |-> [path |-> prefix, ver |-> 1]]
        /\ disk = [path \in Paths |-> IF path = prefix THEN 1 ELSE 0]
        /\ host = [id |-> TRUE, named |-> TRUE, enc |-> TRUE]
        /\ meta = [service |-> Record(prefix), installer |-> prefix, source |-> "release", pi |-> 1]
        /\ pi = [present |-> TRUE, src |-> 1, man |-> 1]
  <2>1. CASE Fresh
    <3>1. os \in Services /\ os.defn = None
      BY <2>1 DEF NoService, Services, MaybePath
    <3>2. meta \in Metadata /\ Unclaimed(meta.service)
      BY <1>1, <2>1, OnboardingNames DEF NoMeta, Metadata, MaybePath, Records, Unclaimed, Managers
    <3>3. disk \in [Paths -> Nat] /\ host \in [id : BOOLEAN, named : BOOLEAN, enc : BOOLEAN]
      BY <2>1 DEF NoHost
    <3>4. pi \in [present : BOOLEAN, src : {None, Foreign} \cup Nat, man : Nat]
      <4>1. /\ [present |-> TRUE, src |-> None, man |-> 0] \in [present : BOOLEAN, src : {None, Foreign} \cup Nat, man : Nat]
            /\ [present |-> FALSE, src |-> None, man |-> 0] \in [present : BOOLEAN, src : {None, Foreign} \cup Nat, man : Nat]
            /\ [present |-> TRUE, src |-> Foreign, man |-> 0] \in [present : BOOLEAN, src : {None, Foreign} \cup Nat, man : Nat]
        OBVIOUS
      <4> QED BY <2>1, <4>1, Zenon
    <3> QED BY <3>1, <3>2, <3>3, <3>4 DEF Agree
  <2>2. CASE Installed
    <3>1. os \in Services /\ os.defn = prefix
      BY <1>1, <2>2 DEF Services, MaybePath
    <3>2. Record(prefix) \in Records /\ Record(prefix).backend = backend /\ Record(prefix) # None
      BY <1>1, OnboardingNames DEF Record, Records, Managers
    <3>3. meta \in Metadata /\ meta.service = Record(os.defn) /\ ~Unclaimed(meta.service)
      BY <1>1, <2>2, <3>1, <3>2 DEF Metadata, MaybePath, Unclaimed
    <3>4. disk \in [Paths -> Nat] /\ pi \in [present : BOOLEAN, src : {None, Foreign} \cup Nat, man : Nat]
      BY <2>2
    <3>5. host \in [id : BOOLEAN, named : BOOLEAN, enc : BOOLEAN]
      BY <2>2
    <3> QED BY <3>1, <3>3, <3>4, <3>5 DEF Agree
  <2>3. Fresh \/ Installed
    <3>1. CASE /\ os = NoService
               /\ disk = [path \in Paths |-> 0]
               /\ host = NoHost
               /\ \/ /\ meta \in {NoMeta, [NoMeta EXCEPT !.service = [path |-> prefix, backend |-> Foreign]]}
                     /\ pi = [present |-> TRUE, src |-> None, man |-> 0]
                  \/ /\ meta = NoMeta
                     /\ pi \in {[present |-> FALSE, src |-> None, man |-> 0],
                                [present |-> TRUE, src |-> Foreign, man |-> 0]}
      <4>1. meta \in {NoMeta, [NoMeta EXCEPT !.service = [path |-> prefix, backend |-> Foreign]]}
        BY <3>1, Zenon
      <4>2. pi \in {[present |-> TRUE, src |-> None, man |-> 0], [present |-> FALSE, src |-> None, man |-> 0],
                    [present |-> TRUE, src |-> Foreign, man |-> 0]}
        BY <3>1, Zenon
      <4> QED BY <3>1, <4>1, <4>2, Zenon
    <3>2. CASE Installed
      BY <3>2
    <3> QED BY <3>1, <3>2 DEF OnboardingInit
  <2> QED BY <2>1, <2>2, <2>3
<1>5. WorldTypes
  <2>1. events \in 0 .. MaxEvents
    BY <1>1, OnboardingBounds
  <2>2. messy \in BOOLEAN
    BY <1>1
  <2> QED BY <1>1, <1>4, <2>1, <2>2, Zenon DEF WorldTypes, Services
<1> QED BY <1>3, <1>4, <1>5 DEF OnboardingTypes, Serial

\* Every step of every command, and of the world around them.
LEMMA OnboardingSteps ==
  OnboardingTypes /\ Serial /\ [OnboardingNext]_onboardingVars => OnboardingTypes' /\ Serial'
<1> SUFFICES ASSUME OnboardingTypes, Serial, [OnboardingNext]_onboardingVars
             PROVE  OnboardingTypes' /\ Serial'
  OBVIOUS
<1>1. ASSUME NEW p \in Cli, Step(p) PROVE OnboardingTypes' /\ Serial'
  BY <1>1, ServiceStepKeeps, RefuseKeeps, DetectKeeps, StableCliKeeps, AcquireLockKeeps, HostInitKeeps,
     InitializeKeeps, RecordInstallerKeeps, BridgeServiceKeeps, SaveServiceKeeps, StartIfDownKeeps,
     WaitReadyKeeps, AdapterKeeps, SavePiKeeps, SelfUpgradeKeeps,
     ServiceInstallKeeps, MergeServiceKeeps, ServiceCommandKeeps, UninstallsKeeps, WriteMetadataKeeps,
     ConvergePiKeeps, PiCommandKeeps, Zenon DEF Step
<1>2. CASE UNCHANGED onboardingVars
  <2>1. OnboardingTypes'
    BY <1>2 DEF onboardingVars, OnboardingTypes, CliTypes, WellPlaced, WorldTypes
  <2>2. Serial'
    BY <1>2, Elsewhere DEF onboardingVars, Live
  <2> QED BY <2>1, <2>2
<1> QED BY <1>1, <1>2, StartCommandKeeps, InterruptKeeps, RestartFailsKeeps, WorldKeeps, Zenon DEF OnboardingNext

\* The inductive invariant of the commands the user runs: types, the shape of
\* what a command has left to do, and what it knows of definition and record.
THEOREM OnboardingInvariance == OnboardingSpec => [](OnboardingTypes /\ Serial)
BY OnboardingStarts, OnboardingSteps, PTL DEF OnboardingSpec

\* Processes, service, metadata, Host and Pi package have the values the code
\* gives them, for any paths, processes, versions and bounds.
THEOREM OnboardingTypeCorrectness == OnboardingSpec => []OnboardingTypes
BY OnboardingInvariance, PTL

\* When no command is running, the record in the install metadata and the
\* definition file agree, as long as no command was cut off and none but setups
\* met: the bootstrap and onboarding locks make setups serial, and a copy of the
\* metadata that a setup writes back is still the file's (onboarding/lock.ts,
\* orchestrator.ts), for any paths, processes, versions and bounds.
THEOREM TheRecordDescribesTheDefinition == OnboardingSpec => []RecordDescribesDefinition
<1>1. OnboardingTypes /\ Serial => RecordDescribesDefinition
  <2> SUFFICES ASSUME OnboardingTypes, Serial, ~messy, \A p \in Cli : ~Live(p)
               PROVE  \/ meta.service = None /\ os.defn = None
                      \/ meta.service # None /\ ~Ours /\ os.defn = None
                      \/ meta.service = Record(os.defn)
    BY DEF RecordDescribesDefinition
  <2>1. Agree
    BY DEF Serial
  <2> QED BY <2>1 DEF Agree, Unclaimed, Ours
<1> QED BY <1>1, OnboardingInvariance, PTL
=============================================================================
