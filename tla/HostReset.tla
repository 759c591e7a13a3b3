----------------------------- MODULE HostReset -----------------------------
(***************************************************************************)
(* The Host-domain reset (cli/operations/host-domain-reset*.ts): the       *)
(* command replaces a Host's whole identity, and everything bound to it,   *)
(* in thirteen phases recorded in a journal.  The process may die after    *)
(* every write; the same command resumes from the journal and from the     *)
(* evidence in the stores.  The Relay may be out of reach, or its answer   *)
(* be lost.                                                                *)
(*                                                                         *)
(* The reset is composed with what it competes with and leaves behind: the *)
(* two identity stores (IdentityStores), the daemon's start with its       *)
(* runtime files (RuntimePreflight), the profile initialisation, and the   *)
(* service manager, which starts the daemon again whenever it is loaded.   *)
(* The runtime lock is the mutual exclusion RuntimeLock establishes; the   *)
(* operation lock lets one CLI process work at a time.  Initialisation is  *)
(* not under that lock and is assumed not to run during a reset.           *)
(***************************************************************************)
EXTENDS IdentityStores

CONSTANT MaxCrashes     \* bound: deaths of the CLI or of the daemon

VARIABLES
  journal,      \* the reset journal
  config,       \* the Host the profile's configuration names
  keyring,      \* the Host whose link keyring is on disk
  relay,        \* enrolled, revoked: the Hosts the Relay knows
  service,      \* managed, loaded, reference: the service and the Host it names
  lock,         \* the holder of the runtime lock
  warned,       \* Hosts a finished reset reported as not revoked
  started,      \* reset operations begun
  crashes

vars == <<platform, disk, boot, signing, encryption, cli,
          journal, config, keyring, relay, service, lock, warned, started, crashes>>

storeVars == <<signing, encryption>>
outside == <<relay, service>>
counters == <<platform, warned, started, crashes>>

Phases == <<"quarantine-pending", "quarantined", "prepared", "revoke-pending", "old-identity-revoked",
  "signing-replacement-pending", "signing-identity-replaced", "encryption-identity-replaced",
  "runtime-artifacts-cleared", "config-saved", "enrolled", "service-metadata-synchronized",
  "service-restore-pending">>

\* A readable old identity is revoked; an unreadable one is skipped, and its exact
\* evidence bound for the cleanup.
PhaseNames == {Phases[n] : n \in DOMAIN Phases}
Journals == [op : Ops, phase : PhaseNames, old : MaybeHost, oldKey : KeyIds \cup {0}, new : MaybeHost,
             unreadable : BOOLEAN, cleanup : Evidences \cup {None}, wasRunning : BOOLEAN]

\* What stands for nothing is none of the things it stands beside.
ASSUME ResetAssumption ==
  /\ Hosts # {} /\ MaxRev \in Nat \ {0} /\ MaxOps \in Nat /\ MaxCrashes \in Nat
  /\ None \notin Hosts \cup StateFile \cup SpoolFile \cup ResetIntent \cup MigrationIntent \cup SpoolKeys
       \cup SigningResets \cup EncryptionResets \cup Evidences \cup Journals

Rank(phase) == CHOOSE n \in DOMAIN Phases : Phases[n] = phase
Reached(phase) == journal # None /\ Rank(journal.phase) >= Rank(phase)

\* A Host nothing remembers: ids are random, and one that was ever used does not come back.
Forgotten == Hosts \ ({signing.meta, signing.creating, config, keyring, encryption.host, disk.floor, boot.host}
  \cup signing.items \cup relay.enrolled \cup relay.revoked
  \cup (IF journal = None THEN {} ELSE {journal.old, journal.new})
  \cup (IF disk.migration = None THEN {} ELSE {disk.migration.host})
  \cup {h \in Hosts : disk.items[h] # 0})
FreshHost == CHOOSE h \in Forgotten : TRUE

---------------------------------------------------------------------------
(* The daemon                                                              *)

Die == boot' = Off /\ lock' = (IF lock = "daemon" THEN "free" ELSE lock)

\* Started by the service manager while the service is loaded, or by hand where
\* there is none.  The process reads the configuration first.
SpawnDaemon ==
  /\ boot.at = "off"
  /\ service.managed => service.loaded
  /\ boot' = [Off EXCEPT !.at = "spawned", !.host = config]
  /\ UNCHANGED <<disk, storeVars, cli, journal, config, keyring, outside, lock, counters>>

\* The user starts a service that is not loaded.
StartService ==
  /\ service.managed /\ ~service.loaded /\ cli.at = "idle"
  /\ service' = [service EXCEPT !.loaded = TRUE]
  /\ UNCHANGED <<disk, boot, storeVars, cli, journal, config, keyring, relay, lock, counters>>

\* assertHostDomainResetStartAllowed: no start at any phase of a reset.
GuardStart ==
  /\ boot.at = "spawned"
  /\ boot' = IF journal = None THEN [boot EXCEPT !.at = "guarded"] ELSE Off
  /\ UNCHANGED <<disk, storeVars, cli, journal, config, keyring, outside, lock, counters>>

AcquireRuntimeLock ==
  /\ boot.at = "guarded"
  /\ IF lock = "free" THEN Goto("locked") /\ lock' = "daemon" ELSE Die
  /\ UNCHANGED <<disk, storeVars, cli, journal, config, keyring, outside, counters>>

\* loadValidatedIdentity: the local identity is the one the configuration names.
ValidateIdentity ==
  /\ boot.at = "locked"
  /\ IF SigningStatus(signing) = "ready" /\ signing.meta = boot.host
     THEN Goto("preflight") /\ UNCHANGED lock ELSE Die
  /\ signing' = AfterLoad(signing)
  /\ UNCHANGED <<disk, encryption, cli, journal, config, keyring, outside, counters>>

RuntimeStep ==
  /\ PreflightStep
  /\ UNCHANGED <<storeVars, cli, journal, config, keyring, outside, lock, counters>>

\* encryptionStore.loadOrCreate, then the link keyring: the daemon runs.
LoadEncryption ==
  /\ boot.at = "encrypt" /\ KeysAreLeft
  /\ CASE EncryptionStatus(encryption) = "absent" /\ platform = "darwin" ->
            CreateEncryptionItem(FreshEncryptionKey) /\ boot' = [boot EXCEPT !.at = "encrypt-record", !.key = FreshEncryptionKey]
       [] EncryptionStatus(encryption) = "absent" /\ platform = "linux" ->
            CreateEncryptionRecord(boot.host, FreshEncryptionKey) /\ UNCHANGED boot
       [] OTHER ->
            /\ UNCHANGED encryption
            /\ Goto(IF EncryptionStatus(encryption) = "ready" /\ encryption.host = boot.host
                       /\ keyring \in {None, boot.host} THEN "up" ELSE "refused")
  /\ UNCHANGED <<disk, signing, cli, journal, config, keyring, outside, lock, counters>>

RecordEncryption ==
  /\ boot.at = "encrypt-record"
  /\ CreateEncryptionRecord(boot.host, boot.key)
  /\ Goto("encrypt")
  /\ UNCHANGED <<disk, signing, cli, journal, config, keyring, outside, lock, counters>>

\* A sync pass: the presence enrolment, and a paired device's keyring.
Serve ==
  /\ boot.at = "up" /\ journal = None
  /\ relay' = [relay EXCEPT !.enrolled = @ \cup {boot.host}]
  /\ keyring' = boot.host
  /\ UNCHANGED <<disk, boot, storeVars, cli, journal, config, service, lock, counters>>

\* The guard at the head of each sync pass stops the daemon; a refused start exits.
StopDaemon ==
  /\ boot.at = "refused" \/ (boot.at = "up" /\ journal # None)
  /\ Die
  /\ UNCHANGED <<disk, storeVars, cli, journal, config, keyring, outside, counters>>

CrashDaemon ==
  /\ boot.at # "off" /\ crashes < MaxCrashes
  /\ Die
  /\ crashes' = crashes + 1
  /\ UNCHANGED <<disk, storeVars, cli, journal, config, keyring, outside, platform, warned, started>>

Daemon ==
  \/ SpawnDaemon \/ StartService \/ GuardStart \/ AcquireRuntimeLock \/ ValidateIdentity \/ RuntimeStep
  \/ LoadEncryption \/ RecordEncryption \/ Serve \/ StopDaemon \/ CrashDaemon

---------------------------------------------------------------------------
(* The CLI process                                                         *)

Exit(error) ==
  /\ cli' = [at |-> "idle", key |-> 0, error |-> error]
  /\ lock' = IF lock = "cli" THEN "free" ELSE lock

\* TRANSITION_EDGES: each phase is followed by the next one; only the revocation of an
\* identity that cannot be read is skipped.
Edge(from, to) ==
  Rank(to) = Rank(from) + 1 \/ <<from, to>> = <<"prepared", "signing-replacement-pending">>

\* The fields the write that enters a phase may fill in, once.
Fillable(phase) ==
  CASE phase = "prepared" -> {"old", "oldKey", "unreadable", "cleanup"}
    [] phase = "signing-identity-replaced" -> {"new"}
    [] OTHER -> {}

Unfilled == [old |-> None, oldKey |-> 0, new |-> None, cleanup |-> None, unreadable |-> FALSE]

\* validateHostDomainResetTransition.  The store throws at a write it does not accept;
\* ResetIsNeverWedged is that it is never asked for one.
Accepted(current, candidate) ==
  candidate # current =>
    /\ Edge(current.phase, candidate.phase)
    /\ current.phase = "prepared" =>
         (current.unreadable <=> candidate.phase = "signing-replacement-pending")
    /\ \A f \in DOMAIN current \ {"phase"} :
         candidate[f] = current[f] \/ (f \in Fillable(candidate.phase) /\ current[f] = Unfilled[f])

\* advanceHostDomainResetJournal, then the loop's next action.
Commit(next) == journal' = next /\ Go("run")
Advance(phase) == Commit([journal EXCEPT !.phase = phase])

\* requireReplacement: the journalled identity is the one in the store.
Replaced == SigningStatus(signing) = "ready" /\ signing.meta = journal.new

CrashCli ==
  /\ cli.at # "idle" /\ crashes < MaxCrashes
  /\ Exit("none")
  /\ crashes' = crashes + 1
  /\ UNCHANGED <<disk, boot, storeVars, journal, config, keyring, outside, platform, warned, started>>

\* initializeProfile: an identity is created only where there is no evidence of one.
Initialize ==
  /\ cli.at = "idle" /\ journal = None
  /\ SigningStatus(signing) # "broken"
  /\ config = None \/ EncryptionStatus(encryption) = "absent"
  /\ Go(IF SigningStatus(signing) = "absent" THEN "init-sign" ELSE "init-config")
  /\ UNCHANGED <<disk, boot, storeVars, journal, config, keyring, outside, lock, counters>>

CreateSigningIdentity ==
  /\ Forgotten # {}
  /\ CreateFirstRunLinux(FreshHost) \/ CreateFirstRunSentinel(FreshHost)
  /\ UNCHANGED <<disk, boot, encryption, journal, config, keyring, outside, lock, counters>>

SaveInitialConfig ==
  /\ cli.at = "init-config"
  /\ config' = signing.meta
  /\ Go("init-enc")
  /\ UNCHANGED <<disk, boot, storeVars, journal, keyring, outside, lock, counters>>

InitialEncryption ==
  /\ cli.at = "init-enc-record" \/ (cli.at = "init-enc" /\ KeysAreLeft)
  /\ IF EncryptionStatus(encryption) # "absent" THEN Exit("none") /\ UNCHANGED encryption
     ELSE /\ UNCHANGED lock
          /\ IF platform = "darwin" /\ cli.at = "init-enc"
             THEN CreateEncryptionItem(FreshEncryptionKey) /\ cli' = [cli EXCEPT !.at = "init-enc-record", !.key = FreshEncryptionKey]
             ELSE CreateEncryptionRecord(signing.meta, IF platform = "darwin" THEN cli.key ELSE FreshEncryptionKey) /\ Go("init-enc")
  /\ UNCHANGED <<disk, boot, signing, journal, config, keyring, outside, counters>>

---------------------------------------------------------------------------
(* The reset: bootstrap, quarantine                                        *)

ProcessRunning == service.managed /\ boot.at # "off"

\* A fresh reset creates its journal, a later call finds it.
CreateJournal ==
  /\ cli.at = "idle" /\ journal = None /\ started < MaxOps
  /\ started' = started + 1
  /\ journal' = [op |-> started + 1, phase |-> "quarantine-pending", old |-> None, oldKey |-> 0, new |-> None,
                 unreadable |-> FALSE, cleanup |-> None, wasRunning |-> ProcessRunning]
  /\ cli' = [cli EXCEPT !.at = "stop", !.error = "none"]
  /\ UNCHANGED <<disk, boot, storeVars, config, keyring, outside, lock, platform, warned, crashes>>

ResumeReset ==
  /\ cli.at = "idle" /\ journal # None
  /\ cli' = [cli EXCEPT !.at = "stop", !.error = "none"]
  /\ UNCHANGED <<disk, boot, storeVars, journal, config, keyring, outside, lock, counters>>

\* stopAndConfirm: a running service process is booted out; nothing is done when
\* none is running at that moment.
StopAndConfirm ==
  /\ cli.at = "stop"
  /\ IF ProcessRunning
     THEN Die /\ service' = [service EXCEPT !.loaded = FALSE]
     ELSE UNCHANGED <<boot, lock, service>>
  /\ Go("acquire")
  /\ UNCHANGED <<disk, storeVars, journal, config, keyring, relay, counters>>

\* Mutant: the runtime is taken over without its lock.
TakeRuntime ==
  /\ cli.at = "acquire" /\ lock' = "cli"
  /\ IF journal.phase = "quarantine-pending" THEN Advance("quarantined") ELSE Go("run") /\ UNCHANGED journal
  /\ UNCHANGED <<disk, boot, storeVars, config, keyring, outside, counters>>

\* A daemon in the foreground keeps its lock, and the command gives up.
AcquireRuntimeOwnership ==
  /\ cli.at = "acquire"
  /\ \/ lock = "daemon" /\ Exit("active") /\ UNCHANGED journal
     \/ /\ lock # "daemon" /\ lock' = "cli"
        /\ IF journal.phase = "quarantine-pending" THEN Advance("quarantined") ELSE Go("run") /\ UNCHANGED journal
  /\ UNCHANGED <<disk, boot, storeVars, config, keyring, outside, counters>>

---------------------------------------------------------------------------
(* The phases                                                              *)

At(phase) == cli.at = "run" /\ journal.phase = phase

\* A readable identity is bound and will be revoked; recognised evidence is bound
\* for an exact cleanup; anything else stops the reset.
InspectAndBindOldDomain ==
  /\ At("quarantined")
  /\ LET status == SigningStatus(signing)
         loaded == AfterLoad(signing)
         exact == EvidenceIsExact(loaded)
         decoded == status = "broken" \/ (status = "ready" /\ platform = "darwin") IN
     /\ signing' = loaded
     /\ IF (decoded /\ ~exact) \/ EncryptionStatus(encryption) = "broken"
        THEN Exit("evidence") /\ UNCHANGED journal
        ELSE /\ UNCHANGED lock
             /\ Commit([journal EXCEPT !.phase = "prepared",
                  !.old = IF status = "absent" THEN None ELSE Evidence(loaded).old,
                  !.oldKey = encryption.key,
                  !.unreadable = status # "ready",
                  !.cleanup = IF decoded THEN Evidence(loaded) ELSE None])
  /\ UNCHANGED <<disk, boot, encryption, config, keyring, outside, counters>>

PersistRevokeIntent ==
  /\ At("prepared") /\ ~journal.unreadable
  /\ Advance("revoke-pending")
  /\ UNCHANGED <<disk, boot, storeVars, config, keyring, outside, lock, counters>>

\* Mutant: a revocation without an answer counts as done.
RevokeOptimistically ==
  /\ At("revoke-pending")
  /\ UNCHANGED relay \/ relay' = [relay EXCEPT !.revoked = @ \cup {journal.old}]
  /\ Advance("old-identity-revoked")
  /\ UNCHANGED <<disk, boot, storeVars, config, keyring, service, lock, counters>>

\* The Relay may not get the request, or its answer may be lost: the phase stays.
RevokeOldIdentity ==
  /\ At("revoke-pending")
  /\ IF SigningStatus(signing) = "ready" /\ signing.meta = journal.old
     THEN \/ Exit("relay") /\ UNCHANGED <<journal, relay>>
          \/ /\ relay' = [relay EXCEPT !.revoked = @ \cup {journal.old}]
             /\ \/ Exit("relay") /\ UNCHANGED journal
                \/ Advance("old-identity-revoked") /\ UNCHANGED lock
     ELSE Exit("evidence") /\ UNCHANGED <<journal, relay>>
  /\ UNCHANGED <<disk, boot, storeVars, config, keyring, service, counters>>

PersistSigningReplacementIntent ==
  /\ (At("prepared") /\ journal.unreadable) \/ At("old-identity-revoked")
  /\ Advance("signing-replacement-pending")
  /\ UNCHANGED <<disk, boot, storeVars, config, keyring, outside, lock, counters>>

\* Mutant: the candidate of an interrupted replacement is not recognised.
NeverProven == FALSE

\* adoptOrReplaceSigningIdentity: a candidate this operation already wrote is
\* adopted, a foreign identity stops the reset, the bound evidence is replaced.
Proven == IF platform = "linux" THEN signing.op = journal.op
          ELSE signing.reset # None /\ signing.reset.op = journal.op
Foreign == SigningStatus(signing) = "ready" /\ signing.meta # journal.old
CleanupChanged == journal.cleanup # None /\ (~EvidenceIsExact(signing) \/ Evidence(signing) # journal.cleanup)

AdoptOrReplaceSigningIdentity ==
  /\ At("signing-replacement-pending")
  /\ IF Proven THEN Go(IF platform = "linux" THEN "sign-commit" ELSE "sign-item") /\ UNCHANGED <<signing, lock>>
     ELSE IF Foreign \/ CleanupChanged \/ signing.reset # None THEN Exit("evidence") /\ UNCHANGED signing
     ELSE /\ Forgotten # {} /\ UNCHANGED lock
          /\ \/ ResetLinuxRecord(journal.op, FreshHost)
             \/ WriteResetSentinel(journal.op, FreshHost,
                  IF journal.cleanup = None THEN [old |-> None, previous |-> None, interrupted |-> None] ELSE journal.cleanup)
  /\ UNCHANGED <<disk, boot, encryption, journal, config, keyring, outside, counters>>

CommitSigning ==
  /\ cli.at = "sign-commit"
  /\ Commit([journal EXCEPT !.phase = "signing-identity-replaced", !.new = signing.meta])
  /\ UNCHANGED <<disk, boot, storeVars, config, keyring, outside, lock, counters>>

SigningWrite ==
  /\ SigningStep
  /\ UNCHANGED <<disk, boot, encryption, journal, config, keyring, outside, lock, counters>>

\* The signing reset is completed before any encryption key is touched.
FinalizeSigning ==
  \/ /\ At("signing-identity-replaced")
     /\ IF Replaced THEN Go("sign-complete") /\ UNCHANGED lock ELSE Exit("evidence")
     /\ UNCHANGED <<disk, boot, storeVars, journal, config, keyring, outside, counters>>
  \/ /\ CompleteExplicitReset(journal.op)
     /\ UNCHANGED <<disk, boot, encryption, journal, config, keyring, outside, lock, counters>>

ReplaceEncryptionIdentity ==
  /\ cli.at = "enc" /\ KeysAreLeft
  /\ IF encryption.reset # None THEN Go("enc-item") /\ UNCHANGED encryption
     ELSE IF EncryptionStatus(encryption) = "ready" /\ encryption.host = journal.new
     THEN Go("enc-commit") /\ UNCHANGED encryption
     ELSE ReplaceEncryptionLinux(journal.new) \/ WriteEncryptionSentinel(journal.op, journal.new)
  /\ UNCHANGED <<disk, boot, signing, journal, config, keyring, outside, lock, counters>>

EncryptionWrite ==
  /\ EncryptionStep
  /\ UNCHANGED <<disk, boot, signing, journal, config, keyring, outside, lock, counters>>

CommitEncryption ==
  /\ cli.at = "enc-commit"
  /\ Advance("encryption-identity-replaced")
  /\ UNCHANGED <<disk, boot, storeVars, config, keyring, outside, lock, counters>>

FinalizeEncryption ==
  \/ /\ At("encryption-identity-replaced")
     /\ IF Replaced /\ EncryptionStatus(encryption) = "ready" /\ encryption.host = journal.new
        THEN Go("enc-complete") /\ UNCHANGED lock ELSE Exit("evidence")
     /\ UNCHANGED <<disk, boot, storeVars, journal, config, keyring, outside, counters>>
  \/ /\ CompleteEncryptionReset(journal.op)
     /\ UNCHANGED <<disk, boot, signing, journal, config, keyring, outside, lock, counters>>

\* clearHostDomainArtifacts, one removal a step: the schema floor and a migration
\* intent are not among its targets.
ClearArtifacts ==
  /\ \/ cli.at = "clear-keyring" /\ keyring' = None /\ Go("clear-state") /\ UNCHANGED disk
     \/ cli.at = "clear-state" /\ disk' = [disk EXCEPT !.state = None] /\ Go("clear-spool") /\ UNCHANGED keyring
     \/ cli.at = "clear-spool" /\ disk' = [disk EXCEPT !.spool = None] /\ Go("clear-intent") /\ UNCHANGED keyring
     \/ cli.at = "clear-intent" /\ disk' = [disk EXCEPT !.reset = None] /\ Go("clear-key") /\ UNCHANGED keyring
  /\ UNCHANGED <<boot, storeVars, journal, config, outside, lock, counters>>

\* removeForHostReplacement: on macOS the item is deleted when the evidence names
\* the old Host, and the evidence file goes second.
ClearSpoolKey ==
  /\ cli.at = "clear-key"
  /\ LET old == IF journal.unreadable THEN None ELSE journal.old
         owned == disk.key # None /\ disk.key.host = old IN
     CASE disk.key = None -> UNCHANGED <<disk, lock>> /\ Go("clear-commit")
       [] disk.key # None /\ platform = "linux" /\ old # None /\ ~owned -> Exit("evidence") /\ UNCHANGED disk
       [] disk.key # None /\ platform = "darwin" /\ owned /\ disk.items[old] # 0 ->
            disk' = [disk EXCEPT !.items[old] = 0] /\ UNCHANGED <<cli, lock>>
       [] OTHER -> disk' = [disk EXCEPT !.key = None] /\ UNCHANGED lock /\ Go("clear-commit")
  /\ UNCHANGED <<boot, storeVars, journal, config, keyring, outside, counters>>

CommitCleared ==
  /\ cli.at = "clear-commit"
  /\ Advance("runtime-artifacts-cleared")
  /\ UNCHANGED <<disk, boot, storeVars, config, keyring, outside, lock, counters>>

PersistConfig ==
  /\ At("runtime-artifacts-cleared")
  /\ CASE ~Replaced -> Exit("evidence") /\ UNCHANGED <<config, journal>>
       [] Replaced /\ config # journal.new -> config' = journal.new /\ UNCHANGED <<cli, lock, journal>>
       [] OTHER -> Advance("config-saved") /\ UNCHANGED <<config, lock>>
  /\ UNCHANGED <<disk, boot, storeVars, keyring, outside, counters>>

EnrollNewIdentity ==
  /\ At("config-saved")
  /\ IF Replaced /\ config = journal.new /\ encryption.host = journal.new
     THEN \/ Exit("relay") /\ UNCHANGED <<journal, relay>>
          \/ /\ relay' = [relay EXCEPT !.enrolled = @ \cup {journal.new}]
             /\ \/ Exit("relay") /\ UNCHANGED journal
                \/ Advance("enrolled") /\ UNCHANGED lock
     ELSE Exit("evidence") /\ UNCHANGED <<journal, relay>>
  /\ UNCHANGED <<disk, boot, storeVars, config, keyring, service, counters>>

\* The service definition is written again, unloaded, for the new identity.
SyncServiceMetadata ==
  /\ At("enrolled")
  /\ IF Replaced THEN Advance("service-metadata-synchronized") /\ UNCHANGED lock ELSE Exit("evidence") /\ UNCHANGED journal
  /\ service' = IF service.managed THEN [service EXCEPT !.loaded = FALSE, !.reference = signing.meta] ELSE service
  /\ UNCHANGED <<disk, boot, storeVars, config, keyring, relay, counters>>

PersistServiceRestoreIntent ==
  /\ At("service-metadata-synchronized")
  /\ IF Replaced THEN Advance("service-restore-pending") /\ UNCHANGED lock ELSE Exit("evidence") /\ UNCHANGED journal
  /\ UNCHANGED <<disk, boot, storeVars, config, keyring, outside, counters>>

\* recoverServiceRestorePending: the replacement domain is verified, then the
\* runtime lock is given back before the service is started.
RuntimeIsClean ==
  /\ keyring = None /\ disk.reset = None
  /\ (disk.state = None) = (disk.spool = None)
  /\ IF disk.state = None THEN disk.key = None ELSE PairOf(disk, Current, journal.new)

VerifyReplacement ==
  /\ At("service-restore-pending")
  /\ IF Replaced /\ EncryptionStatus(encryption) = "ready" /\ encryption.host = journal.new
        /\ config = journal.new /\ RuntimeIsClean
     THEN Go("restore") /\ lock' = "free" ELSE Exit("evidence")
  /\ UNCHANGED <<disk, boot, storeVars, journal, config, keyring, outside, counters>>

\* restoreAndConfirm; the confirmation then lets the journal be removed once.
RestoreService ==
  /\ cli.at = "restore"
  /\ IF service.managed /\ service.reference # journal.new
     THEN Exit("evidence") /\ UNCHANGED <<boot, service>>
     ELSE /\ IF service.managed /\ journal.wasRunning /\ boot.at = "off"
             THEN service' = [service EXCEPT !.loaded = TRUE] /\ boot' = [Off EXCEPT !.at = "spawned", !.host = config]
             ELSE UNCHANGED <<service, boot>>
          /\ Go("confirm") /\ UNCHANGED lock
  /\ UNCHANGED <<disk, storeVars, journal, config, keyring, relay, counters>>

\* The process the manager reports may meanwhile have met the guard and left.
ConfirmAndRemoveJournal ==
  /\ cli.at = "confirm"
  /\ IF ProcessRunning = (service.managed /\ journal.wasRunning)
     THEN /\ journal' = None /\ Exit("none")
          /\ warned' = IF journal.unreadable THEN warned \cup {journal.old} ELSE warned
     ELSE Exit("restore") /\ UNCHANGED <<journal, warned>>
  /\ UNCHANGED <<disk, boot, storeVars, config, keyring, outside, platform, started, crashes>>

Reset ==
  \/ CreateJournal \/ ResumeReset \/ StopAndConfirm \/ AcquireRuntimeOwnership
  \/ InspectAndBindOldDomain \/ PersistRevokeIntent \/ RevokeOldIdentity \/ PersistSigningReplacementIntent
  \/ AdoptOrReplaceSigningIdentity \/ CommitSigning \/ FinalizeSigning
  \/ ReplaceEncryptionIdentity \/ EncryptionWrite \/ CommitEncryption \/ FinalizeEncryption
  \/ ClearArtifacts \/ ClearSpoolKey \/ CommitCleared \/ PersistConfig
  \/ EnrollNewIdentity \/ SyncServiceMetadata \/ PersistServiceRestoreIntent
  \/ VerifyReplacement \/ RestoreService \/ ConfirmAndRemoveJournal

Setup == Initialize \/ CreateSigningIdentity \/ SaveInitialConfig \/ InitialEncryption

---------------------------------------------------------------------------

NoSigning == [meta |-> None, op |-> NoOp, broken |-> FALSE, items |-> {}, index |-> FALSE,
              creating |-> None, reset |-> None]
NoEncryption == [host |-> None, key |-> 0, items |-> {}, reset |-> None]
Idle == [at |-> "idle", key |-> 0, error |-> "none"]

\* A profile that was never initialised, or Host h as some release left it,
\* perhaps with a signing key that can no longer be read.
Fresh ==
  /\ signing = NoSigning /\ encryption = NoEncryption
  /\ disk = NoFiles /\ config = None /\ keyring = None /\ relay = [enrolled |-> {}, revoked |-> {}]

InUse(h) ==
  LET mac == platform = "darwin" IN
  \E readable \in BOOLEAN :
    /\ signing = [NoSigning EXCEPT !.meta = h, !.index = mac, !.broken = ~readable /\ ~mac,
                                   !.items = IF mac /\ readable THEN {h} ELSE {}]
    /\ encryption = [NoEncryption EXCEPT !.host = h, !.key = 1, !.items = IF mac THEN {1} ELSE {}]
    /\ disk \in InitialDisks(h)
    /\ config = h /\ keyring = h /\ relay = [enrolled |-> {h}, revoked |-> {}]

Init ==
  /\ platform \in {"linux", "darwin"}
  /\ boot = Off /\ cli = Idle /\ journal = None /\ lock = "free" /\ warned = {} /\ started = 0 /\ crashes = 0
  /\ Fresh \/ InUse(CHOOSE h \in Hosts : TRUE)
  /\ \E managed \in BOOLEAN : service = [managed |-> managed, loaded |-> managed, reference |-> config]

Next == Daemon \/ CrashCli \/ Setup \/ SigningWrite \/ Reset

Spec == Init /\ [][Next]_vars

---------------------------------------------------------------------------
(* Properties                                                              *)

\* Type invariant: every file, store, process and the journal has one of its shapes.
TypeOK ==
  /\ disk \in Disk /\ boot \in Boot /\ signing \in SigningStore /\ encryption \in EncryptionStore
  /\ journal \in Journals \cup {None}
  /\ cli \in [at : CliPlaces, key : KeyIds \cup {0}, error : {"none", "active", "evidence", "relay", "restore"}]
  /\ platform \in {"linux", "darwin"} /\ {config, keyring} \subseteq MaybeHost
  /\ relay \in [enrolled : SUBSET Hosts, revoked : SUBSET Hosts]
  /\ service \in [managed : BOOLEAN, loaded : BOOLEAN, reference : MaybeHost]
  /\ lock \in {"free", "cli", "daemon"} /\ started \in 0 .. MaxOps

\* A Host the Relay still accepts is one this profile can still revoke: it is the
\* current signing identity, or the command reported that its key was unreadable.  A replacement
\* that was enrolled in a lost answer is never exchanged for another one.
NoEnrolledHostIsAbandoned ==
  \A h \in relay.enrolled \ relay.revoked :
    h \in warned \/ signing.meta = h \/ (journal # None /\ journal.old = h /\ journal.unreadable)

\* While the daemon runs, everything it works with belongs to one Host: both
\* identities, the configuration, the keyring, the runtime files and the spool key.
\* The reset replaces all of them, one at a time, and never under a running daemon.
RunningDomainIsOneHost ==
  boot.at = "up" =>
    /\ {signing.meta, config, encryption.host, disk.spool.host, disk.key.host, disk.floor} = {boot.host}
    /\ {keyring, disk.state.host} \subseteq {None, boot.host}
    /\ disk.spool.key = disk.key.id

\* An interrupted reset is resumed by the same command, wherever it was cut off: it
\* never meets evidence of its own making that it refuses, and never asks the journal
\* for a transition that the store's policy, a table of its own, does not allow.
ResetGoesOn ==
  /\ cli'.error # "evidence"
  /\ journal # None /\ journal' # None => Accepted(journal, journal')

ResetIsNeverWedged == [][ResetGoesOn]_vars

\* Once the old domain is cleared no private key of it is left in the stores.
OldKeysAreGone ==
  Reached("runtime-artifacts-cleared") =>
    /\ signing.items \subseteq {journal.new}
    /\ journal.oldKey # encryption.key /\ journal.oldKey \notin encryption.items
    /\ disk.key = None

\* No Host is left behind that the Relay accepts, or with keys here, when a reset ends or
\* is cut off.
OldHostIsRetired == NoEnrolledHostIsAbandoned /\ OldKeysAreGone

\* A start of the daemon is refused for one reason only: a schema floor, or a
\* migration intent, of a Host that was reset.
OnlyAnOldFloorRefuses ==
  boot.at = "refused" => disk.floor \notin {None, boot.host} \/ disk.migration # None

\* The revisions the Relay has seen are not lost by an interrupted migration.
RevisionsAreKept ==
  disk.state # None /\ disk.state.v >= 3 /\ disk'.state # None => disk'.state.rev >= disk.state.rev

\* What a preflight does to the runtime files, wherever it is cut off, is taken up
\* by the next start, which is not refused and loses nothing.
RuntimeIsCarriedOver == [][OnlyAnOldFloorRefuses' /\ RevisionsAreKept]_vars

\* docs/release.md: the reset "removes the old ... runtime state ... and creates a
\* canonical zero-link replacement": the replacement Host's daemon starts.
ReplacementHostStarts == boot.at # "refused"

===========================================================================
