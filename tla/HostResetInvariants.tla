------------------------ MODULE HostResetInvariants -------------------------
(***************************************************************************)
(* What holds at every instant of the host-domain reset, stated for the    *)
(* proofs of HostResetProofs.                                              *)
(*                                                                         *)
(* A death leaves the phase of the journal and the stores as the last      *)
(* write left them.  The invariant says what they may be to each other: at *)
(* which writes the process can stand in each phase, what each store holds *)
(* in it and behind each write, that nobody but the reset knows the        *)
(* replacement before it is committed, and which files a start that was    *)
(* cut off leaves to the next one.                                         *)
(*                                                                         *)
(* The rest of the module says what each operation writes, once, so that   *)
(* the proofs need not look into it again, and what those operations leave *)
(* that touch several stores at once.                                      *)
(***************************************************************************)
EXTENDS HostReset, TLAPS

-----------------------------------------------------------------------------
(* The invariant                                                           *)

\* The phase the journal records; no journal is a phase of its own.
Phase == IF journal = None THEN "none" ELSE journal.phase

\* The old domain is bound and not yet replaced.
BoundPhases == {"prepared", "revoke-pending", "old-identity-revoked", "signing-replacement-pending"}

\* Nothing is bound yet.
UnfilledPhases == {"quarantine-pending", "quarantined"}

\* What is done once a phase is reached: each set holds the phases from there on.
AfterConfig == {"config-saved", "enrolled", "service-metadata-synchronized", "service-restore-pending"}

\* The same, from the clearing on.
AfterClearing == AfterConfig \cup {"runtime-artifacts-cleared"}

\* The same, from the replaced key on.
AfterEncryption == AfterClearing \cup {"encryption-identity-replaced"}

\* The same, from the replaced signing identity on.
ReplacedPhases == AfterEncryption \cup {"signing-identity-replaced"}

\* Where the process stands in each workflow that writes a store.
InitPlaces == {"init-sign", "init-item", "init-index", "init-meta", "init-uncreate", "init-config", "init-enc",
  "init-enc-record"}

\* The writes of finishReset.
SignPlaces == {"sign-item", "sign-index", "sign-meta", "sign-previous", "sign-interrupted", "sign-uncreate",
  "sign-commit"}

\* The writes of the replacement of the key.
EncPlaces == {"enc", "enc-item", "enc-meta", "enc-previous", "enc-commit"}

\* The removals of the clearing.
ClearPlaces == {"clear-keyring", "clear-state", "clear-spool", "clear-intent", "clear-key", "clear-commit"}

\* The places at which the command holds the runtime lock.
Working == {"run"} \cup SignPlaces \cup {"sign-complete"} \cup EncPlaces \cup {"enc-complete"} \cup ClearPlaces

\* The process stands where the journal lets it be.
PlacesOK ==
  /\ cli.at \in InitPlaces => journal = None
  /\ cli.at \in {"stop", "acquire", "run", "restore", "confirm"} => journal # None
  /\ cli.at = "run" => Phase # "quarantine-pending"
  /\ cli.at \in SignPlaces => Phase = "signing-replacement-pending"
  /\ cli.at \in EncPlaces \cup {"sign-complete"} => Phase = "signing-identity-replaced"
  /\ cli.at \in ClearPlaces \cup {"enc-complete"} => Phase = "encryption-identity-replaced"
  /\ cli.at \in {"restore", "confirm"} => Phase = "service-restore-pending"

\* The command never gave up because of what it found in the stores.
NoRefusal == cli.error # "evidence"

\* The runtime lock is with the process that works on the runtime.
LocksOK ==
  /\ lock = "cli" <=> cli.at \in Working
  /\ lock = "daemon" <=> boot.at \notin {"off", "spawned", "guarded"}

\* The daemon is past its validation: it works on the runtime's files.
Inside == boot.at \notin {"off", "spawned", "guarded", "locked"}

\* The replacement a reset has chosen, by platform and phase.
Candidate ==
  IF Phase \in ReplacedPhases THEN journal.new
  ELSE IF Phase # "signing-replacement-pending" THEN None
  ELSE IF signing.op # NoOp THEN signing.meta
  ELSE IF signing.reset # None THEN signing.reset.candidate ELSE None

\* The signing record already names the replacement, other files may not.
Mixed == Candidate # None /\ signing.meta = Candidate

\* A Linux record carries an operation only while that operation's reset is unfinished.
LinuxSigning ==
  platform = "linux" =>
    /\ signing.items = {} /\ ~signing.index /\ signing.creating = None /\ signing.reset = None
    /\ signing.op # NoOp =>
         /\ Phase \in {"signing-replacement-pending", "signing-identity-replaced"}
         /\ signing.op = journal.op /\ signing.meta # None /\ ~signing.broken
    /\ signing.broken => signing.meta # None

\* The stores of macOS outside a reset: metadata and items name one Host, or a creation was cut off.
Steady ==
  /\ signing.meta # None => signing.index /\ signing.creating \in {None, signing.meta} /\
       signing.items \subseteq {signing.meta}
  /\ signing.meta = None => signing.items \subseteq {signing.creating} \ {None}
  /\ signing.meta = None /\ signing.creating = None => ~signing.index

\* A reset sentinel is that of the journal's operation; without one the stores are steady.
MacSigning ==
  platform = "darwin" =>
    /\ signing.op = NoOp /\ ~signing.broken
    /\ signing.reset # None =>
         /\ Phase \in {"signing-replacement-pending", "signing-identity-replaced"}
         /\ signing.reset.op = journal.op
    /\ signing.reset = None /\ Phase \notin ReplacedPhases => Steady

\* The candidate of the reset sentinel.
Chosen == signing.reset.candidate

\* Between the sentinel and the journal's next phase: what is old is the bound evidence, and each
\* write of finishReset has been done by the time the process stands behind it.
Replacing ==
  Phase = "signing-replacement-pending" /\ signing.reset # None =>
    /\ Chosen # journal.old
    /\ signing.items \subseteq {Chosen, journal.old} \ {None}
    /\ signing.meta \in {signing.reset.previous, Chosen}
    /\ {signing.reset.previous, signing.reset.interrupted} \subseteq {None, journal.old}
    /\ journal.old \in {None, signing.reset.previous, signing.reset.interrupted}
    /\ ~journal.unreadable => signing.reset.previous = journal.old /\ journal.old # None
    /\ signing.creating \in {None, signing.reset.interrupted}
    /\ cli.at \in {"sign-index", "sign-meta", "sign-previous", "sign-interrupted", "sign-uncreate",
         "sign-commit"} => Chosen \in signing.items
    /\ cli.at \in {"sign-meta", "sign-previous", "sign-interrupted", "sign-uncreate", "sign-commit"} => signing.index
    /\ cli.at \in {"sign-previous", "sign-interrupted", "sign-uncreate", "sign-commit"} => signing.meta = Chosen
    /\ cli.at = "sign-interrupted" /\ journal.old # None /\ journal.old = signing.reset.previous =>
         journal.old \notin signing.items
    /\ cli.at \in {"sign-uncreate", "sign-commit"} => signing.items = {Chosen}
    /\ cli.at = "sign-commit" => signing.creating = None

\* Once the signing identity is replaced the store holds the journalled Host and nothing of another.
Done ==
  /\ Phase \in ReplacedPhases =>
       /\ signing.meta = journal.new /\ journal.new # None /\ ~signing.broken
       /\ platform = "darwin" => signing.items = {journal.new} /\ signing.index /\ signing.creating = None
  /\ cli.at \in EncPlaces \/ Phase \in AfterEncryption => signing.reset = None /\ signing.op = NoOp
  /\ cli.at \in {"sign-item", "sign-index", "sign-meta", "sign-previous", "sign-interrupted",
       "sign-uncreate"} => signing.reset # None
  /\ cli.at = "sign-commit" => Mixed

\* A first run, cut off anywhere, leaves evidence of one Host that nothing else names.
Initialising ==
  /\ cli.at = "init-sign" => SigningStatus(signing) = "absent"
  /\ cli.at \in {"init-item", "init-index", "init-meta"} =>
       signing.meta = None /\ signing.creating # None /\ signing.creating # boot.host /\ platform = "darwin"
       /\ signing.creating # disk.floor /\ (disk.migration # None => disk.migration.host # signing.creating)
  /\ cli.at \in {"init-index", "init-meta"} => signing.creating \in signing.items
  /\ cli.at = "init-meta" => signing.index
  /\ cli.at \in {"init-uncreate", "init-config", "init-enc", "init-enc-record"} => signing.meta # None
  /\ cli.at \in {"init-uncreate", "init-enc-record"} => platform = "darwin"

\* What each phase of the journal has filled in.
JournalOK ==
  /\ Phase \in UnfilledPhases => journal.old = None /\ journal.oldKey = 0 /\ journal.cleanup = None /\
       ~journal.unreadable
  /\ Phase \in UnfilledPhases \cup BoundPhases => journal.new = None
  /\ Phase \in {"revoke-pending", "old-identity-revoked"} => ~journal.unreadable
  /\ Phase \in {"old-identity-revoked", "signing-replacement-pending"} /\ ~journal.unreadable =>
       journal.old # None /\ journal.old \in relay.revoked

\* Until a candidate exists the journal's evidence is still what the store holds.
Bound ==
  Phase \in BoundPhases /\ Candidate = None =>
    /\ journal.old = IF signing.meta # None THEN signing.meta ELSE signing.creating
    /\ journal.unreadable <=> SigningStatus(signing) # "ready"
    /\ SigningStatus(signing) = "ready" => signing.creating = None
    /\ journal.cleanup = IF SigningStatus(signing) = "absent" \/
         (SigningStatus(signing) = "ready" /\ platform = "linux")
                         THEN None ELSE Evidence(signing)

\* A key sentinel is that of the journal's operation and replaces the bound key.
EncReset ==
  encryption.reset # None =>
    /\ platform = "darwin"
    /\ Phase \in {"signing-identity-replaced", "encryption-identity-replaced"}
    /\ encryption.reset.op = journal.op /\ encryption.reset.host = journal.new
    /\ encryption.reset.key \notin encryption.reset.previous
    /\ journal.oldKey \in {0} \cup encryption.reset.previous
    /\ encryption.key \in encryption.reset.previous \cup {0, encryption.reset.key}

\* The encryption key in each phase: the bound one until it is replaced, and another one after.
EncryptionOK ==
  /\ platform = "linux" => encryption.items = {}
  /\ encryption.host = None <=> encryption.key = 0
  /\ platform = "darwin" /\ encryption.host # None => encryption.key \in encryption.items
  /\ boot.at = "encrypt-record" => boot.key \in encryption.items
  /\ cli.at = "init-enc-record" => cli.key \in encryption.items
  /\ Phase \in BoundPhases => journal.oldKey \in {0, encryption.key}
  /\ Phase \in BoundPhases /\ boot.at = "encrypt-record" => encryption.host = None
  /\ Phase = "signing-identity-replaced" /\ encryption.reset = None =>
       IF encryption.host = journal.new THEN platform = "linux" /\ encryption.key # journal.oldKey
       ELSE journal.oldKey \in {0, encryption.key}
  /\ cli.at \in {"enc-item", "enc-meta", "enc-previous"} => encryption.reset # None
  /\ cli.at = "enc-meta" => encryption.reset.key \in encryption.items
  /\ cli.at \in {"enc-previous", "enc-commit"} => encryption.host = journal.new
       /\ (encryption.reset # None => encryption.key = encryption.reset.key)
  /\ cli.at = "enc-commit" => encryption.key # journal.oldKey /\ journal.oldKey \notin encryption.items
  /\ Phase \in AfterEncryption =>
       encryption.host = journal.new /\ encryption.key # journal.oldKey /\ journal.oldKey \notin encryption.items
  /\ cli.at \in ClearPlaces \/ Phase \in AfterClearing => encryption.reset = None

\* A daemon that works, works for the Host of the signing record and of the configuration.
DaemonOK ==
  /\ Inside => boot.host # None /\ boot.host = signing.meta /\ config = boot.host
  /\ boot.host # None /\ boot.host = signing.meta => config = boot.host
  /\ boot.at \in {"up"} => encryption.host # None

\* No process, and no file a reset leaves alone, names the replacement yet.
CandidateOK ==
  Candidate # None =>
    /\ boot.at \notin {"off", "spawned"} => boot.host # Candidate
    /\ disk.floor # Candidate /\ (disk.migration # None => disk.migration.host # Candidate)
    /\ Phase = "signing-replacement-pending" => Candidate \notin {config, boot.host, encryption.host}

\* Outside an exchange the configuration, the key and the keyring are those of the signing Host.
OwnOK ==
  /\ ~Mixed => {config, encryption.host, keyring} \subseteq {None, signing.meta}
  /\ Phase \in AfterConfig => config = journal.new

\* The spool key, the spool and the state are those of Host h.
KeyOK(h) ==
  /\ disk.key # None => KeyReady(disk, h)
  /\ disk.spool # None => disk.key # None /\ disk.spool.host = h /\ disk.spool.key = disk.key.id
  /\ disk.state # None => disk.state.host \in {None, h}

\* No other Host left a schema floor or a migration intent.
Clean(h) == disk.floor \in {None, h} /\ (disk.migration # None => disk.migration.host = h)

\* A migration intent binds a pair of schema 3, and each file is its source or its target.
MigrationOK(h) ==
  disk.migration # None =>
    LET i == disk.migration IN
    /\ StateOf(i.state, 3, h) /\ IsSpoolRecordForSchema(i.spool, 3, h, i.state.epoch)
    /\ i.spool.key = disk.key.id /\ disk.spool # None
    /\ disk.state \in {i.state, MigrateStateV3ToV4(i.state)}
    /\ disk.spool \in {i.spool, MigrateSpoolV3ToV4(i.spool)}
    /\ disk.reset = None

\* A reset intent can be resumed, and it drops no state of schema 3 or later.
ResetOK(h) ==
  disk.reset # None =>
    LET i == disk.reset IN
    /\ disk.floor = None /\ disk.migration = None
    /\ ResetResumable(disk, h)
    /\ i.state # None => i.state.v <= 2 /\ i.state.host \in {None, h}

\* Files that call for a reset: none, a pair of schema 2, or what schema 1 left.
OldFiles(h) ==
  /\ disk.floor = None /\ disk.reset = None /\ disk.migration = None
  /\ (disk.state = None /\ disk.spool = None) \/ PairOf(disk, 2, h) \/ IsRecognizedLegacyRuntime(disk, h)

\* Without an intent the files are a pair a start can open, migrate or reset.
FilesOK(h) ==
  disk.reset = None /\ disk.migration = None =>
    /\ disk.floor = h /\ h # None => PairOf(disk, Current, h)
    /\ disk.floor = None => PairOf(disk, Current, h) \/ PairOf(disk, 3, h) \/ OldFiles(h)

\* The files of Host h are those of a start that was cut off somewhere.
ShapeOK(h) == MigrationOK(h) /\ ResetOK(h) /\ FilesOK(h)

\* The runtime's files are those of the signing Host.
DiskOK == ~Mixed => KeyOK(signing.meta) /\ (Clean(signing.meta) => ShapeOK(signing.meta))

\* During a reset the spool key is that of the Host the reset retires.
OldKeyOK == Phase \in (BoundPhases \cup ReplacedPhases) /\ ~journal.unreadable /\ disk.key # None =>
  disk.key.host = journal.old

\* What a start has found or written by the time it stands behind each step.
StartOK ==
  /\ boot.at \in {"key", "intent"} => OldFiles(boot.host) /\ boot.from \in {1, 2}
  /\ boot.at = "intent" => disk.key # None
  /\ boot.at \in {"reset-spool", "reset-state", "reset-done"} => disk.reset # None /\ Clean(boot.host)
  /\ boot.at \in {"reset-state", "reset-done"} => disk.spool = ResetSpool(disk.reset)
  /\ boot.at = "reset-done" => disk.state = ResetState(disk.reset)
  /\ boot.at = "migration" => disk.floor = None /\ disk.migration = None /\ disk.reset = None /\
       PairOf(disk, 3, boot.host)
  /\ boot.at \in {"migrate-spool", "migrate-state", "migrate-floor", "migrate-done"} => disk.migration # None /\
       Clean(boot.host)
  /\ boot.at \in {"migrate-state", "migrate-floor", "migrate-done"} =>
       disk.spool = MigrateSpoolV3ToV4(disk.migration.spool)
  /\ boot.at \in {"migrate-floor", "migrate-done"} => disk.state = MigrateStateV3ToV4(disk.migration.state)
  /\ boot.at = "migrate-done" => disk.floor = boot.host
  /\ boot.at = "floor" => disk.floor = None /\ disk.migration = None /\ disk.reset = None /\
       PairOf(disk, Current, boot.host)
  /\ boot.at \in {"open", "encrypt", "encrypt-record", "up"} => disk.floor = boot.host /\ disk.migration = None

\* What the clearing has removed by the time the process stands behind each removal.
ClearOK ==
  LET past(places) == cli.at \in places \/ Phase \in AfterClearing IN
  /\ past(ClearPlaces \ {"clear-keyring"}) => keyring = None
  /\ past(ClearPlaces \ {"clear-keyring", "clear-state"}) => disk.state = None
  /\ past({"clear-intent", "clear-key", "clear-commit"}) => disk.spool = None
  /\ past({"clear-key", "clear-commit"}) => disk.reset = None
  /\ past({"clear-commit"}) => disk.key = None

\* The service definition names the replacement from its synchronisation on.
ServiceOK ==
  /\ Phase \in {"service-metadata-synchronized", "service-restore-pending"} /\ service.managed =>
       service.reference = journal.new

\* The inductive invariant.
IInv ==
  /\ PlacesOK /\ NoRefusal /\ LocksOK
  /\ LinuxSigning /\ MacSigning /\ Replacing /\ Done /\ Initialising
  /\ JournalOK /\ Bound
  /\ EncReset /\ EncryptionOK
  /\ DaemonOK /\ CandidateOK /\ OwnOK
  /\ DiskOK /\ OldKeyOK /\ StartOK /\ ClearOK /\ ServiceOK
  /\ NoEnrolledHostIsAbandoned /\ OnlyAnOldFloorRefuses

-----------------------------------------------------------------------------
(* Types                                                                   *)

\* The record of the CLI process.
CliRecord == [at : CliPlaces, key : KeyIds \cup {0}, error : {"none", "active", "evidence", "relay", "restore"}]

\* What stands for nothing is nothing else.
LEMMA NoneIsNothing ==
  /\ None \notin Hosts /\ None \notin StateFile /\ None \notin SpoolFile /\ None \notin ResetIntent /\
       None \notin MigrationIntent
  /\ None \notin SpoolKeys /\ None \notin SigningResets /\ None \notin EncryptionResets /\
       None \notin Evidences /\ None \notin Journals
  BY ResetAssumption DEF ResetAssumption

\* The type invariant, one variable at a time.
LEMMA Kinds ==
  ASSUME TypeOK
  PROVE  /\ cli \in CliRecord /\ boot \in Boot /\ disk \in Disk /\ signing \in SigningStore /\
              encryption \in EncryptionStore
         /\ journal # None => journal \in Journals
         /\ platform \in {"linux", "darwin"}
         /\ relay \in [enrolled : SUBSET Hosts, revoked : SUBSET Hosts]
         /\ service \in [managed : BOOLEAN, loaded : BOOLEAN, reference : MaybeHost]
         /\ lock \in {"free", "cli", "daemon"} /\ started \in 0 .. MaxOps
         /\ config \in MaybeHost /\ keyring \in MaybeHost
  BY DEF TypeOK, CliRecord

\* The phases, by name.
LEMMA PhaseList ==
  PhaseNames = {"quarantine-pending", "quarantined", "prepared", "revoke-pending", "old-identity-revoked",
  "signing-replacement-pending", "signing-identity-replaced", "encryption-identity-replaced",
  "runtime-artifacts-cleared", "config-saved", "enrolled", "service-metadata-synchronized",
  "service-restore-pending"}
<1>1. DOMAIN Phases = 1 .. 13
  BY DEF Phases
<1>2. PhaseNames = {Phases[n] : n \in {1,2,3,4,5,6,7,8,9,10,11,12,13}}
  BY <1>1 DEF PhaseNames
<1>3. QED BY <1>2 DEF Phases

-----------------------------------------------------------------------------
(* What the operations write                                               *)

\* The process moves on, gives up or is done, or writes a phase.
MovesTo(place) == cli'.at = place /\ cli'.key = cli.key /\ cli'.error = cli.error

\* The process gives up or is done.
Leaves(error) == cli'.at = "idle" /\ cli'.error = error /\ lock' = IF lock = "cli" THEN "free" ELSE lock

\* The process writes a phase and goes on.
Enters(phase) ==
  /\ journal # None /\ journal' # None /\ journal'.phase = phase
  /\ journal'.op = journal.op /\ journal'.old = journal.old /\ journal'.oldKey = journal.oldKey /\
       journal'.new = journal.new
  /\ journal'.unreadable = journal.unreadable /\ journal'.cleanup = journal.cleanup /\
       journal'.wasRunning = journal.wasRunning

\* What the three operators of the CLI process do.
LEMMA Moving == ASSUME TypeOK PROVE \A place : Go(place) => MovesTo(place)
  BY Kinds DEF Go, MovesTo, CliRecord

\* What Exit does.
LEMMA Leaving == \A error : Exit(error) => Leaves(error)
  BY DEF Exit, Leaves

\* What Advance does.
LEMMA Entering ==
  ASSUME TypeOK, journal # None
  PROVE \A phase \in PhaseNames : Advance(phase) => Enters(phase) /\ MovesTo("run") /\ journal' \in Journals
<1> SUFFICES ASSUME NEW phase \in PhaseNames, Advance(phase) PROVE Enters(phase) /\ MovesTo("run") /\
               journal' \in Journals
  OBVIOUS
<1>1. journal \in Journals /\ journal' = [journal EXCEPT !.phase = phase] /\ MovesTo("run")
  BY Kinds, Moving DEF Advance, Commit
<1>2. journal' \in Journals
  BY <1>1 DEF Journals
<1>3. journal' # None
  BY <1>2, NoneIsNothing
<1>4. QED BY <1>1, <1>2, <1>3 DEF Enters, Journals

\* What a binding writes.
Binds(s) ==
  /\ journal # None /\ journal' # None /\ journal'.phase = "prepared"
  /\ journal'.op = journal.op /\ journal'.new = journal.new /\ journal'.wasRunning = journal.wasRunning
  /\ journal'.old = IF SigningStatus(signing) = "absent" THEN None ELSE Evidence(s).old
  /\ journal'.oldKey = encryption.key
  /\ journal'.unreadable = (SigningStatus(signing) # "ready")
  /\ journal'.cleanup = IF SigningStatus(signing) = "absent" \/
       (SigningStatus(signing) = "ready" /\ platform = "linux")
                        THEN None ELSE Evidence(s)

\* The verdicts on a store.
LEMMA Statuses ==
  /\ SigningStatus(signing) \in {"absent", "broken", "ready"}
  /\ EncryptionStatus(encryption) \in {"absent", "broken", "ready"}
  BY DEF SigningStatus, EncryptionStatus

\* InspectAndBindOldDomain gives up over what it cannot replace, or binds what it found.
LEMMA Binding ==
  ASSUME TypeOK, journal # None, InspectAndBindOldDomain
  PROVE  /\ Phase = "quarantined" /\ cli.at = "run" /\ signing' = AfterLoad(signing)
         /\ UNCHANGED <<disk, boot, encryption, config, keyring, outside, counters>>
         /\ \/ /\ Leaves("evidence") /\ UNCHANGED journal
               /\ \/ EncryptionStatus(encryption) = "broken"
                  \/ ~EvidenceIsExact(AfterLoad(signing)) /\
                       (SigningStatus(signing) = "broken" \/ (SigningStatus(signing) = "ready" /\ platform = "darwin"))
            \/ Binds(AfterLoad(signing)) /\ journal' \in Journals /\ MovesTo("run") /\ UNCHANGED lock
<1>1. Phase = "quarantined" /\ cli.at = "run" /\ signing' = AfterLoad(signing)
         /\ UNCHANGED <<disk, boot, encryption, config, keyring, outside, counters>>
  BY DEF InspectAndBindOldDomain, At, Phase
<1> DEFINE s == AfterLoad(signing)
           decoded == SigningStatus(signing) = "broken" \/ (SigningStatus(signing) = "ready" /\ platform = "darwin")
           next == [journal EXCEPT !.phase = "prepared",
                  !.old = IF SigningStatus(signing) = "absent" THEN None ELSE Evidence(s).old,
                  !.oldKey = encryption.key,
                  !.unreadable = SigningStatus(signing) # "ready",
                  !.cleanup = IF decoded THEN Evidence(s) ELSE None]
<1>2. \/ Exit("evidence") /\ UNCHANGED journal /\
           ((decoded /\ ~EvidenceIsExact(s)) \/ EncryptionStatus(encryption) = "broken")
      \/ Commit(next) /\ UNCHANGED lock
  BY DEF InspectAndBindOldDomain
<1>3. CASE Exit("evidence") /\ UNCHANGED journal /\
             ((decoded /\ ~EvidenceIsExact(s)) \/ EncryptionStatus(encryption) = "broken")
  BY <1>1, <1>3, Leaving
<1>4. CASE Commit(next) /\ UNCHANGED lock
  <2>1. journal' = next /\ MovesTo("run") /\ journal \in Journals
    BY <1>4, Moving, Kinds DEF Commit
  <2>2. s \in SigningStore /\ Evidence(s) \in Evidences
    <3>1. s \in SigningStore
      BY Kinds DEF AfterLoad, SigningStore, MaybeHost
    <3>2. QED BY <3>1 DEF Evidence, Evidences, SigningStore, MaybeHost
  <2>3. next \in Journals
    <3>1. Evidence(s).old \in MaybeHost /\ encryption.key \in KeyIds \cup {0} /\ None \in MaybeHost
      BY <2>2, Kinds DEF Evidences, EncryptionStore, MaybeHost
    <3>2. "prepared" \in PhaseNames
      BY PhaseList
    <3> HIDE DEF decoded, s
    <3>3. QED BY <2>1, <2>2, <3>1, <3>2 DEF Journals
  <2>4. journal' # None
    BY <2>1, <2>3, NoneIsNothing
  <2>5. decoded <=> ~(SigningStatus(signing) = "absent" \/ (SigningStatus(signing) = "ready" /\ platform = "linux"))
    BY Statuses, Kinds
  <2> HIDE DEF decoded, s
  <2>6. /\ next.phase = "prepared" /\ next.op = journal.op /\ next.new = journal.new /\
             next.wasRunning = journal.wasRunning
        /\ next.old = (IF SigningStatus(signing) = "absent" THEN None ELSE Evidence(s).old)
        /\ next.oldKey = encryption.key /\ next.unreadable = (SigningStatus(signing) # "ready")
        /\ next.cleanup = IF decoded THEN Evidence(s) ELSE None
    BY <2>1 DEF Journals
  <2> HIDE DEF next
  <2>7. Binds(s)
    BY <2>1, <2>4, <2>5, <2>6 DEF Binds
  <2>8. QED BY <1>1, <1>4, <2>1, <2>3, <2>7 DEF s
<1>5. QED BY <1>2, <1>3, <1>4

\* CommitSigning records the Host of the store.
LEMMA Adopting ==
  ASSUME TypeOK, journal # None, CommitSigning
  PROVE  /\ journal # None /\ journal' # None /\ journal' \in Journals /\ journal'.phase = "signing-identity-replaced"
         /\ journal'.op = journal.op /\ journal'.old = journal.old /\ journal'.oldKey = journal.oldKey /\
              journal'.new = signing.meta
         /\ journal'.unreadable = journal.unreadable /\ journal'.cleanup = journal.cleanup /\
              journal'.wasRunning = journal.wasRunning
         /\ MovesTo("run")
<1>1. journal \in Journals /\
        journal' = [journal EXCEPT !.phase = "signing-identity-replaced", !.new = signing.meta] /\
        MovesTo("run")
  BY Kinds, Moving DEF CommitSigning, Commit
<1>2. journal' \in Journals
  BY <1>1, PhaseList, Kinds DEF Journals, SigningStore
<1>3. journal' # None
  BY <1>2, NoneIsNothing
<1>4. QED BY <1>1, <1>2, <1>3 DEF Journals

\* A journal begins with nothing filled in.
LEMMA Creating ==
  ASSUME TypeOK, CreateJournal
  PROVE  /\ journal' # None /\ journal' \in Journals /\ journal'.phase = "quarantine-pending" /\
              journal'.op = started + 1
         /\ journal'.old = None /\ journal'.oldKey = 0 /\ journal'.new = None
         /\ journal'.unreadable = FALSE /\ journal'.cleanup = None
<1>1. journal' \in Journals
  <2>1. started + 1 \in Ops
    BY Kinds, ResetAssumption DEF CreateJournal, Ops, ResetAssumption
  <2>2. "quarantine-pending" \in PhaseNames
    BY PhaseList
  <2>3. ProcessRunning \in BOOLEAN
    BY Kinds DEF ProcessRunning
  <2>4. QED BY <2>1, <2>2, <2>3 DEF CreateJournal, Journals, MaybeHost
<1>2. QED BY <1>1, NoneIsNothing DEF CreateJournal

\* The daemon moves on.
BootsTo(place) == boot'.at = place /\ boot'.host = boot.host /\ boot'.from = boot.from /\ boot'.key = boot.key

\* What Goto does.
LEMMA Booting == ASSUME TypeOK PROVE \A place : Goto(place) => BootsTo(place)
  BY Kinds DEF Goto, BootsTo, Boot

\* A fresh key is in no store.
LEMMA FreshKeyLemma ==
  ASSUME KeysAreLeft
  PROVE  FreshEncryptionKey \in KeyIds /\ FreshEncryptionKey \notin encryption.items /\
           FreshEncryptionKey # encryption.key
  BY DEF KeysAreLeft, FreshEncryptionKey

\* The store gets one more item.
Gains(k) == /\ encryption'.items = encryption.items \cup {k} /\ encryption'.host = encryption.host
            /\ encryption'.key = encryption.key /\ encryption'.reset = encryption.reset

\* The record names Host h and key k.
Records(h, k) == /\ encryption'.items = encryption.items /\ encryption'.host = h
                 /\ encryption'.key = k /\ encryption'.reset = encryption.reset

\* What the two writes of loadOrCreate do.
LEMMA KeyWrites ==
  ASSUME TypeOK
  PROVE  /\ \A k : CreateEncryptionItem(k) => Gains(k)
         /\ \A h, k : CreateEncryptionRecord(h, k) => Records(h, k)
  BY Kinds DEF CreateEncryptionItem, CreateEncryptionRecord, Gains, Records, EncryptionStore

\* InitialEncryption finds a record, adds an item, or writes a record.
LEMMA InitialKeys ==
  ASSUME TypeOK, InitialEncryption
  PROVE  /\ UNCHANGED <<disk, boot, signing, journal, config, keyring, outside, counters>>
         /\ \/ /\ cli.at \in {"init-enc", "init-enc-record"} /\ encryption.host # None /\ Leaves("none") /\
                    UNCHANGED encryption
            \/ /\ cli.at = "init-enc" /\ platform = "darwin" /\ encryption.host = None
               /\ cli'.at = "init-enc-record" /\ cli'.key = FreshEncryptionKey /\ cli'.error = cli.error
               /\ KeysAreLeft /\ Gains(FreshEncryptionKey) /\ UNCHANGED lock
            \/ /\ cli.at \in {"init-enc", "init-enc-record"} /\ encryption.host = None
               /\ IF platform = "darwin" THEN cli.at = "init-enc-record" /\ Records(signing.meta, cli.key)
                  ELSE (cli.at = "init-enc" => KeysAreLeft) /\ Records(signing.meta, FreshEncryptionKey)
               /\ MovesTo("init-enc") /\ UNCHANGED lock
<1>1. UNCHANGED <<disk, boot, signing, journal, config, keyring, outside, counters>>
      /\ (cli.at = "init-enc-record" \/ (cli.at = "init-enc" /\ KeysAreLeft))
  BY DEF InitialEncryption
<1>2. CASE EncryptionStatus(encryption) # "absent"
  BY <1>1, <1>2, Leaving DEF InitialEncryption, EncryptionStatus
<1>3. CASE EncryptionStatus(encryption) = "absent" /\ platform = "darwin" /\ cli.at = "init-enc"
  <2>1. encryption.host = None /\ CreateEncryptionItem(FreshEncryptionKey) /\ UNCHANGED lock
        /\ cli' = [cli EXCEPT !.at = "init-enc-record", !.key = FreshEncryptionKey]
    BY <1>3 DEF InitialEncryption, EncryptionStatus
  <2>2. cli'.at = "init-enc-record" /\ cli'.key = FreshEncryptionKey /\ cli'.error = cli.error
    BY <2>1, Kinds DEF CliRecord
  <2>3. QED BY <1>1, <1>3, <2>1, <2>2, KeyWrites
<1>4. CASE EncryptionStatus(encryption) = "absent" /\ ~(platform = "darwin" /\ cli.at = "init-enc")
  <2>1. encryption.host = None /\ UNCHANGED lock /\ Go("init-enc")
        /\ CreateEncryptionRecord(signing.meta, IF platform = "darwin" THEN cli.key ELSE FreshEncryptionKey)
    BY <1>4 DEF InitialEncryption, EncryptionStatus
  <2>2. QED BY <1>1, <1>4, <2>1, KeyWrites, Moving
<1>5. QED BY <1>2, <1>3, <1>4

\* LoadEncryption adds an item, writes a record, or reads what is there.
LEMMA DaemonKeys ==
  ASSUME TypeOK, LoadEncryption
  PROVE  /\ UNCHANGED <<disk, signing, cli, journal, config, keyring, outside, lock, counters>>
         /\ boot.at = "encrypt" /\ KeysAreLeft
         /\ \/ /\ encryption.host = None /\ platform = "darwin" /\ Gains(FreshEncryptionKey)
               /\ boot'.at = "encrypt-record" /\ boot'.key = FreshEncryptionKey /\ boot'.host = boot.host /\
                    boot'.from = boot.from
            \/ encryption.host = None /\ platform = "linux" /\ Records(boot.host, FreshEncryptionKey) /\
                 UNCHANGED boot
            \/ /\ encryption.host # None /\ UNCHANGED encryption
               /\ BootsTo(IF EncryptionStatus(encryption) = "ready" /\ encryption.host = boot.host
                          /\ keyring \in {None, boot.host} THEN "up" ELSE "refused")
<1>1. UNCHANGED <<disk, signing, cli, journal, config, keyring, outside, lock, counters>> /\
        boot.at = "encrypt" /\ KeysAreLeft
  BY DEF LoadEncryption
<1>2. CASE EncryptionStatus(encryption) = "absent" /\ platform = "darwin"
  <2>1. encryption.host = None /\ CreateEncryptionItem(FreshEncryptionKey) /\
          boot' = [boot EXCEPT !.at = "encrypt-record", !.key = FreshEncryptionKey]
    BY <1>2 DEF LoadEncryption, EncryptionStatus
  <2>2. boot'.at = "encrypt-record" /\ boot'.key = FreshEncryptionKey /\ boot'.host = boot.host /\
          boot'.from = boot.from
    BY <2>1, Kinds DEF Boot
  <2>3. QED BY <1>1, <1>2, <2>1, <2>2, KeyWrites
<1>3. CASE EncryptionStatus(encryption) = "absent" /\ platform = "linux"
  <2>1. encryption.host = None /\ CreateEncryptionRecord(boot.host, FreshEncryptionKey) /\ UNCHANGED boot
    BY <1>3 DEF LoadEncryption, EncryptionStatus
  <2>2. QED BY <1>1, <1>3, <2>1, KeyWrites
<1>4. CASE EncryptionStatus(encryption) # "absent"
  BY <1>1, <1>4, Booting DEF LoadEncryption, EncryptionStatus
<1>5. QED BY <1>2, <1>3, <1>4, Kinds

\* Where a preflight may lead.
LEMMA Verdicts ==
  \A h : Verdict(disk, h) \in {"migrate-spool", "reset-spool", "open", "floor", "migration", "key", "refused"}
  BY DEF Verdict

\* The preflight follows the verdict.
LEMMA Preflighting ==
  ASSUME TypeOK, PreflightRuntime
  PROVE  /\ boot.at = "preflight" /\ UNCHANGED disk
         /\ boot'.at = Verdict(disk, boot.host) /\ boot'.host = boot.host /\ boot'.key = boot.key
         /\ boot'.from = IF Verdict(disk, boot.host) = "key" THEN ResetFrom(disk) ELSE 0
BY Kinds DEF PreflightRuntime, Boot

\* RestoreService gives up, starts the daemon, or leaves it as it is.
LEMMA Restoring ==
  ASSUME TypeOK, RestoreService
  PROVE  /\ cli.at = "restore"
         /\ UNCHANGED <<disk, storeVars, journal, config, keyring, relay, counters>>
         /\ \/ /\ service.managed /\ service.reference # journal.new
               /\ Leaves("evidence") /\ UNCHANGED <<boot, service>>
            \/ /\ boot.at = "off" /\ boot'.at = "spawned" /\ boot'.host = config
               /\ service'.managed = service.managed /\ service'.reference = service.reference
               /\ MovesTo("confirm") /\ UNCHANGED lock
            \/ MovesTo("confirm") /\ UNCHANGED <<boot, service, lock>>
<1>1. /\ cli.at = "restore"
      /\ UNCHANGED <<disk, storeVars, journal, config, keyring, relay, counters>>
  BY DEF RestoreService
<1>2. CASE service.managed /\ service.reference # journal.new
  BY <1>1, <1>2, Leaving DEF RestoreService
<1>3. CASE ~(service.managed /\ service.reference # journal.new)
  <2>1. Go("confirm") /\ UNCHANGED lock
        /\ IF service.managed /\ journal.wasRunning /\ boot.at = "off"
           THEN service' = [service EXCEPT !.loaded = TRUE] /\ boot' = [Off EXCEPT !.at = "spawned", !.host = config]
           ELSE UNCHANGED <<service, boot>>
    BY <1>3 DEF RestoreService
  <2>2. MovesTo("confirm")
    BY <2>1, Moving
  <2>3. CASE service.managed /\ journal.wasRunning /\ boot.at = "off"
    <3>1. boot'.at = "spawned" /\ boot'.host = config
      BY <2>1, <2>3 DEF Off
    <3>2. service'.managed = service.managed /\ service'.reference = service.reference
      BY <2>1, <2>3, Kinds
    <3>3. QED BY <1>1, <2>1, <2>2, <2>3, <3>1, <3>2
  <2>4. QED BY <1>1, <2>1, <2>2, <2>3
<1>4. QED BY <1>2, <1>3

\* Only the state is written; and so on, one file each.
SetsState(x) ==
  /\ disk'.state = x
  /\ disk'.spool = disk.spool /\ disk'.floor = disk.floor /\ disk'.reset = disk.reset /\
       disk'.migration = disk.migration /\ disk'.key = disk.key /\ disk'.items = disk.items
SetsSpool(x) ==
  /\ disk'.spool = x
  /\ disk'.state = disk.state /\ disk'.floor = disk.floor /\ disk'.reset = disk.reset /\
       disk'.migration = disk.migration /\ disk'.key = disk.key /\ disk'.items = disk.items
SetsFloor(x) ==
  /\ disk'.floor = x
  /\ disk'.state = disk.state /\ disk'.spool = disk.spool /\ disk'.reset = disk.reset /\
       disk'.migration = disk.migration /\ disk'.key = disk.key /\ disk'.items = disk.items
SetsReset(x) ==
  /\ disk'.reset = x
  /\ disk'.state = disk.state /\ disk'.spool = disk.spool /\ disk'.floor = disk.floor /\
       disk'.migration = disk.migration /\ disk'.key = disk.key /\ disk'.items = disk.items
SetsMigration(x) ==
  /\ disk'.migration = x
  /\ disk'.state = disk.state /\ disk'.spool = disk.spool /\ disk'.floor = disk.floor /\
       disk'.reset = disk.reset /\ disk'.key = disk.key /\ disk'.items = disk.items
SetsKey(x) ==
  /\ disk'.key = x
  /\ disk'.state = disk.state /\ disk'.spool = disk.spool /\ disk'.floor = disk.floor /\
       disk'.reset = disk.reset /\ disk'.migration = disk.migration /\ disk'.items = disk.items

\* One item of the key store is written.
SetsItem(h, id) ==
  /\ disk'.items = [disk.items EXCEPT ![h] = id]
  /\ disk'.state = disk.state /\ disk'.spool = disk.spool /\ disk'.floor = disk.floor /\
       disk'.reset = disk.reset /\ disk'.migration = disk.migration /\ disk'.key = disk.key

\* Each write of one file leaves the others.
LEMMA DiskWrites ==
  ASSUME TypeOK
  PROVE  /\ \A x : disk' = [disk EXCEPT !.state = x] => SetsState(x)
         /\ \A x : disk' = [disk EXCEPT !.spool = x] => SetsSpool(x)
         /\ \A x : disk' = [disk EXCEPT !.floor = x] => SetsFloor(x)
         /\ \A x : disk' = [disk EXCEPT !.reset = x] => SetsReset(x)
         /\ \A x : disk' = [disk EXCEPT !.migration = x] => SetsMigration(x)
         /\ \A x : disk' = [disk EXCEPT !.key = x] => SetsKey(x)
         /\ \A h, id : disk' = [disk EXCEPT !.items[h] = id] => SetsItem(h, id)
  BY Kinds DEF Disk, SetsItem, SetsState, SetsSpool, SetsFloor, SetsReset, SetsMigration, SetsKey

\* Each removal of the clearing.
LEMMA Clearing ==
  ASSUME TypeOK, ClearArtifacts
  PROVE  /\ UNCHANGED <<boot, storeVars, journal, config, outside, lock, counters>>
         /\ \/ cli.at = "clear-keyring" /\ keyring' = None /\ MovesTo("clear-state") /\ UNCHANGED disk
            \/ cli.at = "clear-state" /\ SetsState(None) /\ MovesTo("clear-spool") /\ UNCHANGED keyring
            \/ cli.at = "clear-spool" /\ SetsSpool(None) /\ MovesTo("clear-intent") /\ UNCHANGED keyring
            \/ cli.at = "clear-intent" /\ SetsReset(None) /\ MovesTo("clear-key") /\ UNCHANGED keyring
<1>1. UNCHANGED <<boot, storeVars, journal, config, outside, lock, counters>>
  BY DEF ClearArtifacts
<1>2. /\ Go("clear-state") => MovesTo("clear-state")
      /\ Go("clear-spool") => MovesTo("clear-spool")
      /\ Go("clear-intent") => MovesTo("clear-intent")
      /\ Go("clear-key") => MovesTo("clear-key")
  BY Moving
<1>3. QED BY <1>1, <1>2, DiskWrites DEF ClearArtifacts

\* The Host whose spool key the reset may delete.
OldKeyHost == IF journal.unreadable THEN None ELSE journal.old

\* The spool key that is there is that Host's.
KeyIsOwned == disk.key # None /\ disk.key.host = OldKeyHost

\* The removal of the spool key, in its four cases.
LEMMA ClearingKey ==
  ASSUME TypeOK, ClearSpoolKey
  PROVE  /\ UNCHANGED <<boot, storeVars, journal, config, keyring, outside, counters>>
         /\ cli.at = "clear-key"
         /\ \/ disk.key = None /\ UNCHANGED <<disk, lock>> /\ MovesTo("clear-commit")
            \/ disk.key # None /\ OldKeyHost # None /\ ~KeyIsOwned /\ Leaves("evidence") /\ UNCHANGED disk
            \/ KeyIsOwned /\ SetsItem(OldKeyHost, 0) /\ UNCHANGED <<cli, lock>>
            \/ SetsKey(None) /\ UNCHANGED lock /\ MovesTo("clear-commit")
<1>1. UNCHANGED <<boot, storeVars, journal, config, keyring, outside, counters>> /\ cli.at = "clear-key"
  BY DEF ClearSpoolKey
<1>2. CASE disk.key = None
  BY <1>1, <1>2, Moving DEF ClearSpoolKey
<1>3. CASE disk.key # None /\ platform = "linux" /\ OldKeyHost # None /\ ~KeyIsOwned
  <2>1. Exit("evidence") /\ UNCHANGED disk
    BY <1>3 DEF ClearSpoolKey, KeyIsOwned, OldKeyHost
  <2>2. QED BY <1>1, <1>3, <2>1, Leaving
<1>4. CASE disk.key # None /\ platform = "darwin" /\ KeyIsOwned /\ disk.items[OldKeyHost] # 0
  <2>1. disk' = [disk EXCEPT !.items[OldKeyHost] = 0] /\ UNCHANGED <<cli, lock>>
    BY <1>4 DEF ClearSpoolKey, KeyIsOwned, OldKeyHost
  <2>2. QED BY <1>1, <1>4, <2>1, DiskWrites
<1>5. CASE /\ disk.key # None
           /\ ~(platform = "linux" /\ OldKeyHost # None /\ ~KeyIsOwned)
           /\ ~(platform = "darwin" /\ KeyIsOwned /\ disk.items[OldKeyHost] # 0)
  <2>1. disk' = [disk EXCEPT !.key = None] /\ UNCHANGED lock /\ Go("clear-commit")
    BY <1>5 DEF ClearSpoolKey, KeyIsOwned, OldKeyHost
  <2>2. QED BY <1>1, <2>1, DiskWrites, Moving
<1>6. QED BY <1>2, <1>3, <1>4, <1>5

\* A fresh Host is one nothing remembers.
LEMMA FreshHosts ==
  ASSUME Forgotten # {}
  PROVE  /\ FreshHost \in Hosts
         /\ FreshHost \notin {signing.meta, signing.creating, config, keyring, encryption.host, disk.floor, boot.host}
         /\ FreshHost \notin signing.items /\ FreshHost \notin relay.enrolled /\ FreshHost \notin relay.revoked
         /\ journal # None => FreshHost # journal.old /\ FreshHost # journal.new
         /\ disk.migration # None => FreshHost # disk.migration.host
         /\ FreshHost # None
<1>1. FreshHost \in Forgotten
  BY DEF FreshHost
<1>2. QED BY <1>1, NoneIsNothing DEF Forgotten

\* The signing store's writes, field by field.
SetsMeta(h, op, broken) ==
  /\ signing'.meta = h /\ signing'.op = op /\ signing'.broken = broken /\ signing'.items = signing.items
  /\ signing'.index = signing.index /\ signing'.creating = signing.creating /\ signing'.reset = signing.reset

\* One write changes one part of the signing store.
SetsItems(items, index) ==
  /\ signing'.meta = signing.meta /\ signing'.op = signing.op /\ signing'.broken = signing.broken /\
       signing'.items = items
  /\ signing'.index = index /\ signing'.creating = signing.creating /\ signing'.reset = signing.reset

\* Only the creation sentinel changes.
SetsCreating(h) ==
  /\ signing'.meta = signing.meta /\ signing'.op = signing.op /\ signing'.broken = signing.broken /\
       signing'.items = signing.items
  /\ signing'.index = signing.index /\ signing'.creating = h /\ signing'.reset = signing.reset

\* Only the reset sentinel or the operation changes.
SetsSentinel(op, r) ==
  /\ signing'.meta = signing.meta /\ signing'.op = op /\ signing'.broken = signing.broken /\
       signing'.items = signing.items
  /\ signing'.index = signing.index /\ signing'.creating = signing.creating /\ signing'.reset = r

\* Each write of the signing store.
LEMMA SigningWrites ==
  ASSUME TypeOK
  PROVE  /\ CreateFirstRunItem => cli.at = "init-item" /\
              SetsItems(signing.items \cup {signing.creating}, signing.index) /\ MovesTo("init-index")
         /\ CreateFirstRunIndex => cli.at = "init-index" /\ SetsItems(signing.items, TRUE) /\ MovesTo("init-meta")
         /\ CreateFirstRunMetadata => cli.at = "init-meta" /\
              SetsMeta(signing.creating, signing.op, signing.broken) /\ MovesTo("init-uncreate")
         /\ CreateFirstRunRollback => cli.at \in {"init-item", "init-index", "init-meta"} /\
              SetsItems(signing.items \ {signing.creating}, FALSE) /\ MovesTo("idle")
         /\ DeleteCreationSentinel => cli.at = "init-uncreate" /\ SetsCreating(None) /\ MovesTo("init-config")
         /\ WriteCandidateItem => cli.at = "sign-item" /\
              SetsItems(signing.items \cup {signing.reset.candidate}, signing.index) /\ MovesTo("sign-index")
         /\ WriteIndexItem => cli.at = "sign-index" /\ SetsItems(signing.items, TRUE) /\ MovesTo("sign-meta")
         /\ WriteProfileMetadata => cli.at = "sign-meta" /\
              SetsMeta(signing.reset.candidate, signing.op, signing.broken) /\ MovesTo("sign-previous")
         /\ DeletePreviousItem => cli.at = "sign-previous" /\
              SetsItems(signing.items \ ({signing.reset.previous} \ {signing.reset.candidate}), signing.index) /\ MovesTo("sign-interrupted")
         /\ DeleteInterruptedItem => cli.at = "sign-interrupted" /\
              SetsItems(signing.items \ ({signing.reset.interrupted} \ {signing.reset.candidate}), signing.index) /\ MovesTo("sign-uncreate")
         /\ ClearCreationSentinel => cli.at = "sign-uncreate" /\
              SetsCreating(IF signing.reset.interrupted # None THEN None ELSE signing.creating) /\
              MovesTo("sign-commit")
<1>1. CreateFirstRunItem => cli.at = "init-item" /\
        SetsItems(signing.items \cup {signing.creating}, signing.index) /\ MovesTo("init-index")
  BY Moving, Kinds DEF CreateFirstRunItem, SetsItems, SigningStore
<1>2. CreateFirstRunIndex => cli.at = "init-index" /\ SetsItems(signing.items, TRUE) /\ MovesTo("init-meta")
  BY Moving, Kinds DEF CreateFirstRunIndex, SetsItems, SigningStore
<1>3. CreateFirstRunMetadata => cli.at = "init-meta" /\
        SetsMeta(signing.creating, signing.op, signing.broken) /\ MovesTo("init-uncreate")
  BY Moving, Kinds DEF CreateFirstRunMetadata, SetsMeta, SigningStore
<1>4. CreateFirstRunRollback => cli.at \in {"init-item", "init-index", "init-meta"} /\
        SetsItems(signing.items \ {signing.creating}, FALSE) /\ MovesTo("idle")
  BY Moving, Kinds DEF CreateFirstRunRollback, SetsItems, SigningStore
<1>5. DeleteCreationSentinel => cli.at = "init-uncreate" /\ SetsCreating(None) /\ MovesTo("init-config")
  BY Moving, Kinds DEF DeleteCreationSentinel, SetsCreating, SigningStore
<1>6. WriteCandidateItem => cli.at = "sign-item" /\
        SetsItems(signing.items \cup {signing.reset.candidate}, signing.index) /\ MovesTo("sign-index")
  BY Moving, Kinds DEF WriteCandidateItem, SetsItems, SigningStore
<1>7. WriteIndexItem => cli.at = "sign-index" /\ SetsItems(signing.items, TRUE) /\ MovesTo("sign-meta")
  BY Moving, Kinds DEF WriteIndexItem, SetsItems, SigningStore
<1>8. WriteProfileMetadata => cli.at = "sign-meta" /\
        SetsMeta(signing.reset.candidate, signing.op, signing.broken) /\ MovesTo("sign-previous")
  BY Moving, Kinds DEF WriteProfileMetadata, SetsMeta, SigningStore
<1>9. DeletePreviousItem => cli.at = "sign-previous" /\
        SetsItems(signing.items \ ({signing.reset.previous} \ {signing.reset.candidate}), signing.index) /\
        MovesTo("sign-interrupted")
  BY Moving, Kinds DEF DeletePreviousItem, SetsItems, SigningStore
<1>10. DeleteInterruptedItem => cli.at = "sign-interrupted" /\
         SetsItems(signing.items \ ({signing.reset.interrupted} \ {signing.reset.candidate}), signing.index) /\
         MovesTo("sign-uncreate")
  BY Moving, Kinds DEF DeleteInterruptedItem, SetsItems, SigningStore
<1>11. ClearCreationSentinel => cli.at = "sign-uncreate" /\
         SetsCreating(IF signing.reset.interrupted # None THEN None ELSE signing.creating) /\
         MovesTo("sign-commit")
  BY Moving, Kinds DEF ClearCreationSentinel, SetsCreating, SigningStore
<1> QED BY <1>1, <1>2, <1>3, <1>4, <1>5, <1>6, <1>7, <1>8, <1>9, <1>10, <1>11

\* The first write of a first run.
LEMMA FirstRun ==
  ASSUME TypeOK, CreateSigningIdentity
  PROVE  /\ UNCHANGED <<disk, boot, encryption, journal, config, keyring, outside, lock, counters>>
         /\ cli.at = "init-sign" /\ Forgotten # {}
         /\ \/ platform = "linux" /\ SetsMeta(FreshHost, signing.op, signing.broken) /\ MovesTo("init-config")
            \/ platform = "darwin" /\ SetsCreating(FreshHost) /\ MovesTo("init-item")
  BY Moving, Kinds DEF CreateSigningIdentity, CreateFirstRunLinux, CreateFirstRunSentinel, SetsMeta,
      SetsCreating, SigningStore

\* A load changes nothing but a leftover sentinel.
LEMMA Loading ==
  ASSUME TypeOK, signing' = AfterLoad(signing)
  PROVE  SetsCreating(IF SigningStatus(signing) = "ready" THEN None ELSE signing.creating)
  BY Kinds DEF AfterLoad, SetsCreating, SigningStore

\* The evidence a reset sentinel copies.
NoCleanup == [old |-> None, previous |-> None, interrupted |-> None]

\* The evidence a replacement cleans up.
Cleanup == IF journal.cleanup = None THEN NoCleanup ELSE journal.cleanup

\* AdoptOrReplaceSigningIdentity adopts its own candidate, gives up, or begins a replacement.
LEMMA AdoptingOrReplacing ==
  ASSUME TypeOK, journal # None, AdoptOrReplaceSigningIdentity
  PROVE  /\ UNCHANGED <<disk, boot, encryption, journal, config, keyring, outside, counters>>
         /\ cli.at = "run" /\ journal.phase = "signing-replacement-pending"
         /\ \/ Proven /\ MovesTo(IF platform = "linux" THEN "sign-commit" ELSE "sign-item") /\
                 UNCHANGED <<signing, lock>>
            \/ ~Proven /\ (Foreign \/ CleanupChanged \/ signing.reset # None) /\ Leaves("evidence") /\
                 UNCHANGED signing
            \/ /\ ~Proven /\ ~Foreign /\ ~CleanupChanged /\ signing.reset = None
               /\ Forgotten # {} /\ platform = "linux" /\ UNCHANGED lock
               /\ SetsMeta(FreshHost, journal.op, FALSE) /\ MovesTo("sign-commit")
            \/ /\ ~Proven /\ ~Foreign /\ ~CleanupChanged /\ signing.reset = None
               /\ Forgotten # {} /\ platform = "darwin" /\ UNCHANGED lock
               /\ signing'.reset # None
               /\ signing'.reset.op = journal.op /\ signing'.reset.candidate = FreshHost
               /\ signing'.reset.previous = Cleanup.previous /\ signing'.reset.interrupted = Cleanup.interrupted
               /\ SetsSentinel(signing.op, signing'.reset) /\ MovesTo("sign-item")
<1>1. /\ UNCHANGED <<disk, boot, encryption, journal, config, keyring, outside, counters>>
      /\ cli.at = "run" /\ journal.phase = "signing-replacement-pending"
  BY DEF AdoptOrReplaceSigningIdentity, At
<1>2. CASE Proven
  BY <1>1, <1>2, Moving DEF AdoptOrReplaceSigningIdentity
<1>3. CASE ~Proven /\ (Foreign \/ CleanupChanged \/ signing.reset # None)
  BY <1>1, <1>3, Leaving DEF AdoptOrReplaceSigningIdentity
<1>4. CASE ~Proven /\ ~(Foreign \/ CleanupChanged \/ signing.reset # None)
  <2>1. /\ Forgotten # {} /\ UNCHANGED lock
        /\ ResetLinuxRecord(journal.op, FreshHost) \/ WriteResetSentinel(journal.op, FreshHost, Cleanup)
    BY <1>4 DEF AdoptOrReplaceSigningIdentity, Cleanup, NoCleanup
  <2>2. CASE ResetLinuxRecord(journal.op, FreshHost)
    <3>1. platform = "linux" /\ SetsMeta(FreshHost, journal.op, FALSE) /\ MovesTo("sign-commit")
      BY <2>2, Kinds, Moving DEF ResetLinuxRecord, SetsMeta, SigningStore
    <3>2. QED BY <1>1, <1>4, <2>1, <3>1
  <2>3. CASE WriteResetSentinel(journal.op, FreshHost, Cleanup)
    <3> DEFINE sentinel == [op |-> journal.op, candidate |-> FreshHost, previous |-> Cleanup.previous, interrupted |-> Cleanup.interrupted]
    <3>1. platform = "darwin" /\ MovesTo("sign-item") /\ signing' = [signing EXCEPT !.reset = sentinel]
      BY <2>3, Moving DEF WriteResetSentinel
    <3>2. sentinel # None
      <4>1. Cleanup.previous \in MaybeHost /\ Cleanup.interrupted \in MaybeHost
        BY Kinds DEF Cleanup, NoCleanup, Journals, Evidences, MaybeHost
      <4>2. sentinel \in SigningResets
        BY <2>1, <4>1, FreshHosts, Kinds DEF SigningResets, Journals
      <4>3. QED BY <4>2, NoneIsNothing
    <3>3. sentinel.op = journal.op /\ sentinel.candidate = FreshHost /\ sentinel.previous = Cleanup.previous /\
            sentinel.interrupted = Cleanup.interrupted
      OBVIOUS
    <3> HIDE DEF sentinel
    <3>4. signing'.reset = sentinel /\ SetsSentinel(signing.op, signing'.reset)
      BY <3>1, Kinds DEF SetsSentinel, SigningStore
    <3>5. QED BY <1>1, <1>4, <2>1, <3>1, <3>2, <3>3, <3>4
  <2>4. QED BY <2>1, <2>2, <2>3
<1>5. QED BY <1>2, <1>3, <1>4

\* FinalizeSigning verifies the store, gives up, or removes the sentinel.
LEMMA Completing ==
  ASSUME TypeOK, FinalizeSigning
  PROVE  /\ UNCHANGED <<disk, boot, encryption, journal, config, keyring, outside, counters>>
         /\ \/ /\ cli.at = "run" /\ journal.phase = "signing-identity-replaced" /\ UNCHANGED signing
               /\ \/ Replaced /\ MovesTo("sign-complete") /\ UNCHANGED lock
                  \/ ~Replaced /\ Leaves("evidence")
            \/ cli.at = "sign-complete" /\ SetsSentinel(NoOp, None) /\ MovesTo("enc") /\ UNCHANGED lock
<1>1. CASE At("signing-identity-replaced") /\
             (IF Replaced THEN Go("sign-complete") /\ UNCHANGED lock ELSE Exit("evidence"))
           /\ UNCHANGED <<disk, boot, storeVars, journal, config, keyring, outside, counters>>
  BY <1>1, Moving, Leaving DEF At, storeVars
<1>2. CASE CompleteExplicitReset(journal.op) /\ UNCHANGED <<disk, boot, encryption, journal, config, keyring,
             outside, lock, counters>>
  BY <1>2, Moving, Kinds DEF CompleteExplicitReset, SetsSentinel, SigningStore
<1>3. QED BY <1>1, <1>2 DEF FinalizeSigning

\* Before there is a candidate the store holds the bound evidence.
LEMMA BoundEvidence ==
  ASSUME TypeOK, journal # None, Phase \in BoundPhases, Candidate = None, Bound, MacSigning, platform = "darwin"
  PROVE  /\ Cleanup.previous = signing.meta /\ Cleanup.interrupted = signing.creating
         /\ journal.old = (IF signing.meta # None THEN signing.meta ELSE signing.creating)
         /\ ~journal.unreadable => signing.meta # None
         /\ journal.cleanup # None => journal.cleanup = Evidence(signing)
<1>1. Evidence(signing) # None /\ Evidence(signing).previous = signing.meta /\
        Evidence(signing).interrupted = signing.creating
  <2>1. Evidence(signing) \in Evidences
    BY Kinds DEF Evidence, Evidences, SigningStore, MaybeHost
  <2>2. QED BY <2>1, NoneIsNothing DEF Evidence
<1>2. SigningStatus(signing) = "absent" => signing.meta = None /\ signing.creating = None
  BY DEF SigningStatus
<1>3. SigningStatus(signing) = "ready" => signing.meta # None
  BY DEF SigningStatus
<1>4. NoCleanup.previous = None /\ NoCleanup.interrupted = None
  BY DEF NoCleanup
<1>5. QED BY <1>1, <1>2, <1>3, <1>4, Statuses DEF Bound, Cleanup

\* The candidate of a resumed replacement.
LEMMA Choosing ==
  ASSUME TypeOK, PlacesOK, LinuxSigning, MacSigning, AdoptOrReplaceSigningIdentity
  PROVE  /\ cli.at = "run" /\ journal # None /\ Phase = "signing-replacement-pending" /\ UNCHANGED journal
         /\ UNCHANGED <<disk, boot, encryption, config, keyring, relay, service, platform, warned>>
         /\ \/ UNCHANGED signing
            \/ /\ Forgotten # {} /\ Candidate = None /\ Candidate' = FreshHost
               /\ IF platform = "linux" THEN signing'.meta = FreshHost ELSE signing'.meta = signing.meta
<1>1. /\ cli.at = "run" /\ journal # None /\ Phase = "signing-replacement-pending" /\ UNCHANGED journal
      /\ UNCHANGED <<disk, boot, encryption, config, keyring, relay, service, platform, warned>>
  BY DEF AdoptOrReplaceSigningIdentity, At, PlacesOK, Phase, outside, counters
<1>2. journal.op # NoOp
  BY <1>1, Kinds DEF Journals, Ops, NoOp
<1>3. Phase' = "signing-replacement-pending"
  BY <1>1 DEF Phase
<1>4. CASE ~Proven /\ signing.reset = None /\ Forgotten # {} /\ platform = "linux" /\
             SetsMeta(FreshHost, journal.op, FALSE)
  <2>1. signing.op = NoOp
    BY <1>1, <1>4 DEF LinuxSigning, Proven
  <2>2. QED BY <1>1, <1>2, <1>3, <1>4, <2>1 DEF Candidate, SetsMeta, ReplacedPhases, AfterEncryption,
               AfterClearing, AfterConfig
<1>5. CASE /\ ~Proven /\ signing.reset = None /\ Forgotten # {} /\ platform = "darwin"
           /\ signing'.reset # None /\ signing'.reset.candidate = FreshHost /\
                SetsSentinel(signing.op, signing'.reset)
  BY <1>1, <1>3, <1>5 DEF Candidate, SetsSentinel, MacSigning, ReplacedPhases, AfterEncryption, AfterClearing,
      AfterConfig
<1>6. QED BY <1>1, <1>4, <1>5, AdoptingOrReplacing

\* Items are deleted.
Drops(ks) == /\ encryption'.items = encryption.items \ ks /\ encryption'.host = encryption.host
             /\ encryption'.key = encryption.key /\ encryption'.reset = encryption.reset

\* The key sentinel is written or removed.
SetsKeySentinel(r) == /\ encryption'.items = encryption.items /\ encryption'.host = encryption.host
                      /\ encryption'.key = encryption.key /\ encryption'.reset = r

\* Each write of a key replacement.
LEMMA EncryptionWrites ==
  ASSUME TypeOK
  PROVE  /\ WriteEncryptionItem => cli.at = "enc-item" /\ Gains(encryption.reset.key) /\ MovesTo("enc-meta")
         /\ WriteEncryptionMetadata => cli.at = "enc-meta" /\
              Records(encryption.reset.host, encryption.reset.key) /\ MovesTo("enc-previous")
         /\ DeletePreviousEncryptionItems =>
              cli.at = "enc-previous" /\ Drops(encryption.reset.previous \ {encryption.reset.key}) /\
                MovesTo("enc-commit")
<1>1. WriteEncryptionItem => cli.at = "enc-item" /\ Gains(encryption.reset.key) /\ MovesTo("enc-meta")
  BY Moving, Kinds DEF WriteEncryptionItem, Gains, EncryptionStore
<1>2. WriteEncryptionMetadata => cli.at = "enc-meta" /\ Records(encryption.reset.host, encryption.reset.key) /\
        MovesTo("enc-previous")
  BY Moving, Kinds DEF WriteEncryptionMetadata, Records, EncryptionStore
<1>3. DeletePreviousEncryptionItems =>
        cli.at = "enc-previous" /\ Drops(encryption.reset.previous \ {encryption.reset.key}) /\ MovesTo("enc-commit")
  BY Moving, Kinds DEF DeletePreviousEncryptionItems, Drops, EncryptionStore
<1> QED BY <1>1, <1>2, <1>3

\* The record already names the replacement.
KeyIsReplaced == EncryptionStatus(encryption) = "ready" /\ encryption.host = journal.new

\* ReplaceEncryptionIdentity resumes, finds its work done, or begins a replacement.
LEMMA ReplacingKey ==
  ASSUME TypeOK, journal # None, journal.new # None, ReplaceEncryptionIdentity
  PROVE  /\ UNCHANGED <<disk, boot, signing, journal, config, keyring, outside, lock, counters>>
         /\ cli.at = "enc" /\ KeysAreLeft
         /\ \/ encryption.reset # None /\ MovesTo("enc-item") /\ UNCHANGED encryption
            \/ encryption.reset = None /\ KeyIsReplaced /\ MovesTo("enc-commit") /\ UNCHANGED encryption
            \/ encryption.reset = None /\ ~KeyIsReplaced /\ platform = "linux" /\
                 Records(journal.new, FreshEncryptionKey) /\ MovesTo("enc-commit")
            \/ /\ encryption.reset = None /\ ~KeyIsReplaced /\ platform = "darwin" /\ MovesTo("enc-item")
               /\ SetsKeySentinel(encryption'.reset) /\ encryption'.reset # None
               /\ encryption'.reset.op = journal.op /\ encryption'.reset.host = journal.new
               /\ encryption'.reset.key = FreshEncryptionKey /\ encryption'.reset.previous = {encryption.key} \ {0}
<1>1. UNCHANGED <<disk, boot, signing, journal, config, keyring, outside, lock, counters>> /\ cli.at = "enc" /\
        KeysAreLeft
  BY DEF ReplaceEncryptionIdentity
<1>2. CASE encryption.reset # None
  BY <1>1, <1>2, Moving DEF ReplaceEncryptionIdentity
<1>3. CASE encryption.reset = None /\ KeyIsReplaced
  BY <1>1, <1>3, Moving DEF ReplaceEncryptionIdentity, KeyIsReplaced
<1>4. CASE encryption.reset = None /\ ~KeyIsReplaced
  <2>1. ReplaceEncryptionLinux(journal.new) \/ WriteEncryptionSentinel(journal.op, journal.new)
    BY <1>4 DEF ReplaceEncryptionIdentity, KeyIsReplaced
  <2>2. CASE ReplaceEncryptionLinux(journal.new)
    <3>1. platform = "linux" /\ Records(journal.new, FreshEncryptionKey) /\ MovesTo("enc-commit")
      BY <2>2, Kinds, Moving DEF ReplaceEncryptionLinux, Records, EncryptionStore
    <3>2. QED BY <1>1, <1>4, <3>1
  <2>3. CASE WriteEncryptionSentinel(journal.op, journal.new)
    <3> DEFINE sentinel == [op |-> journal.op, host |-> journal.new, key |-> FreshEncryptionKey, previous |-> {encryption.key} \ {0}]
    <3>1. platform = "darwin" /\ MovesTo("enc-item") /\ encryption' = [encryption EXCEPT !.reset = sentinel]
      BY <2>3, Moving DEF WriteEncryptionSentinel
    <3>2. sentinel # None
      <4>1. journal.op \in Ops /\ journal.new \in Hosts
        BY Kinds DEF Journals, MaybeHost
      <4>2. {encryption.key} \ {0} \subseteq KeyIds
        BY Kinds DEF EncryptionStore
      <4>3. sentinel \in EncryptionResets
        BY <1>1, <4>1, <4>2, FreshKeyLemma DEF EncryptionResets
      <4>4. QED BY <4>3, NoneIsNothing
    <3>3. /\ sentinel.op = journal.op /\ sentinel.host = journal.new
          /\ sentinel.key = FreshEncryptionKey /\ sentinel.previous = {encryption.key} \ {0}
      OBVIOUS
    <3> HIDE DEF sentinel
    <3>4. encryption'.reset = sentinel /\ SetsKeySentinel(encryption'.reset)
      BY <3>1, Kinds DEF SetsKeySentinel, EncryptionStore
    <3>5. QED BY <1>1, <1>4, <3>1, <3>2, <3>3, <3>4
  <2>4. QED BY <2>1, <2>2, <2>3
<1>5. QED BY <1>2, <1>3, <1>4

\* FinalizeEncryption verifies the store, gives up, or removes the sentinel.
LEMMA CompletingKey ==
  ASSUME TypeOK, FinalizeEncryption
  PROVE  /\ UNCHANGED <<disk, boot, signing, journal, config, keyring, outside, counters>>
         /\ \/ /\ cli.at = "run" /\ journal.phase = "encryption-identity-replaced" /\ UNCHANGED encryption
               /\ \/ Replaced /\ KeyIsReplaced /\ MovesTo("enc-complete") /\ UNCHANGED lock
                  \/ ~(Replaced /\ KeyIsReplaced) /\ Leaves("evidence")
            \/ cli.at = "enc-complete" /\ SetsKeySentinel(None) /\ MovesTo("clear-keyring") /\ UNCHANGED lock
<1>1. CASE /\ At("encryption-identity-replaced")
           /\ IF Replaced /\ EncryptionStatus(encryption) = "ready" /\ encryption.host = journal.new
              THEN Go("enc-complete") /\ UNCHANGED lock ELSE Exit("evidence")
           /\ UNCHANGED <<disk, boot, storeVars, journal, config, keyring, outside, counters>>
  BY <1>1, Moving, Leaving DEF At, storeVars, KeyIsReplaced
<1>2. CASE CompleteEncryptionReset(journal.op) /\ UNCHANGED <<disk, boot, signing, journal, config, keyring,
             outside, lock, counters>>
  BY <1>2, Moving, Kinds DEF CompleteEncryptionReset, SetsKeySentinel, EncryptionStore
<1>3. QED BY <1>1, <1>2 DEF FinalizeEncryption

\* The spool key of Host h: the one it has, or a fresh one.
NextKey(h) == IF disk.items[h] = 0 THEN FreshKey(disk) ELSE disk.items[h]

\* BeginResetKey creates a key, refuses, or goes on.
LEMMA ResetKeyWrites ==
  ASSUME TypeOK, BeginResetKey
  PROVE  /\ boot.at = "key"
         /\ \/ /\ disk.spool = None /\ disk.key = None /\ IdsAreLeft(disk) /\ UNCHANGED boot
               /\ \/ platform = "darwin" /\ disk.items[boot.host] = 0 /\ SetsItem(boot.host, FreshKey(disk))
                  \/ /\ ~(platform = "darwin" /\ disk.items[boot.host] = 0)
                     /\ SetsKey([host |-> boot.host, id |-> NextKey(boot.host)])
            \/ ~KeyReady(disk, boot.host) /\ (disk.spool # None \/ disk.key # None) /\ BootsTo("refused") /\
                 UNCHANGED disk
            \/ /\ KeyReady(disk, boot.host) /\ UNCHANGED disk
               /\ BootsTo(IF disk.spool # None /\ disk.spool.v # 1 /\ disk.spool.key # disk.key.id THEN "refused" ELSE "intent")
<1>1. boot.at = "key"
  BY DEF BeginResetKey
<1>2. CASE ~KeyReady(disk, boot.host) /\ disk.spool = None /\ CreateSpoolKey(boot.host) /\ UNCHANGED boot
  <2>1. disk.key = None /\ IdsAreLeft(disk)
    BY <1>2 DEF CreateSpoolKey
  <2>2. CASE platform = "darwin" /\ disk.items[boot.host] = 0
    <3>1. disk' = [disk EXCEPT !.items[boot.host] = FreshKey(disk)]
      BY <1>2, <2>2 DEF CreateSpoolKey
    <3>2. QED BY <1>1, <1>2, <2>1, <2>2, <3>1, DiskWrites
  <2>3. CASE ~(platform = "darwin" /\ disk.items[boot.host] = 0)
    <3>1. disk' = [disk EXCEPT !.key = [host |-> boot.host, id |-> NextKey(boot.host)]]
      BY <1>2, <2>3 DEF CreateSpoolKey, NextKey
    <3>2. QED BY <1>1, <1>2, <2>1, <2>3, <3>1, DiskWrites
  <2>4. QED BY <2>2, <2>3
<1>3. CASE ~KeyReady(disk, boot.host) /\ (disk.spool # None \/ disk.key # None) /\ Goto("refused") /\ UNCHANGED disk
  BY <1>1, <1>3, Booting
<1>4. CASE KeyReady(disk, boot.host) /\ UNCHANGED disk
           /\ (IF disk.spool # None /\ disk.spool.v # 1 /\ disk.spool.key # disk.key.id THEN Goto("refused") ELSE Goto("intent"))
  BY <1>1, <1>4, Booting
<1>5. QED BY <1>2, <1>3, <1>4 DEF BeginResetKey

\* The intent of a reset of the runtime's files.
NewReset == [host |-> boot.host, from |-> boot.from, key |-> disk.key.id,
             epoch |-> FreshId({x.epoch : x \in {disk.state, disk.spool} \ {None}}),
             state |-> disk.state, spool |-> disk.spool]

\* The intent of a migration.
NewMigration == [host |-> boot.host, state |-> disk.state, spool |-> disk.spool]

\* Each write of a preflight, and of the running daemon, changes one file.
LEMMA PreflightWrites ==
  ASSUME TypeOK
  PROVE  /\ BeginRuntimeReset => boot.at = "intent" /\ SetsReset(NewReset) /\ BootsTo("reset-spool")
         /\ ReplaceSpool => boot.at = "reset-spool" /\ SetsSpool(ResetSpool(disk.reset)) /\ BootsTo("reset-state")
         /\ ReplaceState => boot.at = "reset-state" /\ SetsState(ResetState(disk.reset)) /\ BootsTo("reset-done")
         /\ RemoveResetIntent => boot.at = "reset-done" /\ SetsReset(None) /\ BootsTo("preflight")
         /\ BeginRuntimeMigration => boot.at = "migration" /\ SetsMigration(NewMigration) /\ BootsTo("migrate-spool")
         /\ MigrateSpool => boot.at = "migrate-spool" /\ SetsSpool(MigrateSpoolV3ToV4(disk.migration.spool)) /\
              BootsTo("migrate-state")
         /\ MigrateState => boot.at = "migrate-state" /\ SetsState(MigrateStateV3ToV4(disk.migration.state)) /\
              BootsTo("migrate-floor")
         /\ MigrateFloor => boot.at = "migrate-floor" /\ SetsFloor(boot.host) /\ BootsTo("migrate-done")
         /\ RemoveMigrationIntent => boot.at = "migrate-done" /\ SetsMigration(None) /\
              BootsTo(IF boot.resumed THEN "open" ELSE "preflight")
         /\ EstablishFloor => boot.at = "floor" /\ SetsFloor(boot.host) /\ BootsTo("open")
         /\ Work => boot.at = "up" /\
              SetsState([disk.state EXCEPT !.host = boot.host, !.rev = disk.state.rev + 1]) /\ UNCHANGED boot
<1>1. BeginRuntimeReset => boot.at = "intent" /\ SetsReset(NewReset) /\ BootsTo("reset-spool")
  BY DiskWrites, Booting DEF BeginRuntimeReset, NewReset
<1>2. ReplaceSpool => boot.at = "reset-spool" /\ SetsSpool(ResetSpool(disk.reset)) /\ BootsTo("reset-state")
  BY DiskWrites, Booting DEF ReplaceSpool
<1>3. ReplaceState => boot.at = "reset-state" /\ SetsState(ResetState(disk.reset)) /\ BootsTo("reset-done")
  BY DiskWrites, Booting DEF ReplaceState
<1>4. RemoveResetIntent => boot.at = "reset-done" /\ SetsReset(None) /\ BootsTo("preflight")
  BY DiskWrites, Booting DEF RemoveResetIntent
<1>5. BeginRuntimeMigration => boot.at = "migration" /\ SetsMigration(NewMigration) /\ BootsTo("migrate-spool")
  BY DiskWrites, Booting DEF BeginRuntimeMigration, NewMigration
<1>6. MigrateSpool => boot.at = "migrate-spool" /\ SetsSpool(MigrateSpoolV3ToV4(disk.migration.spool)) /\
        BootsTo("migrate-state")
  BY DiskWrites, Booting DEF MigrateSpool
<1>7. MigrateState => boot.at = "migrate-state" /\ SetsState(MigrateStateV3ToV4(disk.migration.state)) /\
        BootsTo("migrate-floor")
  BY DiskWrites, Booting DEF MigrateState
<1>8. MigrateFloor => boot.at = "migrate-floor" /\ SetsFloor(boot.host) /\ BootsTo("migrate-done")
  BY DiskWrites, Booting DEF MigrateFloor
<1>9. RemoveMigrationIntent => boot.at = "migrate-done" /\ SetsMigration(None) /\
        BootsTo(IF boot.resumed THEN "open" ELSE "preflight")
  BY DiskWrites, Booting DEF RemoveMigrationIntent
<1>10. EstablishFloor => boot.at = "floor" /\ SetsFloor(boot.host) /\ BootsTo("open")
  BY DiskWrites, Booting DEF EstablishFloor
<1>11. Work => boot.at = "up" /\
         SetsState([disk.state EXCEPT !.host = boot.host, !.rev = disk.state.rev + 1]) /\ UNCHANGED boot
  BY DiskWrites DEF Work
<1>12. QED BY <1>1, <1>2, <1>3, <1>4, <1>5, <1>6, <1>7, <1>8, <1>9, <1>10, <1>11

\* A key replacement begins in its phase, after the signing identity was replaced.
LEMMA ReplacingKeyFrame ==
  ASSUME TypeOK, PlacesOK, Done, ReplaceEncryptionIdentity
  PROVE  /\ cli.at = "enc" /\ cli'.at \in {"enc-item", "enc-commit"}
         /\ Phase = "signing-identity-replaced" /\ Phase' = Phase /\ journal # None /\ journal.new # None /\
              signing.meta = journal.new
         /\ UNCHANGED <<disk, boot, signing, journal, config, keyring, relay, service, platform, lock, warned>>
<1>1. /\ cli.at = "enc"
      /\ UNCHANGED <<disk, boot, signing, journal, config, keyring, relay, service, platform, lock, warned>>
  BY DEF ReplaceEncryptionIdentity, outside, counters
<1>2. Phase = "signing-identity-replaced" /\ Phase' = Phase /\ journal # None /\ journal.new # None /\
        signing.meta = journal.new
  BY <1>1 DEF PlacesOK, EncPlaces, Phase, Done, ReplacedPhases
<1>3. QED BY <1>1, <1>2, ReplacingKey DEF MovesTo

\* Files of each shape are files of their kind.
LEMMA FileShapes ==
  ASSUME TypeOK
  PROVE  /\ disk.reset # None => ResetState(disk.reset) \in StateFile /\ ResetSpool(disk.reset) \in SpoolFile
         /\ disk.migration # None => /\ MigrateStateV3ToV4(disk.migration.state) \in StateFile
                                    /\ MigrateSpoolV3ToV4(disk.migration.spool) \in SpoolFile
         /\ disk.state # None /\ disk.state.rev < MaxRev /\ boot.host # None =>
              [disk.state EXCEPT !.host = boot.host, !.rev = disk.state.rev + 1] \in StateFile
<1>1. disk.reset # None => ResetState(disk.reset) \in StateFile /\ ResetSpool(disk.reset) \in SpoolFile
  <2>1. disk.reset # None => disk.reset \in ResetIntent
    BY Kinds DEF Disk
  <2>2. disk.reset # None => disk.reset.from + 1 \in Schemas /\ disk.reset.host \in Hosts /\
          disk.reset.epoch \in Ids /\ disk.reset.key \in Ids
    BY <2>1 DEF ResetIntent, Schemas
  <2>3. 0 \in 0 .. MaxRev
    BY ResetAssumption DEF ResetAssumption
  <2>4. QED BY <2>2, <2>3 DEF ResetState, ResetSpool, StateFile, SpoolFile
<1>2. disk.migration # None => /\ MigrateStateV3ToV4(disk.migration.state) \in StateFile
                              /\ MigrateSpoolV3ToV4(disk.migration.spool) \in SpoolFile
  <2>1. disk.migration # None => disk.migration.state \in StateFile /\ disk.migration.spool \in SpoolFile
    BY Kinds DEF Disk, MigrationIntent
  <2>2. QED BY <2>1 DEF MigrateStateV3ToV4, MigrateSpoolV3ToV4, StateFile, SpoolFile, Schemas, Current
<1>3. disk.state # None /\ disk.state.rev < MaxRev /\ boot.host # None =>
        [disk.state EXCEPT !.host = boot.host, !.rev = disk.state.rev + 1] \in StateFile
  <2>1. disk.state # None => disk.state \in StateFile
    BY Kinds DEF Disk
  <2>2. boot.host \in Hosts \cup {None}
    BY Kinds DEF Boot
  <2>3. disk.state # None /\ disk.state.rev < MaxRev => disk.state.rev + 1 \in 0 .. MaxRev
    <3>1. MaxRev \in Nat
      BY ResetAssumption DEF ResetAssumption
    <3>2. disk.state # None => disk.state.rev \in 0 .. MaxRev
      BY <2>1 DEF StateFile
    <3>3. QED BY <3>1, <3>2
  <2>4. QED BY <2>1, <2>2, <2>3 DEF StateFile
<1>4. QED BY <1>1, <1>2, <1>3

\* A fresh epoch exists.
LEMMA FreshEpoch ==
  ASSUME TypeOK
  PROVE  FreshId({x.epoch : x \in {disk.state, disk.spool} \ {None}}) \in Ids
<1> DEFINE used == {x.epoch : x \in {disk.state, disk.spool} \ {None}}
<1>1. used \subseteq {disk.state.epoch, disk.spool.epoch}
  OBVIOUS
<1>2. \E n \in Ids : n \notin used
  BY <1>1 DEF Ids
<1>3. QED BY <1>2 DEF FreshId

\* A fresh spool key exists.
LEMMA FreshSpoolKey ==
  ASSUME IdsAreLeft(disk)
  PROVE  FreshKey(disk) \in Ids
  BY DEF IdsAreLeft, FreshKey, FreshId

\* The intents a start writes are intents.
LEMMA NewIntents ==
  ASSUME TypeOK, boot.host # None
  PROVE  /\ disk.key # None /\ boot.from \in {1, 2} => NewReset \in ResetIntent
         /\ disk.state # None /\ disk.spool # None => NewMigration \in MigrationIntent
<1>1. boot.host \in Hosts
  BY Kinds DEF Boot
<1>2. disk.key # None => disk.key.id \in Ids
  BY Kinds DEF Disk, SpoolKeys
<1>3. disk.state \in StateFile \cup {None} /\ disk.spool \in SpoolFile \cup {None}
  BY Kinds DEF Disk
<1>4. disk.key # None /\ boot.from \in {1, 2} => NewReset \in ResetIntent
  BY <1>1, <1>2, <1>3, FreshEpoch DEF NewReset, ResetIntent
<1>5. disk.state # None /\ disk.spool # None => NewMigration \in MigrationIntent
  BY <1>1, <1>3 DEF NewMigration, MigrationIntent
<1>6. QED BY <1>4, <1>5

-----------------------------------------------------------------------------
(* What a start leaves                                                     *)

\* Each write of a start leaves files the next start takes up.
LEMMA BeginRuntimeResetKeeps ==
  ASSUME TypeOK, NEW h \in Hosts, boot.host = h, UNCHANGED platform, KeyOK(h), Clean(h) => ShapeOK(h), StartOK,
           BeginRuntimeReset
  PROVE  KeyOK(h)' /\ (Clean(h) => ShapeOK(h))' /\ StartOK'
<1>1. h # None /\ None \notin StateFile /\ None \notin SpoolFile /\ None \notin SpoolKeys
  BY NoneIsNothing
<1>2. disk \in Disk
  BY Kinds
<1>n. /\ disk.reset # None => ResetState(disk.reset) # None /\ ResetSpool(disk.reset) # None
      /\ disk.migration # None => MigrateStateV3ToV4(disk.migration.state) # None /\
           MigrateSpoolV3ToV4(disk.migration.spool) # None
      /\ disk.state # None /\ disk.state.rev < MaxRev =>
           [disk.state EXCEPT !.host = boot.host, !.rev = disk.state.rev + 1] # None
      /\ disk.key # None /\ boot.from \in {1, 2} => NewReset # None
      /\ disk.state # None /\ disk.spool # None => NewMigration # None
  BY <1>1, FileShapes, NewIntents, NoneIsNothing
<1>3. KeyOK(h)'
  BY <1>1, <1>2, <1>n, PreflightWrites DEF StartOK, BootsTo, KeyOK, KeyReady, Clean, MigrationOK, ResetOK,
      OldFiles, FilesOK, ShapeOK, StateOf, IsSpoolRecordForSchema, PairOf, IsRecognizedLegacyRuntime,
      IsRecognizedPriorSpoolRecord, ResetResumable, ResetState, ResetSpool, MigrateStateV3ToV4,
      MigrateSpoolV3ToV4, Current, SetsReset, NewReset, Disk, StateFile, SpoolFile, ResetIntent,
      MigrationIntent, SpoolKeys
<1>4. (Clean(h) => MigrationOK(h))'
  BY <1>1, <1>2, <1>n, PreflightWrites DEF StartOK, BootsTo, KeyOK, KeyReady, Clean, MigrationOK, ResetOK,
      OldFiles, FilesOK, ShapeOK, StateOf, IsSpoolRecordForSchema, PairOf, IsRecognizedLegacyRuntime,
      IsRecognizedPriorSpoolRecord, ResetResumable, ResetState, ResetSpool, MigrateStateV3ToV4,
      MigrateSpoolV3ToV4, Current, SetsReset, NewReset, Disk, StateFile, SpoolFile, ResetIntent,
      MigrationIntent, SpoolKeys
<1>5. (Clean(h) => ResetOK(h))'
  BY <1>1, <1>2, <1>n, PreflightWrites DEF StartOK, BootsTo, KeyOK, KeyReady, Clean, MigrationOK, ResetOK,
      OldFiles, FilesOK, ShapeOK, StateOf, IsSpoolRecordForSchema, PairOf, IsRecognizedLegacyRuntime,
      IsRecognizedPriorSpoolRecord, ResetResumable, ResetState, ResetSpool, MigrateStateV3ToV4,
      MigrateSpoolV3ToV4, Current, SetsReset, NewReset, Disk, StateFile, SpoolFile, ResetIntent,
      MigrationIntent, SpoolKeys
<1>6. (Clean(h) => FilesOK(h))'
  BY <1>1, <1>2, <1>n, PreflightWrites DEF StartOK, BootsTo, KeyOK, KeyReady, Clean, MigrationOK, ResetOK,
      OldFiles, FilesOK, ShapeOK, StateOf, IsSpoolRecordForSchema, PairOf, IsRecognizedLegacyRuntime,
      IsRecognizedPriorSpoolRecord, ResetResumable, ResetState, ResetSpool, MigrateStateV3ToV4,
      MigrateSpoolV3ToV4, Current, SetsReset, NewReset, Disk, StateFile, SpoolFile, ResetIntent,
      MigrationIntent, SpoolKeys
<1>7. StartOK'
  BY <1>1, <1>2, <1>n, PreflightWrites DEF StartOK, BootsTo, KeyOK, KeyReady, Clean, MigrationOK, ResetOK,
      OldFiles, FilesOK, ShapeOK, StateOf, IsSpoolRecordForSchema, PairOf, IsRecognizedLegacyRuntime,
      IsRecognizedPriorSpoolRecord, ResetResumable, ResetState, ResetSpool, MigrateStateV3ToV4,
      MigrateSpoolV3ToV4, Current, SetsReset, NewReset, Disk, StateFile, SpoolFile, ResetIntent,
      MigrationIntent, SpoolKeys
<1>8. QED BY <1>3, <1>4, <1>5, <1>6, <1>7 DEF ShapeOK

\* The same of ReplaceSpool.
LEMMA ReplaceSpoolKeeps ==
  ASSUME TypeOK, NEW h \in Hosts, boot.host = h, UNCHANGED platform, KeyOK(h), Clean(h) => ShapeOK(h), StartOK,
           ReplaceSpool
  PROVE  KeyOK(h)' /\ (Clean(h) => ShapeOK(h))' /\ StartOK'
<1>1. h # None /\ None \notin StateFile /\ None \notin SpoolFile /\ None \notin SpoolKeys
  BY NoneIsNothing
<1>2. disk \in Disk
  BY Kinds
<1>n. /\ disk.reset # None => ResetState(disk.reset) # None /\ ResetSpool(disk.reset) # None
      /\ disk.migration # None => MigrateStateV3ToV4(disk.migration.state) # None /\
           MigrateSpoolV3ToV4(disk.migration.spool) # None
      /\ disk.state # None /\ disk.state.rev < MaxRev =>
           [disk.state EXCEPT !.host = boot.host, !.rev = disk.state.rev + 1] # None
      /\ disk.key # None /\ boot.from \in {1, 2} => NewReset # None
      /\ disk.state # None /\ disk.spool # None => NewMigration # None
  BY <1>1, FileShapes, NewIntents, NoneIsNothing
<1>3. KeyOK(h)'
  BY <1>1, <1>2, <1>n, PreflightWrites DEF StartOK, BootsTo, KeyOK, KeyReady, Clean, MigrationOK, ResetOK,
      OldFiles, FilesOK, ShapeOK, StateOf, IsSpoolRecordForSchema, PairOf, IsRecognizedLegacyRuntime,
      IsRecognizedPriorSpoolRecord, ResetResumable, ResetState, ResetSpool, MigrateStateV3ToV4,
      MigrateSpoolV3ToV4, Current, SetsSpool, Disk, StateFile, SpoolFile, ResetIntent, MigrationIntent,
      SpoolKeys
<1>4. (Clean(h) => MigrationOK(h))'
  BY <1>1, <1>2, <1>n, PreflightWrites DEF StartOK, BootsTo, KeyOK, KeyReady, Clean, MigrationOK, ResetOK,
      OldFiles, FilesOK, ShapeOK, StateOf, IsSpoolRecordForSchema, PairOf, IsRecognizedLegacyRuntime,
      IsRecognizedPriorSpoolRecord, ResetResumable, ResetState, ResetSpool, MigrateStateV3ToV4,
      MigrateSpoolV3ToV4, Current, SetsSpool, Disk, StateFile, SpoolFile, ResetIntent, MigrationIntent,
      SpoolKeys
<1>5. (Clean(h) => ResetOK(h))'
  BY <1>1, <1>2, <1>n, PreflightWrites DEF StartOK, BootsTo, KeyOK, KeyReady, Clean, MigrationOK, ResetOK,
      OldFiles, FilesOK, ShapeOK, StateOf, IsSpoolRecordForSchema, PairOf, IsRecognizedLegacyRuntime,
      IsRecognizedPriorSpoolRecord, ResetResumable, ResetState, ResetSpool, MigrateStateV3ToV4,
      MigrateSpoolV3ToV4, Current, SetsSpool, Disk, StateFile, SpoolFile, ResetIntent, MigrationIntent,
      SpoolKeys
<1>6. (Clean(h) => FilesOK(h))'
  BY <1>1, <1>2, <1>n, PreflightWrites DEF StartOK, BootsTo, KeyOK, KeyReady, Clean, MigrationOK, ResetOK,
      OldFiles, FilesOK, ShapeOK, StateOf, IsSpoolRecordForSchema, PairOf, IsRecognizedLegacyRuntime,
      IsRecognizedPriorSpoolRecord, ResetResumable, ResetState, ResetSpool, MigrateStateV3ToV4,
      MigrateSpoolV3ToV4, Current, SetsSpool, Disk, StateFile, SpoolFile, ResetIntent, MigrationIntent,
      SpoolKeys
<1>7. StartOK'
  BY <1>1, <1>2, <1>n, PreflightWrites DEF StartOK, BootsTo, KeyOK, KeyReady, Clean, MigrationOK, ResetOK,
      OldFiles, FilesOK, ShapeOK, StateOf, IsSpoolRecordForSchema, PairOf, IsRecognizedLegacyRuntime,
      IsRecognizedPriorSpoolRecord, ResetResumable, ResetState, ResetSpool, MigrateStateV3ToV4,
      MigrateSpoolV3ToV4, Current, SetsSpool, Disk, StateFile, SpoolFile, ResetIntent, MigrationIntent,
      SpoolKeys
<1>8. QED BY <1>3, <1>4, <1>5, <1>6, <1>7 DEF ShapeOK

\* The same of ReplaceState.
LEMMA ReplaceStateKeeps ==
  ASSUME TypeOK, NEW h \in Hosts, boot.host = h, UNCHANGED platform, KeyOK(h), Clean(h) => ShapeOK(h), StartOK,
           ReplaceState
  PROVE  KeyOK(h)' /\ (Clean(h) => ShapeOK(h))' /\ StartOK'
<1>1. h # None /\ None \notin StateFile /\ None \notin SpoolFile /\ None \notin SpoolKeys
  BY NoneIsNothing
<1>2. disk \in Disk
  BY Kinds
<1>n. /\ disk.reset # None => ResetState(disk.reset) # None /\ ResetSpool(disk.reset) # None
      /\ disk.migration # None => MigrateStateV3ToV4(disk.migration.state) # None /\
           MigrateSpoolV3ToV4(disk.migration.spool) # None
      /\ disk.state # None /\ disk.state.rev < MaxRev =>
           [disk.state EXCEPT !.host = boot.host, !.rev = disk.state.rev + 1] # None
      /\ disk.key # None /\ boot.from \in {1, 2} => NewReset # None
      /\ disk.state # None /\ disk.spool # None => NewMigration # None
  BY <1>1, FileShapes, NewIntents, NoneIsNothing
<1>3. KeyOK(h)'
  BY <1>1, <1>2, <1>n, PreflightWrites DEF StartOK, BootsTo, KeyOK, KeyReady, Clean, MigrationOK, ResetOK,
      OldFiles, FilesOK, ShapeOK, StateOf, IsSpoolRecordForSchema, PairOf, IsRecognizedLegacyRuntime,
      IsRecognizedPriorSpoolRecord, ResetResumable, ResetState, ResetSpool, MigrateStateV3ToV4,
      MigrateSpoolV3ToV4, Current, SetsState, Disk, StateFile, SpoolFile, ResetIntent, MigrationIntent,
      SpoolKeys
<1>4. (Clean(h) => MigrationOK(h))'
  BY <1>1, <1>2, <1>n, PreflightWrites DEF StartOK, BootsTo, KeyOK, KeyReady, Clean, MigrationOK, ResetOK,
      OldFiles, FilesOK, ShapeOK, StateOf, IsSpoolRecordForSchema, PairOf, IsRecognizedLegacyRuntime,
      IsRecognizedPriorSpoolRecord, ResetResumable, ResetState, ResetSpool, MigrateStateV3ToV4,
      MigrateSpoolV3ToV4, Current, SetsState, Disk, StateFile, SpoolFile, ResetIntent, MigrationIntent,
      SpoolKeys
<1>5. (Clean(h) => ResetOK(h))'
  BY <1>1, <1>2, <1>n, PreflightWrites DEF StartOK, BootsTo, KeyOK, KeyReady, Clean, MigrationOK, ResetOK,
      OldFiles, FilesOK, ShapeOK, StateOf, IsSpoolRecordForSchema, PairOf, IsRecognizedLegacyRuntime,
      IsRecognizedPriorSpoolRecord, ResetResumable, ResetState, ResetSpool, MigrateStateV3ToV4,
      MigrateSpoolV3ToV4, Current, SetsState, Disk, StateFile, SpoolFile, ResetIntent, MigrationIntent,
      SpoolKeys
<1>6. (Clean(h) => FilesOK(h))'
  BY <1>1, <1>2, <1>n, PreflightWrites DEF StartOK, BootsTo, KeyOK, KeyReady, Clean, MigrationOK, ResetOK,
      OldFiles, FilesOK, ShapeOK, StateOf, IsSpoolRecordForSchema, PairOf, IsRecognizedLegacyRuntime,
      IsRecognizedPriorSpoolRecord, ResetResumable, ResetState, ResetSpool, MigrateStateV3ToV4,
      MigrateSpoolV3ToV4, Current, SetsState, Disk, StateFile, SpoolFile, ResetIntent, MigrationIntent,
      SpoolKeys
<1>7. StartOK'
  BY <1>1, <1>2, <1>n, PreflightWrites DEF StartOK, BootsTo, KeyOK, KeyReady, Clean, MigrationOK, ResetOK,
      OldFiles, FilesOK, ShapeOK, StateOf, IsSpoolRecordForSchema, PairOf, IsRecognizedLegacyRuntime,
      IsRecognizedPriorSpoolRecord, ResetResumable, ResetState, ResetSpool, MigrateStateV3ToV4,
      MigrateSpoolV3ToV4, Current, SetsState, Disk, StateFile, SpoolFile, ResetIntent, MigrationIntent,
      SpoolKeys
<1>8. QED BY <1>3, <1>4, <1>5, <1>6, <1>7 DEF ShapeOK

\* The same of RemoveResetIntent.
LEMMA RemoveResetIntentKeeps ==
  ASSUME TypeOK, NEW h \in Hosts, boot.host = h, UNCHANGED platform, KeyOK(h), Clean(h) => ShapeOK(h), StartOK,
           RemoveResetIntent
  PROVE  KeyOK(h)' /\ (Clean(h) => ShapeOK(h))' /\ StartOK'
<1>1. h # None /\ None \notin StateFile /\ None \notin SpoolFile /\ None \notin SpoolKeys
  BY NoneIsNothing
<1>2. disk \in Disk
  BY Kinds
<1>n. /\ disk.reset # None => ResetState(disk.reset) # None /\ ResetSpool(disk.reset) # None
      /\ disk.migration # None => MigrateStateV3ToV4(disk.migration.state) # None /\
           MigrateSpoolV3ToV4(disk.migration.spool) # None
      /\ disk.state # None /\ disk.state.rev < MaxRev =>
           [disk.state EXCEPT !.host = boot.host, !.rev = disk.state.rev + 1] # None
      /\ disk.key # None /\ boot.from \in {1, 2} => NewReset # None
      /\ disk.state # None /\ disk.spool # None => NewMigration # None
  BY <1>1, FileShapes, NewIntents, NoneIsNothing
<1>3. KeyOK(h)'
  BY <1>1, <1>2, <1>n, PreflightWrites DEF StartOK, BootsTo, KeyOK, KeyReady, Clean, MigrationOK, ResetOK,
      OldFiles, FilesOK, ShapeOK, StateOf, IsSpoolRecordForSchema, PairOf, IsRecognizedLegacyRuntime,
      IsRecognizedPriorSpoolRecord, ResetResumable, ResetState, ResetSpool, MigrateStateV3ToV4,
      MigrateSpoolV3ToV4, Current, SetsReset, Disk, StateFile, SpoolFile, ResetIntent, MigrationIntent,
      SpoolKeys
<1>4. (Clean(h) => MigrationOK(h))'
  BY <1>1, <1>2, <1>n, PreflightWrites DEF StartOK, BootsTo, KeyOK, KeyReady, Clean, MigrationOK, ResetOK,
      OldFiles, FilesOK, ShapeOK, StateOf, IsSpoolRecordForSchema, PairOf, IsRecognizedLegacyRuntime,
      IsRecognizedPriorSpoolRecord, ResetResumable, ResetState, ResetSpool, MigrateStateV3ToV4,
      MigrateSpoolV3ToV4, Current, SetsReset, Disk, StateFile, SpoolFile, ResetIntent, MigrationIntent,
      SpoolKeys
<1>5. (Clean(h) => ResetOK(h))'
  BY <1>1, <1>2, <1>n, PreflightWrites DEF StartOK, BootsTo, KeyOK, KeyReady, Clean, MigrationOK, ResetOK,
      OldFiles, FilesOK, ShapeOK, StateOf, IsSpoolRecordForSchema, PairOf, IsRecognizedLegacyRuntime,
      IsRecognizedPriorSpoolRecord, ResetResumable, ResetState, ResetSpool, MigrateStateV3ToV4,
      MigrateSpoolV3ToV4, Current, SetsReset, Disk, StateFile, SpoolFile, ResetIntent, MigrationIntent,
      SpoolKeys
<1>6. (Clean(h) => FilesOK(h))'
  BY <1>1, <1>2, <1>n, PreflightWrites DEF StartOK, BootsTo, KeyOK, KeyReady, Clean, MigrationOK, ResetOK,
      OldFiles, FilesOK, ShapeOK, StateOf, IsSpoolRecordForSchema, PairOf, IsRecognizedLegacyRuntime,
      IsRecognizedPriorSpoolRecord, ResetResumable, ResetState, ResetSpool, MigrateStateV3ToV4,
      MigrateSpoolV3ToV4, Current, SetsReset, Disk, StateFile, SpoolFile, ResetIntent, MigrationIntent,
      SpoolKeys
<1>7. StartOK'
  BY <1>1, <1>2, <1>n, PreflightWrites DEF StartOK, BootsTo, KeyOK, KeyReady, Clean, MigrationOK, ResetOK,
      OldFiles, FilesOK, ShapeOK, StateOf, IsSpoolRecordForSchema, PairOf, IsRecognizedLegacyRuntime,
      IsRecognizedPriorSpoolRecord, ResetResumable, ResetState, ResetSpool, MigrateStateV3ToV4,
      MigrateSpoolV3ToV4, Current, SetsReset, Disk, StateFile, SpoolFile, ResetIntent, MigrationIntent,
      SpoolKeys
<1>8. QED BY <1>3, <1>4, <1>5, <1>6, <1>7 DEF ShapeOK

\* The same of BeginRuntimeMigration.
LEMMA BeginRuntimeMigrationKeeps ==
  ASSUME TypeOK, NEW h \in Hosts, boot.host = h, UNCHANGED platform, KeyOK(h), Clean(h) => ShapeOK(h), StartOK,
           BeginRuntimeMigration
  PROVE  KeyOK(h)' /\ (Clean(h) => ShapeOK(h))' /\ StartOK'
<1>1. h # None /\ None \notin StateFile /\ None \notin SpoolFile /\ None \notin SpoolKeys
  BY NoneIsNothing
<1>2. disk \in Disk
  BY Kinds
<1>n. /\ disk.reset # None => ResetState(disk.reset) # None /\ ResetSpool(disk.reset) # None
      /\ disk.migration # None => MigrateStateV3ToV4(disk.migration.state) # None /\
           MigrateSpoolV3ToV4(disk.migration.spool) # None
      /\ disk.state # None /\ disk.state.rev < MaxRev =>
           [disk.state EXCEPT !.host = boot.host, !.rev = disk.state.rev + 1] # None
      /\ disk.key # None /\ boot.from \in {1, 2} => NewReset # None
      /\ disk.state # None /\ disk.spool # None => NewMigration # None
  BY <1>1, FileShapes, NewIntents, NoneIsNothing
<1>3. KeyOK(h)'
  BY <1>1, <1>2, <1>n, PreflightWrites DEF StartOK, BootsTo, KeyOK, KeyReady, Clean, MigrationOK, ResetOK,
      OldFiles, FilesOK, ShapeOK, StateOf, IsSpoolRecordForSchema, PairOf, IsRecognizedLegacyRuntime,
      IsRecognizedPriorSpoolRecord, ResetResumable, ResetState, ResetSpool, MigrateStateV3ToV4,
      MigrateSpoolV3ToV4, Current, SetsMigration, NewMigration, Disk, StateFile, SpoolFile, ResetIntent,
      MigrationIntent, SpoolKeys
<1>4. (Clean(h) => MigrationOK(h))'
  BY <1>1, <1>2, <1>n, PreflightWrites DEF StartOK, BootsTo, KeyOK, KeyReady, Clean, MigrationOK, ResetOK,
      OldFiles, FilesOK, ShapeOK, StateOf, IsSpoolRecordForSchema, PairOf, IsRecognizedLegacyRuntime,
      IsRecognizedPriorSpoolRecord, ResetResumable, ResetState, ResetSpool, MigrateStateV3ToV4,
      MigrateSpoolV3ToV4, Current, SetsMigration, NewMigration, Disk, StateFile, SpoolFile, ResetIntent,
      MigrationIntent, SpoolKeys
<1>5. (Clean(h) => ResetOK(h))'
  BY <1>1, <1>2, <1>n, PreflightWrites DEF StartOK, BootsTo, KeyOK, KeyReady, Clean, MigrationOK, ResetOK,
      OldFiles, FilesOK, ShapeOK, StateOf, IsSpoolRecordForSchema, PairOf, IsRecognizedLegacyRuntime,
      IsRecognizedPriorSpoolRecord, ResetResumable, ResetState, ResetSpool, MigrateStateV3ToV4,
      MigrateSpoolV3ToV4, Current, SetsMigration, NewMigration, Disk, StateFile, SpoolFile, ResetIntent,
      MigrationIntent, SpoolKeys
<1>6. (Clean(h) => FilesOK(h))'
  BY <1>1, <1>2, <1>n, PreflightWrites DEF StartOK, BootsTo, KeyOK, KeyReady, Clean, MigrationOK, ResetOK,
      OldFiles, FilesOK, ShapeOK, StateOf, IsSpoolRecordForSchema, PairOf, IsRecognizedLegacyRuntime,
      IsRecognizedPriorSpoolRecord, ResetResumable, ResetState, ResetSpool, MigrateStateV3ToV4,
      MigrateSpoolV3ToV4, Current, SetsMigration, NewMigration, Disk, StateFile, SpoolFile, ResetIntent,
      MigrationIntent, SpoolKeys
<1>7. StartOK'
  BY <1>1, <1>2, <1>n, PreflightWrites DEF StartOK, BootsTo, KeyOK, KeyReady, Clean, MigrationOK, ResetOK,
      OldFiles, FilesOK, ShapeOK, StateOf, IsSpoolRecordForSchema, PairOf, IsRecognizedLegacyRuntime,
      IsRecognizedPriorSpoolRecord, ResetResumable, ResetState, ResetSpool, MigrateStateV3ToV4,
      MigrateSpoolV3ToV4, Current, SetsMigration, NewMigration, Disk, StateFile, SpoolFile, ResetIntent,
      MigrationIntent, SpoolKeys
<1>8. QED BY <1>3, <1>4, <1>5, <1>6, <1>7 DEF ShapeOK

\* The same of MigrateSpool.
LEMMA MigrateSpoolKeeps ==
  ASSUME TypeOK, NEW h \in Hosts, boot.host = h, UNCHANGED platform, KeyOK(h), Clean(h) => ShapeOK(h), StartOK,
           MigrateSpool
  PROVE  KeyOK(h)' /\ (Clean(h) => ShapeOK(h))' /\ StartOK'
<1>1. h # None /\ None \notin StateFile /\ None \notin SpoolFile /\ None \notin SpoolKeys
  BY NoneIsNothing
<1>2. disk \in Disk
  BY Kinds
<1>n. /\ disk.reset # None => ResetState(disk.reset) # None /\ ResetSpool(disk.reset) # None
      /\ disk.migration # None => MigrateStateV3ToV4(disk.migration.state) # None /\
           MigrateSpoolV3ToV4(disk.migration.spool) # None
      /\ disk.state # None /\ disk.state.rev < MaxRev =>
           [disk.state EXCEPT !.host = boot.host, !.rev = disk.state.rev + 1] # None
      /\ disk.key # None /\ boot.from \in {1, 2} => NewReset # None
      /\ disk.state # None /\ disk.spool # None => NewMigration # None
  BY <1>1, FileShapes, NewIntents, NoneIsNothing
<1>3. KeyOK(h)'
  BY <1>1, <1>2, <1>n, PreflightWrites DEF StartOK, BootsTo, KeyOK, KeyReady, Clean, MigrationOK, ResetOK,
      OldFiles, FilesOK, ShapeOK, StateOf, IsSpoolRecordForSchema, PairOf, IsRecognizedLegacyRuntime,
      IsRecognizedPriorSpoolRecord, ResetResumable, ResetState, ResetSpool, MigrateStateV3ToV4,
      MigrateSpoolV3ToV4, Current, SetsSpool, Disk, StateFile, SpoolFile, ResetIntent, MigrationIntent,
      SpoolKeys
<1>4. (Clean(h) => MigrationOK(h))'
  BY <1>1, <1>2, <1>n, PreflightWrites DEF StartOK, BootsTo, KeyOK, KeyReady, Clean, MigrationOK, ResetOK,
      OldFiles, FilesOK, ShapeOK, StateOf, IsSpoolRecordForSchema, PairOf, IsRecognizedLegacyRuntime,
      IsRecognizedPriorSpoolRecord, ResetResumable, ResetState, ResetSpool, MigrateStateV3ToV4,
      MigrateSpoolV3ToV4, Current, SetsSpool, Disk, StateFile, SpoolFile, ResetIntent, MigrationIntent,
      SpoolKeys
<1>5. (Clean(h) => ResetOK(h))'
  BY <1>1, <1>2, <1>n, PreflightWrites DEF StartOK, BootsTo, KeyOK, KeyReady, Clean, MigrationOK, ResetOK,
      OldFiles, FilesOK, ShapeOK, StateOf, IsSpoolRecordForSchema, PairOf, IsRecognizedLegacyRuntime,
      IsRecognizedPriorSpoolRecord, ResetResumable, ResetState, ResetSpool, MigrateStateV3ToV4,
      MigrateSpoolV3ToV4, Current, SetsSpool, Disk, StateFile, SpoolFile, ResetIntent, MigrationIntent,
      SpoolKeys
<1>6. (Clean(h) => FilesOK(h))'
  BY <1>1, <1>2, <1>n, PreflightWrites DEF StartOK, BootsTo, KeyOK, KeyReady, Clean, MigrationOK, ResetOK,
      OldFiles, FilesOK, ShapeOK, StateOf, IsSpoolRecordForSchema, PairOf, IsRecognizedLegacyRuntime,
      IsRecognizedPriorSpoolRecord, ResetResumable, ResetState, ResetSpool, MigrateStateV3ToV4,
      MigrateSpoolV3ToV4, Current, SetsSpool, Disk, StateFile, SpoolFile, ResetIntent, MigrationIntent,
      SpoolKeys
<1>7. StartOK'
  BY <1>1, <1>2, <1>n, PreflightWrites DEF StartOK, BootsTo, KeyOK, KeyReady, Clean, MigrationOK, ResetOK,
      OldFiles, FilesOK, ShapeOK, StateOf, IsSpoolRecordForSchema, PairOf, IsRecognizedLegacyRuntime,
      IsRecognizedPriorSpoolRecord, ResetResumable, ResetState, ResetSpool, MigrateStateV3ToV4,
      MigrateSpoolV3ToV4, Current, SetsSpool, Disk, StateFile, SpoolFile, ResetIntent, MigrationIntent,
      SpoolKeys
<1>8. QED BY <1>3, <1>4, <1>5, <1>6, <1>7 DEF ShapeOK

\* The same of MigrateState.
LEMMA MigrateStateKeeps ==
  ASSUME TypeOK, NEW h \in Hosts, boot.host = h, UNCHANGED platform, KeyOK(h), Clean(h) => ShapeOK(h), StartOK,
           MigrateState
  PROVE  KeyOK(h)' /\ (Clean(h) => ShapeOK(h))' /\ StartOK'
<1>1. h # None /\ None \notin StateFile /\ None \notin SpoolFile /\ None \notin SpoolKeys
  BY NoneIsNothing
<1>2. disk \in Disk
  BY Kinds
<1>n. /\ disk.reset # None => ResetState(disk.reset) # None /\ ResetSpool(disk.reset) # None
      /\ disk.migration # None => MigrateStateV3ToV4(disk.migration.state) # None /\
           MigrateSpoolV3ToV4(disk.migration.spool) # None
      /\ disk.state # None /\ disk.state.rev < MaxRev =>
           [disk.state EXCEPT !.host = boot.host, !.rev = disk.state.rev + 1] # None
      /\ disk.key # None /\ boot.from \in {1, 2} => NewReset # None
      /\ disk.state # None /\ disk.spool # None => NewMigration # None
  BY <1>1, FileShapes, NewIntents, NoneIsNothing
<1>3. KeyOK(h)'
  BY <1>1, <1>2, <1>n, PreflightWrites DEF StartOK, BootsTo, KeyOK, KeyReady, Clean, MigrationOK, ResetOK,
      OldFiles, FilesOK, ShapeOK, StateOf, IsSpoolRecordForSchema, PairOf, IsRecognizedLegacyRuntime,
      IsRecognizedPriorSpoolRecord, ResetResumable, ResetState, ResetSpool, MigrateStateV3ToV4,
      MigrateSpoolV3ToV4, Current, SetsState, Disk, StateFile, SpoolFile, ResetIntent, MigrationIntent,
      SpoolKeys
<1>4. (Clean(h) => MigrationOK(h))'
  BY <1>1, <1>2, <1>n, PreflightWrites DEF StartOK, BootsTo, KeyOK, KeyReady, Clean, MigrationOK, ResetOK,
      OldFiles, FilesOK, ShapeOK, StateOf, IsSpoolRecordForSchema, PairOf, IsRecognizedLegacyRuntime,
      IsRecognizedPriorSpoolRecord, ResetResumable, ResetState, ResetSpool, MigrateStateV3ToV4,
      MigrateSpoolV3ToV4, Current, SetsState, Disk, StateFile, SpoolFile, ResetIntent, MigrationIntent,
      SpoolKeys
<1>5. (Clean(h) => ResetOK(h))'
  BY <1>1, <1>2, <1>n, PreflightWrites DEF StartOK, BootsTo, KeyOK, KeyReady, Clean, MigrationOK, ResetOK,
      OldFiles, FilesOK, ShapeOK, StateOf, IsSpoolRecordForSchema, PairOf, IsRecognizedLegacyRuntime,
      IsRecognizedPriorSpoolRecord, ResetResumable, ResetState, ResetSpool, MigrateStateV3ToV4,
      MigrateSpoolV3ToV4, Current, SetsState, Disk, StateFile, SpoolFile, ResetIntent, MigrationIntent,
      SpoolKeys
<1>6. (Clean(h) => FilesOK(h))'
  BY <1>1, <1>2, <1>n, PreflightWrites DEF StartOK, BootsTo, KeyOK, KeyReady, Clean, MigrationOK, ResetOK,
      OldFiles, FilesOK, ShapeOK, StateOf, IsSpoolRecordForSchema, PairOf, IsRecognizedLegacyRuntime,
      IsRecognizedPriorSpoolRecord, ResetResumable, ResetState, ResetSpool, MigrateStateV3ToV4,
      MigrateSpoolV3ToV4, Current, SetsState, Disk, StateFile, SpoolFile, ResetIntent, MigrationIntent,
      SpoolKeys
<1>7. StartOK'
  BY <1>1, <1>2, <1>n, PreflightWrites DEF StartOK, BootsTo, KeyOK, KeyReady, Clean, MigrationOK, ResetOK,
      OldFiles, FilesOK, ShapeOK, StateOf, IsSpoolRecordForSchema, PairOf, IsRecognizedLegacyRuntime,
      IsRecognizedPriorSpoolRecord, ResetResumable, ResetState, ResetSpool, MigrateStateV3ToV4,
      MigrateSpoolV3ToV4, Current, SetsState, Disk, StateFile, SpoolFile, ResetIntent, MigrationIntent,
      SpoolKeys
<1>8. QED BY <1>3, <1>4, <1>5, <1>6, <1>7 DEF ShapeOK

\* The same of MigrateFloor.
LEMMA MigrateFloorKeeps ==
  ASSUME TypeOK, NEW h \in Hosts, boot.host = h, UNCHANGED platform, KeyOK(h), Clean(h) => ShapeOK(h), StartOK,
           MigrateFloor
  PROVE  KeyOK(h)' /\ (Clean(h) => ShapeOK(h))' /\ StartOK'
<1>1. h # None /\ None \notin StateFile /\ None \notin SpoolFile /\ None \notin SpoolKeys
  BY NoneIsNothing
<1>2. disk \in Disk
  BY Kinds
<1>n. /\ disk.reset # None => ResetState(disk.reset) # None /\ ResetSpool(disk.reset) # None
      /\ disk.migration # None => MigrateStateV3ToV4(disk.migration.state) # None /\
           MigrateSpoolV3ToV4(disk.migration.spool) # None
      /\ disk.state # None /\ disk.state.rev < MaxRev =>
           [disk.state EXCEPT !.host = boot.host, !.rev = disk.state.rev + 1] # None
      /\ disk.key # None /\ boot.from \in {1, 2} => NewReset # None
      /\ disk.state # None /\ disk.spool # None => NewMigration # None
  BY <1>1, FileShapes, NewIntents, NoneIsNothing
<1>3. KeyOK(h)'
  BY <1>1, <1>2, <1>n, PreflightWrites DEF StartOK, BootsTo, KeyOK, KeyReady, Clean, MigrationOK, ResetOK,
      OldFiles, FilesOK, ShapeOK, StateOf, IsSpoolRecordForSchema, PairOf, IsRecognizedLegacyRuntime,
      IsRecognizedPriorSpoolRecord, ResetResumable, ResetState, ResetSpool, MigrateStateV3ToV4,
      MigrateSpoolV3ToV4, Current, SetsFloor, Disk, StateFile, SpoolFile, ResetIntent, MigrationIntent,
      SpoolKeys
<1>4. (Clean(h) => MigrationOK(h))'
  BY <1>1, <1>2, <1>n, PreflightWrites DEF StartOK, BootsTo, KeyOK, KeyReady, Clean, MigrationOK, ResetOK,
      OldFiles, FilesOK, ShapeOK, StateOf, IsSpoolRecordForSchema, PairOf, IsRecognizedLegacyRuntime,
      IsRecognizedPriorSpoolRecord, ResetResumable, ResetState, ResetSpool, MigrateStateV3ToV4,
      MigrateSpoolV3ToV4, Current, SetsFloor, Disk, StateFile, SpoolFile, ResetIntent, MigrationIntent,
      SpoolKeys
<1>5. (Clean(h) => ResetOK(h))'
  BY <1>1, <1>2, <1>n, PreflightWrites DEF StartOK, BootsTo, KeyOK, KeyReady, Clean, MigrationOK, ResetOK,
      OldFiles, FilesOK, ShapeOK, StateOf, IsSpoolRecordForSchema, PairOf, IsRecognizedLegacyRuntime,
      IsRecognizedPriorSpoolRecord, ResetResumable, ResetState, ResetSpool, MigrateStateV3ToV4,
      MigrateSpoolV3ToV4, Current, SetsFloor, Disk, StateFile, SpoolFile, ResetIntent, MigrationIntent,
      SpoolKeys
<1>6. (Clean(h) => FilesOK(h))'
  BY <1>1, <1>2, <1>n, PreflightWrites DEF StartOK, BootsTo, KeyOK, KeyReady, Clean, MigrationOK, ResetOK,
      OldFiles, FilesOK, ShapeOK, StateOf, IsSpoolRecordForSchema, PairOf, IsRecognizedLegacyRuntime,
      IsRecognizedPriorSpoolRecord, ResetResumable, ResetState, ResetSpool, MigrateStateV3ToV4,
      MigrateSpoolV3ToV4, Current, SetsFloor, Disk, StateFile, SpoolFile, ResetIntent, MigrationIntent,
      SpoolKeys
<1>7. StartOK'
  BY <1>1, <1>2, <1>n, PreflightWrites DEF StartOK, BootsTo, KeyOK, KeyReady, Clean, MigrationOK, ResetOK,
      OldFiles, FilesOK, ShapeOK, StateOf, IsSpoolRecordForSchema, PairOf, IsRecognizedLegacyRuntime,
      IsRecognizedPriorSpoolRecord, ResetResumable, ResetState, ResetSpool, MigrateStateV3ToV4,
      MigrateSpoolV3ToV4, Current, SetsFloor, Disk, StateFile, SpoolFile, ResetIntent, MigrationIntent,
      SpoolKeys
<1>8. QED BY <1>3, <1>4, <1>5, <1>6, <1>7 DEF ShapeOK

\* The same of RemoveMigrationIntent.
LEMMA RemoveMigrationIntentKeeps ==
  ASSUME TypeOK, NEW h \in Hosts, boot.host = h, UNCHANGED platform, KeyOK(h), Clean(h) => ShapeOK(h), StartOK,
           RemoveMigrationIntent
  PROVE  KeyOK(h)' /\ (Clean(h) => ShapeOK(h))' /\ StartOK'
<1>1. h # None /\ None \notin StateFile /\ None \notin SpoolFile /\ None \notin SpoolKeys
  BY NoneIsNothing
<1>2. disk \in Disk
  BY Kinds
<1>n. /\ disk.reset # None => ResetState(disk.reset) # None /\ ResetSpool(disk.reset) # None
      /\ disk.migration # None => MigrateStateV3ToV4(disk.migration.state) # None /\
           MigrateSpoolV3ToV4(disk.migration.spool) # None
      /\ disk.state # None /\ disk.state.rev < MaxRev =>
           [disk.state EXCEPT !.host = boot.host, !.rev = disk.state.rev + 1] # None
      /\ disk.key # None /\ boot.from \in {1, 2} => NewReset # None
      /\ disk.state # None /\ disk.spool # None => NewMigration # None
  BY <1>1, FileShapes, NewIntents, NoneIsNothing
<1>3. KeyOK(h)'
  BY <1>1, <1>2, <1>n, PreflightWrites DEF StartOK, BootsTo, KeyOK, KeyReady, Clean, MigrationOK, ResetOK,
      OldFiles, FilesOK, ShapeOK, StateOf, IsSpoolRecordForSchema, PairOf, IsRecognizedLegacyRuntime,
      IsRecognizedPriorSpoolRecord, ResetResumable, ResetState, ResetSpool, MigrateStateV3ToV4,
      MigrateSpoolV3ToV4, Current, SetsMigration, Disk, StateFile, SpoolFile, ResetIntent, MigrationIntent,
      SpoolKeys
<1>4. (Clean(h) => MigrationOK(h))'
  BY <1>1, <1>2, <1>n, PreflightWrites DEF StartOK, BootsTo, KeyOK, KeyReady, Clean, MigrationOK, ResetOK,
      OldFiles, FilesOK, ShapeOK, StateOf, IsSpoolRecordForSchema, PairOf, IsRecognizedLegacyRuntime,
      IsRecognizedPriorSpoolRecord, ResetResumable, ResetState, ResetSpool, MigrateStateV3ToV4,
      MigrateSpoolV3ToV4, Current, SetsMigration, Disk, StateFile, SpoolFile, ResetIntent, MigrationIntent,
      SpoolKeys
<1>5. (Clean(h) => ResetOK(h))'
  BY <1>1, <1>2, <1>n, PreflightWrites DEF StartOK, BootsTo, KeyOK, KeyReady, Clean, MigrationOK, ResetOK,
      OldFiles, FilesOK, ShapeOK, StateOf, IsSpoolRecordForSchema, PairOf, IsRecognizedLegacyRuntime,
      IsRecognizedPriorSpoolRecord, ResetResumable, ResetState, ResetSpool, MigrateStateV3ToV4,
      MigrateSpoolV3ToV4, Current, SetsMigration, Disk, StateFile, SpoolFile, ResetIntent, MigrationIntent,
      SpoolKeys
<1>6. (Clean(h) => FilesOK(h))'
  BY <1>1, <1>2, <1>n, PreflightWrites DEF StartOK, BootsTo, KeyOK, KeyReady, Clean, MigrationOK, ResetOK,
      OldFiles, FilesOK, ShapeOK, StateOf, IsSpoolRecordForSchema, PairOf, IsRecognizedLegacyRuntime,
      IsRecognizedPriorSpoolRecord, ResetResumable, ResetState, ResetSpool, MigrateStateV3ToV4,
      MigrateSpoolV3ToV4, Current, SetsMigration, Disk, StateFile, SpoolFile, ResetIntent, MigrationIntent,
      SpoolKeys
<1>7. StartOK'
  BY <1>1, <1>2, <1>n, PreflightWrites DEF StartOK, BootsTo, KeyOK, KeyReady, Clean, MigrationOK, ResetOK,
      OldFiles, FilesOK, ShapeOK, StateOf, IsSpoolRecordForSchema, PairOf, IsRecognizedLegacyRuntime,
      IsRecognizedPriorSpoolRecord, ResetResumable, ResetState, ResetSpool, MigrateStateV3ToV4,
      MigrateSpoolV3ToV4, Current, SetsMigration, Disk, StateFile, SpoolFile, ResetIntent, MigrationIntent,
      SpoolKeys
<1>8. QED BY <1>3, <1>4, <1>5, <1>6, <1>7 DEF ShapeOK

\* The same of EstablishFloor.
LEMMA EstablishFloorKeeps ==
  ASSUME TypeOK, NEW h \in Hosts, boot.host = h, UNCHANGED platform, KeyOK(h), Clean(h) => ShapeOK(h), StartOK,
           EstablishFloor
  PROVE  KeyOK(h)' /\ (Clean(h) => ShapeOK(h))' /\ StartOK'
<1>1. h # None /\ None \notin StateFile /\ None \notin SpoolFile /\ None \notin SpoolKeys
  BY NoneIsNothing
<1>2. disk \in Disk
  BY Kinds
<1>n. /\ disk.reset # None => ResetState(disk.reset) # None /\ ResetSpool(disk.reset) # None
      /\ disk.migration # None => MigrateStateV3ToV4(disk.migration.state) # None /\
           MigrateSpoolV3ToV4(disk.migration.spool) # None
      /\ disk.state # None /\ disk.state.rev < MaxRev =>
           [disk.state EXCEPT !.host = boot.host, !.rev = disk.state.rev + 1] # None
      /\ disk.key # None /\ boot.from \in {1, 2} => NewReset # None
      /\ disk.state # None /\ disk.spool # None => NewMigration # None
  BY <1>1, FileShapes, NewIntents, NoneIsNothing
<1>3. KeyOK(h)'
  BY <1>1, <1>2, <1>n, PreflightWrites DEF StartOK, BootsTo, KeyOK, KeyReady, Clean, MigrationOK, ResetOK,
      OldFiles, FilesOK, ShapeOK, StateOf, IsSpoolRecordForSchema, PairOf, IsRecognizedLegacyRuntime,
      IsRecognizedPriorSpoolRecord, ResetResumable, ResetState, ResetSpool, MigrateStateV3ToV4,
      MigrateSpoolV3ToV4, Current, SetsFloor, Disk, StateFile, SpoolFile, ResetIntent, MigrationIntent,
      SpoolKeys
<1>4. (Clean(h) => MigrationOK(h))'
  BY <1>1, <1>2, <1>n, PreflightWrites DEF StartOK, BootsTo, KeyOK, KeyReady, Clean, MigrationOK, ResetOK,
      OldFiles, FilesOK, ShapeOK, StateOf, IsSpoolRecordForSchema, PairOf, IsRecognizedLegacyRuntime,
      IsRecognizedPriorSpoolRecord, ResetResumable, ResetState, ResetSpool, MigrateStateV3ToV4,
      MigrateSpoolV3ToV4, Current, SetsFloor, Disk, StateFile, SpoolFile, ResetIntent, MigrationIntent,
      SpoolKeys
<1>5. (Clean(h) => ResetOK(h))'
  BY <1>1, <1>2, <1>n, PreflightWrites DEF StartOK, BootsTo, KeyOK, KeyReady, Clean, MigrationOK, ResetOK,
      OldFiles, FilesOK, ShapeOK, StateOf, IsSpoolRecordForSchema, PairOf, IsRecognizedLegacyRuntime,
      IsRecognizedPriorSpoolRecord, ResetResumable, ResetState, ResetSpool, MigrateStateV3ToV4,
      MigrateSpoolV3ToV4, Current, SetsFloor, Disk, StateFile, SpoolFile, ResetIntent, MigrationIntent,
      SpoolKeys
<1>6. (Clean(h) => FilesOK(h))'
  BY <1>1, <1>2, <1>n, PreflightWrites DEF StartOK, BootsTo, KeyOK, KeyReady, Clean, MigrationOK, ResetOK,
      OldFiles, FilesOK, ShapeOK, StateOf, IsSpoolRecordForSchema, PairOf, IsRecognizedLegacyRuntime,
      IsRecognizedPriorSpoolRecord, ResetResumable, ResetState, ResetSpool, MigrateStateV3ToV4,
      MigrateSpoolV3ToV4, Current, SetsFloor, Disk, StateFile, SpoolFile, ResetIntent, MigrationIntent,
      SpoolKeys
<1>7. StartOK'
  BY <1>1, <1>2, <1>n, PreflightWrites DEF StartOK, BootsTo, KeyOK, KeyReady, Clean, MigrationOK, ResetOK,
      OldFiles, FilesOK, ShapeOK, StateOf, IsSpoolRecordForSchema, PairOf, IsRecognizedLegacyRuntime,
      IsRecognizedPriorSpoolRecord, ResetResumable, ResetState, ResetSpool, MigrateStateV3ToV4,
      MigrateSpoolV3ToV4, Current, SetsFloor, Disk, StateFile, SpoolFile, ResetIntent, MigrationIntent,
      SpoolKeys
<1>8. QED BY <1>3, <1>4, <1>5, <1>6, <1>7 DEF ShapeOK

\* The same of Work.
LEMMA WorkKeeps ==
  ASSUME TypeOK, NEW h \in Hosts, boot.host = h, UNCHANGED platform, KeyOK(h), Clean(h) => ShapeOK(h), StartOK, Work
  PROVE  KeyOK(h)' /\ (Clean(h) => ShapeOK(h))' /\ StartOK'
<1>1. h # None /\ None \notin StateFile /\ None \notin SpoolFile /\ None \notin SpoolKeys
  BY NoneIsNothing
<1>2. disk \in Disk
  BY Kinds
<1>n. /\ disk.reset # None => ResetState(disk.reset) # None /\ ResetSpool(disk.reset) # None
      /\ disk.migration # None => MigrateStateV3ToV4(disk.migration.state) # None /\
           MigrateSpoolV3ToV4(disk.migration.spool) # None
      /\ disk.state # None /\ disk.state.rev < MaxRev =>
           [disk.state EXCEPT !.host = boot.host, !.rev = disk.state.rev + 1] # None
      /\ disk.key # None /\ boot.from \in {1, 2} => NewReset # None
      /\ disk.state # None /\ disk.spool # None => NewMigration # None
  BY <1>1, FileShapes, NewIntents, NoneIsNothing
<1>3. KeyOK(h)'
  BY <1>1, <1>2, <1>n, PreflightWrites DEF StartOK, BootsTo, KeyOK, KeyReady, Clean, MigrationOK, ResetOK,
      OldFiles, FilesOK, ShapeOK, StateOf, IsSpoolRecordForSchema, PairOf, IsRecognizedLegacyRuntime,
      IsRecognizedPriorSpoolRecord, ResetResumable, ResetState, ResetSpool, MigrateStateV3ToV4,
      MigrateSpoolV3ToV4, Current, SetsState, Work, Disk, StateFile, SpoolFile, ResetIntent, MigrationIntent,
      SpoolKeys
<1>4. (Clean(h) => MigrationOK(h))'
  BY <1>1, <1>2, <1>n, PreflightWrites DEF StartOK, BootsTo, KeyOK, KeyReady, Clean, MigrationOK, ResetOK,
      OldFiles, FilesOK, ShapeOK, StateOf, IsSpoolRecordForSchema, PairOf, IsRecognizedLegacyRuntime,
      IsRecognizedPriorSpoolRecord, ResetResumable, ResetState, ResetSpool, MigrateStateV3ToV4,
      MigrateSpoolV3ToV4, Current, SetsState, Work, Disk, StateFile, SpoolFile, ResetIntent, MigrationIntent,
      SpoolKeys
<1>5. (Clean(h) => ResetOK(h))'
  BY <1>1, <1>2, <1>n, PreflightWrites DEF StartOK, BootsTo, KeyOK, KeyReady, Clean, MigrationOK, ResetOK,
      OldFiles, FilesOK, ShapeOK, StateOf, IsSpoolRecordForSchema, PairOf, IsRecognizedLegacyRuntime,
      IsRecognizedPriorSpoolRecord, ResetResumable, ResetState, ResetSpool, MigrateStateV3ToV4,
      MigrateSpoolV3ToV4, Current, SetsState, Work, Disk, StateFile, SpoolFile, ResetIntent, MigrationIntent,
      SpoolKeys
<1>6. (Clean(h) => FilesOK(h))'
  BY <1>1, <1>2, <1>n, PreflightWrites DEF StartOK, BootsTo, KeyOK, KeyReady, Clean, MigrationOK, ResetOK,
      OldFiles, FilesOK, ShapeOK, StateOf, IsSpoolRecordForSchema, PairOf, IsRecognizedLegacyRuntime,
      IsRecognizedPriorSpoolRecord, ResetResumable, ResetState, ResetSpool, MigrateStateV3ToV4,
      MigrateSpoolV3ToV4, Current, SetsState, Work, Disk, StateFile, SpoolFile, ResetIntent, MigrationIntent,
      SpoolKeys
<1>7. StartOK'
  BY <1>1, <1>2, <1>n, PreflightWrites DEF StartOK, BootsTo, KeyOK, KeyReady, Clean, MigrationOK, ResetOK,
      OldFiles, FilesOK, ShapeOK, StateOf, IsSpoolRecordForSchema, PairOf, IsRecognizedLegacyRuntime,
      IsRecognizedPriorSpoolRecord, ResetResumable, ResetState, ResetSpool, MigrateStateV3ToV4,
      MigrateSpoolV3ToV4, Current, SetsState, Work, Disk, StateFile, SpoolFile, ResetIntent, MigrationIntent,
      SpoolKeys
<1>8. QED BY <1>3, <1>4, <1>5, <1>6, <1>7 DEF ShapeOK

-----------------------------------------------------------------------------
(* The other steps of a start                                              *)

\* The choice of a spool key for a reset of the files keeps them in shape.
LEMMA BeginResetKeyKeeps ==
  ASSUME TypeOK, NEW h \in Hosts, boot.host = h, UNCHANGED platform, KeyOK(h), Clean(h) => ShapeOK(h), StartOK,
           BeginResetKey
  PROVE  /\ KeyOK(h)' /\ (Clean(h) => ShapeOK(h))' /\ StartOK'
         /\ boot'.at # "refused" \/ UNCHANGED boot
<1>1. /\ h # None /\ None \notin StateFile /\ None \notin SpoolFile /\ None \notin SpoolKeys
      /\ disk \in Disk /\ boot.at = "key" /\ OldFiles(h) /\ boot.from \in {1, 2} /\ KeyOK(h)
  BY Kinds, NoneIsNothing, ResetKeyWrites DEF StartOK
<1>2. CASE UNCHANGED disk /\ BootsTo("intent") /\ KeyReady(disk, boot.host)
  <2>1. KeyOK(h)' /\ (Clean(h) => ShapeOK(h))'
    BY <1>1, <1>2 DEF KeyOK, KeyReady, Clean, MigrationOK, ResetOK, OldFiles, FilesOK, ShapeOK, StateOf,
        IsSpoolRecordForSchema, PairOf, IsRecognizedLegacyRuntime, IsRecognizedPriorSpoolRecord, ResetResumable
  <2>2. boot'.at = "intent" /\ boot'.host = h /\ boot'.from = boot.from
    BY <1>2 DEF BootsTo
  <2>3. OldFiles(h)'
    BY <1>1, <1>2 DEF OldFiles, StateOf, IsSpoolRecordForSchema, PairOf, IsRecognizedLegacyRuntime,
        IsRecognizedPriorSpoolRecord
  <2>4. disk'.key # None
    BY <1>2 DEF KeyReady
  <2>5. StartOK'
    BY <1>1, <2>2, <2>3, <2>4 DEF StartOK, OldFiles, StateOf, IsSpoolRecordForSchema, PairOf,
        IsRecognizedLegacyRuntime, IsRecognizedPriorSpoolRecord
  <2>6. QED BY <2>1, <2>2, <2>5
<1>3. CASE /\ disk.spool = None /\ disk.key = None /\ IdsAreLeft(disk) /\ UNCHANGED boot
           /\ platform = "darwin" /\ SetsItem(boot.host, FreshKey(disk))
  <2>1. KeyOK(h)'
    BY <1>1, <1>3 DEF KeyOK, SetsItem
  <2>2. OldFiles(h)'
    BY <1>1, <1>3 DEF SetsItem, OldFiles, StateOf, IsSpoolRecordForSchema, PairOf, IsRecognizedLegacyRuntime,
        IsRecognizedPriorSpoolRecord
  <2>3. (Clean(h) => ShapeOK(h))'
    BY <2>2 DEF ShapeOK, MigrationOK, ResetOK, FilesOK, OldFiles
  <2>4. StartOK'
    BY <1>1, <1>3, <2>2 DEF StartOK, OldFiles, StateOf, IsSpoolRecordForSchema, PairOf,
        IsRecognizedLegacyRuntime, IsRecognizedPriorSpoolRecord
  <2>5. QED BY <1>3, <2>1, <2>3, <2>4
<1>4. CASE /\ disk.spool = None /\ disk.key = None /\ IdsAreLeft(disk) /\ UNCHANGED boot
           /\ ~(platform = "darwin" /\ disk.items[boot.host] = 0)
           /\ SetsKey([host |-> boot.host, id |-> NextKey(boot.host)])
  <2>1. platform = "darwin" => NextKey(h) = disk.items[h]
    BY <1>1, <1>4 DEF NextKey
  <2>2. KeyOK(h)'
    BY <1>1, <1>4, <2>1 DEF KeyOK, KeyReady, SetsKey
  <2>3. OldFiles(h)'
    BY <1>1, <1>4 DEF SetsKey, OldFiles, StateOf, IsSpoolRecordForSchema, PairOf, IsRecognizedLegacyRuntime,
        IsRecognizedPriorSpoolRecord
  <2>4. (Clean(h) => ShapeOK(h))'
    BY <2>3 DEF ShapeOK, MigrationOK, ResetOK, FilesOK, OldFiles
  <2>5. StartOK'
    BY <1>1, <1>4, <2>3 DEF StartOK, OldFiles, StateOf, IsSpoolRecordForSchema, PairOf,
        IsRecognizedLegacyRuntime, IsRecognizedPriorSpoolRecord
  <2>6. QED BY <1>4, <2>2, <2>4, <2>5
<1>5. ~(~KeyReady(disk, boot.host) /\ (disk.spool # None \/ disk.key # None))
  BY <1>1 DEF KeyOK
<1>6. ~(disk.spool # None /\ disk.spool.v # 1 /\ disk.spool.key # disk.key.id)
  BY <1>1 DEF KeyOK
<1>7. QED BY <1>2, <1>3, <1>4, <1>5, <1>6, ResetKeyWrites

\* A preflight leaves the files as they are and leads where they allow.
LEMMA PreflightKeeps ==
  ASSUME TypeOK, NEW h \in Hosts, boot.host = h, UNCHANGED platform, KeyOK(h), Clean(h) => ShapeOK(h),
           PreflightRuntime
  PROVE  /\ KeyOK(h)' /\ (Clean(h) => ShapeOK(h))' /\ StartOK'
         /\ boot'.at = "refused" => disk.floor \notin {None, h} \/ disk.migration # None
<1>1. h # None /\ None \notin StateFile /\ None \notin SpoolFile /\ None \notin SpoolKeys /\ disk \in Disk
  BY Kinds, NoneIsNothing
<1>2. /\ boot.at = "preflight" /\ UNCHANGED disk
      /\ boot'.at = Verdict(disk, h) /\ boot'.host = h
      /\ boot'.from = IF Verdict(disk, h) = "key" THEN ResetFrom(disk) ELSE 0
  BY Preflighting
<1>3. KeyOK(h)' /\ (Clean(h) => ShapeOK(h))'
  BY <1>2 DEF KeyOK, KeyReady, Clean, MigrationOK, ResetOK, OldFiles, FilesOK, ShapeOK, StateOf,
      IsSpoolRecordForSchema, PairOf, IsRecognizedLegacyRuntime, IsRecognizedPriorSpoolRecord, ResetResumable
<1>4. ResetFrom(disk) \in {1, 2}
  BY DEF ResetFrom
<1>5. Verdict(disk, h) = "refused" => disk.floor \notin {None, h} \/ disk.migration # None
  <2>1. SUFFICES ASSUME Verdict(disk, h) = "refused", disk.floor \in {None, h}, disk.migration = None
                 PROVE  FALSE
    OBVIOUS
  <2>2. ShapeOK(h)
    BY <2>1 DEF Clean
  <2>3. CASE disk.reset # None
    BY <2>1, <2>2, <2>3, <1>1 DEF Verdict, ShapeOK, ResetOK
  <2>4. CASE disk.reset = None /\ disk.floor = h
    BY <2>1, <2>2, <2>4, <1>1 DEF Verdict, ShapeOK, FilesOK
  <2>5. CASE disk.reset = None /\ disk.floor = None
    <3>1. PairOf(disk, Current, h) \/ PairOf(disk, 3, h) \/ OldFiles(h)
      BY <2>1, <2>2, <2>5 DEF ShapeOK, FilesOK
    <3>2. disk.state # None /\ disk.state.v = Current => PairOf(disk, Current, h)
      BY <3>1 DEF PairOf, OldFiles, StateOf, IsRecognizedLegacyRuntime, Current
    <3>3. PairOf(disk, Current, h) => disk.state # None /\ disk.state.v = Current
      BY DEF PairOf, StateOf
    <3>4. OldFiles(h) => (disk.state = None /\ disk.spool = None) \/ PairOf(disk, 2, h) \/
            IsRecognizedLegacyRuntime(disk, h)
      BY DEF OldFiles
    <3>5. QED BY <1>1, <2>1, <2>5, <3>1, <3>2, <3>3, <3>4 DEF Verdict
  <2>6. QED BY <2>1, <2>3, <2>4, <2>5
<1>6. StartOK'
  <2>1. Verdict(disk, h) = "migrate-spool" => disk.migration # None /\ Clean(h)
    BY DEF Verdict, MigrationResumable, Clean
  <2>2. Verdict(disk, h) = "reset-spool" => disk.reset # None /\ Clean(h)
    BY DEF Verdict, Clean
  <2>3. Verdict(disk, h) = "open" => disk.floor = h /\ disk.migration = None
    BY DEF Verdict
  <2>4. Verdict(disk, h) = "floor" => disk.floor = None /\ disk.migration = None /\ disk.reset = None /\
          PairOf(disk, Current, h)
    BY DEF Verdict
  <2>5. Verdict(disk, h) = "migration" => disk.floor = None /\ disk.migration = None /\ disk.reset = None /\
          PairOf(disk, 3, h)
    BY DEF Verdict
  <2>6. Verdict(disk, h) = "key" => OldFiles(h)
    BY DEF Verdict, OldFiles
  <2> DEFINE verdict == Verdict(disk, h)
  <2>7. verdict \in {"migrate-spool", "reset-spool", "open", "floor", "migration", "key", "refused"}
    BY Verdicts
  <2>8. /\ OldFiles(h) => OldFiles(h)'
        /\ \A v : PairOf(disk, v, h) => PairOf(disk', v, h)
        /\ Clean(h) => Clean(h)'
    BY <1>2 DEF OldFiles, StateOf, IsSpoolRecordForSchema, PairOf, IsRecognizedLegacyRuntime,
        IsRecognizedPriorSpoolRecord, Clean
  <2> HIDE DEF verdict
  <2>9. boot'.at = verdict /\ UNCHANGED disk /\ boot'.host = h /\ (verdict = "key" => boot'.from \in {1, 2})
    BY <1>2, <1>4 DEF verdict
  <2>10. /\ verdict = "migrate-spool" => disk.migration # None /\ Clean(h)
         /\ verdict = "reset-spool" => disk.reset # None /\ Clean(h)
         /\ verdict = "open" => disk.floor = h /\ disk.migration = None
         /\ verdict = "floor" => disk.floor = None /\ disk.migration = None /\ disk.reset = None /\
              PairOf(disk, Current, h)
         /\ verdict = "migration" => disk.floor = None /\ disk.migration = None /\ disk.reset = None /\
              PairOf(disk, 3, h)
         /\ verdict = "key" => OldFiles(h)
    BY <2>1, <2>2, <2>3, <2>4, <2>5, <2>6 DEF verdict
  <2>11. QED BY <2>7, <2>8, <2>9, <2>10 DEF StartOK, OldFiles, PairOf, StateOf, IsSpoolRecordForSchema, Clean,
                IsRecognizedLegacyRuntime, IsRecognizedPriorSpoolRecord
<1>7. QED BY <1>2, <1>3, <1>5, <1>6

\* The opening reads what is there.
LEMMA OpenKeeps ==
  ASSUME TypeOK, NEW h \in Hosts, boot.host = h, UNCHANGED platform, KeyOK(h), Clean(h) => ShapeOK(h), StartOK,
           OpenSpool
  PROVE  KeyOK(h)' /\ (Clean(h) => ShapeOK(h))' /\ StartOK' /\ boot'.at = "encrypt"
<1>1. boot.at = "open" /\ UNCHANGED disk /\ disk.floor = h /\ disk.migration = None /\ h # None
  BY NoneIsNothing DEF OpenSpool, StartOK
<1>2. PairOf(disk, Current, h)
  <2>1. ShapeOK(h)
    BY <1>1 DEF Clean
  <2>2. disk.reset = None
    BY <1>1, <2>1 DEF ShapeOK, ResetOK
  <2>3. QED BY <1>1, <2>1, <2>2 DEF ShapeOK, FilesOK
<1>3. KeyReady(disk, h) /\ disk.key.id = disk.spool.key
  BY <1>2 DEF KeyOK, PairOf, IsSpoolRecordForSchema
<1>4. BootsTo("encrypt")
  BY <1>2, <1>3, Booting DEF OpenSpool
<1>5. KeyOK(h)' /\ (Clean(h) => ShapeOK(h))'
  BY <1>1 DEF KeyOK, KeyReady, Clean, MigrationOK, ResetOK, OldFiles, FilesOK, ShapeOK, StateOf,
      IsSpoolRecordForSchema, PairOf, IsRecognizedLegacyRuntime, IsRecognizedPriorSpoolRecord, ResetResumable
<1>6. StartOK'
  BY <1>1, <1>4 DEF StartOK, BootsTo
<1>7. QED BY <1>4, <1>5, <1>6 DEF BootsTo

-----------------------------------------------------------------------------
(* The files and their Host                                                *)

\* A daemon behind its validation owns the files.
LEMMA DaemonOwnsFiles ==
  ASSUME TypeOK, PlacesOK, Done, LinuxSigning, MacSigning, Replacing, Bound, DaemonOK, CandidateOK, DiskOK, Inside
  PROVE  /\ boot.host \in Hosts /\ boot.host = signing.meta /\ ~Mixed
         /\ KeyOK(boot.host) /\ (Clean(boot.host) => ShapeOK(boot.host))
         /\ Phase \notin ReplacedPhases
         /\ Phase \in BoundPhases /\ ~journal.unreadable => journal.old = boot.host
<1>1. boot.host \in Hosts /\ boot.host # None /\ boot.host = signing.meta
  BY Kinds DEF DaemonOK, Boot
<1>2. Candidate # None => boot.host # Candidate
  BY DEF CandidateOK, Inside
<1>3. ~Mixed
  BY <1>1, <1>2 DEF Mixed
<1>4. KeyOK(boot.host) /\ (Clean(boot.host) => ShapeOK(boot.host))
  BY <1>1, <1>3 DEF DiskOK
<1>5. Phase \notin ReplacedPhases
  BY <1>1, <1>3 DEF Done, Mixed, Candidate
<1>6. Phase \in BoundPhases /\ ~journal.unreadable => journal.old = boot.host
  <2>1. SUFFICES ASSUME Phase \in BoundPhases, ~journal.unreadable
                 PROVE  journal.old = boot.host
    OBVIOUS
  <2>2. CASE Candidate = None
    BY <1>1, <2>1, <2>2 DEF Bound
  <2>3. CASE Candidate # None
    <3>1. Phase = "signing-replacement-pending" /\ signing.op = NoOp /\ signing.reset # None /\ Candidate = Chosen
      BY <1>1, <1>2, <1>5, <2>3 DEF Candidate, Chosen
    <3>2. signing.reset.previous = journal.old /\ signing.meta \in {signing.reset.previous, Chosen}
      BY <2>1, <3>1 DEF Replacing
    <3>3. QED BY <1>1, <1>2, <2>3, <3>1, <3>2
  <2>4. QED BY <2>2, <2>3
<1>7. QED BY <1>1, <1>3, <1>4, <1>5, <1>6

\* The metadata write of a reset begins the exchange.
LEMMA MetadataMixes ==
  ASSUME TypeOK, PlacesOK, Done, LinuxSigning, MacSigning, SigningWrite /\ WriteProfileMetadata
  PROVE  Mixed'
<1>1. /\ cli.at = "sign-meta" /\ Phase = "signing-replacement-pending" /\ signing.reset # None /\ platform = "darwin"
  BY Kinds DEF WriteProfileMetadata, PlacesOK, SignPlaces, Done, LinuxSigning
<1>2. signing.op = NoOp
  BY <1>1 DEF MacSigning
<1>3. signing.reset.candidate # None
  BY <1>1, Kinds, NoneIsNothing DEF SigningStore, SigningResets
<1>4. SetsMeta(signing.reset.candidate, signing.op, signing.broken) /\ UNCHANGED journal
  BY SigningWrites DEF SigningWrite
<1>5. Phase' = "signing-replacement-pending"
  BY <1>1, <1>4 DEF Phase
<1>6. Candidate' = signing.reset.candidate
  BY <1>1, <1>2, <1>4, <1>5 DEF Candidate, SetsMeta, ReplacedPhases, AfterEncryption, AfterClearing, AfterConfig
<1>7. QED BY <1>3, <1>4, <1>6 DEF Mixed, SetsMeta

\* Files of no Host are of every one.
LEMMA FilesOfNone ==
  ASSUME TypeOK, KeyOK(None), Clean(None) => ShapeOK(None), NEW h \in Hosts, h # disk.floor,
           disk.migration # None => disk.migration.host # h
  PROVE  KeyOK(h) /\ (Clean(h) => ShapeOK(h))
<1>1. None \notin Hosts /\ disk \in Disk /\ h # None
  BY Kinds, NoneIsNothing
<1>2. disk.key = None /\ disk.spool = None /\ (disk.state # None => disk.state.host = None)
  <2>1. disk.key # None => disk.key.host \in Hosts
    BY <1>1 DEF Disk, SpoolKeys
  <2>2. QED BY <1>1, <2>1 DEF KeyOK, KeyReady
<1>3. KeyOK(h)
  BY <1>2 DEF KeyOK
<1>4. ASSUME Clean(h) PROVE ShapeOK(h)
  <2>1. disk.floor = None /\ disk.migration = None
    BY <1>1, <1>4 DEF Clean
  <2>2. ShapeOK(None)
    BY <2>1 DEF Clean
  <2>3. disk.reset = None
    BY <1>2, <2>2 DEF ShapeOK, ResetOK, ResetResumable, KeyReady
  <2>4. OldFiles(None)
    BY <1>2, <2>1, <2>2, <2>3 DEF ShapeOK, FilesOK, PairOf, IsSpoolRecordForSchema
  <2>5. OldFiles(h)
    BY <1>2, <2>4 DEF OldFiles, PairOf, IsSpoolRecordForSchema, IsRecognizedLegacyRuntime, StateOf
  <2>6. QED BY <1>1, <2>1, <2>3, <2>5 DEF ShapeOK, MigrationOK, ResetOK, FilesOK
<1>5. QED BY <1>3, <1>4

\* No files are files of any Host.
LEMMA NoFilesAreOK ==
  ASSUME NEW h \in Hosts, h # disk.floor, disk.migration # None => disk.migration.host # h,
         disk.state = None, disk.spool = None, disk.key = None, disk.reset = None
  PROVE  KeyOK(h) /\ (Clean(h) => ShapeOK(h))
  BY NoneIsNothing DEF KeyOK, Clean, ShapeOK, MigrationOK, ResetOK, FilesOK, OldFiles

\* Files stay in shape while nothing touches them.
LEMMA FilesKept ==
  ASSUME UNCHANGED <<disk, platform>>, NEW h, KeyOK(h), Clean(h) => ShapeOK(h)
  PROVE  KeyOK(h)' /\ (Clean(h) => ShapeOK(h))'
  BY DEF KeyOK, KeyReady, Clean, MigrationOK, ResetOK, OldFiles, FilesOK, ShapeOK, StateOf,
      IsSpoolRecordForSchema, PairOf, IsRecognizedLegacyRuntime, IsRecognizedPriorSpoolRecord, ResetResumable

\* The files stay those of the signing Host while neither changes.
LEMMA DiskOKKept ==
  ASSUME DiskOK, Mixed' \/ (signing'.meta = signing.meta /\ ~Mixed /\ UNCHANGED <<disk, platform>>)
  PROVE  DiskOK'
<1>1. CASE Mixed'
  BY <1>1 DEF DiskOK
<1>2. CASE signing'.meta = signing.meta /\ ~Mixed /\ UNCHANGED <<disk, platform>>
  <2>1. PICK h : h = signing.meta
    OBVIOUS
  <2>2. h = signing'.meta /\ KeyOK(h) /\ (Clean(h) => ShapeOK(h))
    BY <1>2, <2>1 DEF DiskOK
  <2>3. KeyOK(h)' /\ (Clean(h) => ShapeOK(h))'
    BY <1>2, <2>2, FilesKept
  <2>4. QED BY <2>2, <2>3 DEF DiskOK
<1>3. QED BY <1>1, <1>2

\* A Host that is created finds no file of another one.
LEMMA DiskOKAtCreation ==
  ASSUME TypeOK, PlacesOK, Initialising, OwnOK, DiskOK, CreateSigningIdentity \/
           (SigningWrite /\ CreateFirstRunMetadata)
  PROVE  DiskOK'
<1>1. journal = None /\ signing.meta = None /\ ~Mixed /\ UNCHANGED <<disk, journal, platform>>
  <2>1. journal = None /\ signing.meta = None /\ UNCHANGED <<disk, journal, platform>>
    BY FirstRun, SigningWrites DEF PlacesOK, InitPlaces, Initialising, SigningStatus, SigningWrite, counters
  <2>2. QED BY <2>1 DEF Mixed
<1>2. KeyOK(None) /\ (Clean(None) => ShapeOK(None))
  BY <1>1 DEF DiskOK
<1>3. PICK h : h = signing'.meta
  OBVIOUS
<1>4. h = None \/ (h \in Hosts /\ h # disk.floor /\ (disk.migration # None => disk.migration.host # h))
  <2>1. CASE CreateSigningIdentity
    BY <1>1, <1>3, <2>1, FirstRun, FreshHosts DEF SetsMeta, SetsCreating
  <2>2. CASE SigningWrite /\ CreateFirstRunMetadata
    BY <1>3, <2>2, SigningWrites, Kinds DEF SetsMeta, Initialising, SigningStore, MaybeHost
  <2>3. QED BY <2>1, <2>2
<1>5. KeyOK(h) /\ (Clean(h) => ShapeOK(h))
  BY <1>2, <1>4, FilesOfNone
<1>6. KeyOK(h)' /\ (Clean(h) => ShapeOK(h))'
  BY <1>1, <1>5, FilesKept
<1>7. QED BY <1>3, <1>6 DEF DiskOK

\* A replaced Host finds no file of another one.
LEMMA DiskOKAfterReset ==
  ASSUME TypeOK, PlacesOK, Done, CandidateOK, ClearOK, DiskOK, ConfirmAndRemoveJournal
  PROVE  DiskOK'
<1>1. /\ Phase = "service-restore-pending" /\ UNCHANGED <<disk, signing, platform>>
      /\ journal # None /\ journal.new # None /\ signing.meta = journal.new /\ Mixed /\ Candidate = journal.new
  BY DEF ConfirmAndRemoveJournal, PlacesOK, Phase, storeVars, Done, Mixed, Candidate, ReplacedPhases,
      AfterEncryption, AfterClearing, AfterConfig
<1>2. PICK h : h = signing.meta
  OBVIOUS
<1>3. h \in Hosts /\ h # disk.floor /\ (disk.migration # None => disk.migration.host # h)
  BY <1>1, <1>2, Kinds DEF CandidateOK, SigningStore, MaybeHost
<1>4. disk.state = None /\ disk.spool = None /\ disk.key = None /\ disk.reset = None
  BY <1>1 DEF ClearOK, AfterClearing, AfterConfig
<1>5. KeyOK(h) /\ (Clean(h) => ShapeOK(h))
  BY <1>3, <1>4, NoFilesAreOK
<1>6. KeyOK(h)' /\ (Clean(h) => ShapeOK(h))'
  BY <1>1, <1>5, FilesKept
<1>7. QED BY <1>1, <1>2, <1>6 DEF DiskOK

-----------------------------------------------------------------------------
(* The daemon and the files together                                       *)

\* Every write of a daemon leaves files the next start takes up.
LEMMA RuntimeKeeps ==
  ASSUME TypeOK, NEW h \in Hosts, boot.host = h, KeyOK(h), Clean(h) => ShapeOK(h), StartOK, RuntimeStep
  PROVE  KeyOK(h)' /\ (Clean(h) => ShapeOK(h))' /\ StartOK'
<1>1. PreflightStep /\ UNCHANGED platform
  BY DEF RuntimeStep, counters
<1>2. CASE PreflightRuntime
  BY <1>1, <1>2, PreflightKeeps
<1>3. CASE BeginResetKey
  BY <1>1, <1>3, BeginResetKeyKeeps
<1>4. CASE BeginRuntimeReset
  BY <1>1, <1>4, BeginRuntimeResetKeeps
<1>5. CASE ReplaceSpool
  BY <1>1, <1>5, ReplaceSpoolKeeps
<1>6. CASE ReplaceState
  BY <1>1, <1>6, ReplaceStateKeeps
<1>7. CASE RemoveResetIntent
  BY <1>1, <1>7, RemoveResetIntentKeeps
<1>8. CASE BeginRuntimeMigration
  BY <1>1, <1>8, BeginRuntimeMigrationKeeps
<1>9. CASE MigrateSpool
  BY <1>1, <1>9, MigrateSpoolKeeps
<1>10. CASE MigrateState
  BY <1>1, <1>10, MigrateStateKeeps
<1>11. CASE MigrateFloor
  BY <1>1, <1>11, MigrateFloorKeeps
<1>12. CASE RemoveMigrationIntent
  BY <1>1, <1>12, RemoveMigrationIntentKeeps
<1>13. CASE EstablishFloor
  BY <1>1, <1>13, EstablishFloorKeeps
<1>14. CASE OpenSpool
  BY <1>1, <1>14, OpenKeeps
<1>15. CASE Work
  BY <1>1, <1>15, WorkKeeps
<1>16. QED BY <1>1, <1>2, <1>3, <1>4, <1>5, <1>6, <1>7, <1>8, <1>9, <1>10, <1>11, <1>12, <1>13, <1>14, <1>15
              DEF PreflightStep

\* Only a daemon behind its validation writes.
LEMMA RuntimeIsInside ==
  ASSUME TypeOK, RuntimeStep
  PROVE  Inside
  BY PreflightWrites, Preflighting, ResetKeyWrites DEF RuntimeStep, PreflightStep, OpenSpool, Inside

\* A start that was validated works on files of its own Host.
LEMMA RuntimePreserves ==
  ASSUME TypeOK, PlacesOK, Done, LinuxSigning, MacSigning, Replacing, Bound, DaemonOK, CandidateOK, DiskOK,
           StartOK, RuntimeStep
  PROVE  DiskOK' /\ StartOK'
<1>1. Inside
  BY RuntimeIsInside
<1>2. PICK h \in Hosts : h = boot.host
  BY <1>1, DaemonOwnsFiles
<1>3. h = signing.meta /\ KeyOK(h) /\ (Clean(h) => ShapeOK(h))
  BY <1>1, <1>2, DaemonOwnsFiles
<1>4. KeyOK(h)' /\ (Clean(h) => ShapeOK(h))' /\ StartOK'
  BY <1>2, <1>3, RuntimeKeeps
<1>5. signing'.meta = h
  BY <1>3 DEF RuntimeStep, storeVars
<1>6. QED BY <1>4, <1>5 DEF DiskOK

\* Files in shape are not refused by a preflight.
LEMMA StartIsNotRefused ==
  ASSUME TypeOK, PlacesOK, Done, LinuxSigning, MacSigning, Replacing, Bound, DaemonOK, CandidateOK, DiskOK,
           StartOK, EncryptionOK, OwnOK,
         RuntimeStep \/ LoadEncryption, boot'.at = "refused"
  PROVE  /\ boot.at # "refused" => disk'.floor \notin {None, boot'.host} \/ disk'.migration # None
         /\ boot.at = "refused" => UNCHANGED boot /\ disk'.floor = disk.floor /\ disk'.migration = disk.migration
<1>1. Inside
  BY RuntimeIsInside, DaemonKeys DEF Inside
<1>2. PICK h \in Hosts : h = boot.host
  BY <1>1, DaemonOwnsFiles
<1>3. h = signing.meta /\ KeyOK(h) /\ (Clean(h) => ShapeOK(h)) /\ ~Mixed /\ h # None
  BY <1>1, <1>2, DaemonOwnsFiles, NoneIsNothing
<1>4. CASE RuntimeStep
  <2>1. UNCHANGED platform /\ PreflightStep
    BY <1>4 DEF RuntimeStep, counters
  <2>2. CASE PreflightRuntime
    <3>1. disk.floor \notin {None, h} \/ disk.migration # None
      BY <1>2, <1>3, <2>1, <2>2, PreflightKeeps
    <3>2. QED BY <1>2, <2>2, <3>1, Preflighting
  <2>3. CASE BeginResetKey
    <3>1. UNCHANGED boot
      BY <1>2, <1>3, <2>1, <2>3, BeginResetKeyKeeps
    <3>2. QED BY <2>3, <3>1, ResetKeyWrites
  <2>4. CASE OpenSpool
    BY <1>2, <1>3, <2>1, <2>4, OpenKeeps
  <2>5. QED BY <2>1, <2>2, <2>3, <2>4, PreflightWrites DEF PreflightStep, BootsTo
<1>5. CASE LoadEncryption
  <2>1. encryption.host \in {None, h} /\ keyring \in {None, h}
    BY <1>3 DEF OwnOK
  <2>2. encryption.host # None => EncryptionStatus(encryption) = "ready"
    BY DEF EncryptionOK, EncryptionStatus
  <2>3. QED BY <1>2, <1>5, <2>1, <2>2, DaemonKeys DEF BootsTo
<1>6. QED BY <1>4, <1>5

\* Evidence a reset bound can be replaced.
LEMMA EvidenceIsReplaceable ==
  ASSUME TypeOK, PlacesOK, LinuxSigning, MacSigning, signing.reset = None, Phase \notin ReplacedPhases,
           SigningStatus(signing) # "absent"
  PROVE  EvidenceIsExact(signing) /\ EvidenceIsExact(AfterLoad(signing))
<1>1. platform \in {"linux", "darwin"}
  BY Kinds
<1>2. EvidenceIsExact(signing)
  BY <1>1 DEF LinuxSigning, MacSigning, Steady, EvidenceIsExact, SigningStatus
<1>3. CASE SigningStatus(signing) = "ready"
  <2>1. PICK s : s = AfterLoad(signing)
    OBVIOUS
  <2>2. s.meta = signing.meta /\ s.index = signing.index /\ s.creating = None /\ signing.meta # None
    BY <1>3, <2>1, Kinds DEF AfterLoad, SigningStore, SigningStatus
  <2>3. QED BY <1>2, <2>1, <2>2 DEF EvidenceIsExact
<1>4. QED BY <1>2, <1>3 DEF AfterLoad

\* A replaced identity is found ready.
LEMMA ReplacementIsReady ==
  ASSUME TypeOK, Done, Phase \in ReplacedPhases
  PROVE  Replaced
  BY Kinds DEF Done, Replaced, SigningStatus

\* The replaced key is found ready.
LEMMA ReplacementKeyIsReady ==
  ASSUME TypeOK, Done, EncryptionOK, Phase \in AfterEncryption
  PROVE  KeyIsReplaced /\ encryption.host = journal.new
  BY NoneIsNothing, Kinds DEF Done, EncryptionOK, KeyIsReplaced, EncryptionStatus, ReplacedPhases

\* A resumption recognises its own replacement.
LEMMA ReplacementIsRecognised ==
  ASSUME TypeOK, PlacesOK, LinuxSigning, MacSigning, Bound, AdoptOrReplaceSigningIdentity
  PROVE  ~Leaves("evidence")
<1>1. /\ journal # None /\ Phase = "signing-replacement-pending" /\ journal.phase = Phase
  BY DEF AdoptOrReplaceSigningIdentity, At, PlacesOK, Phase
<1>2. SUFFICES ASSUME ~Proven, Foreign \/ CleanupChanged \/ signing.reset # None
               PROVE  FALSE
  BY <1>1, AdoptingOrReplacing DEF Leaves, MovesTo
<1>3. signing.reset = None /\ signing.op = NoOp
  BY <1>1, <1>2, Kinds DEF Proven, LinuxSigning, MacSigning
<1>4. Candidate = None /\ Phase \in BoundPhases /\ Phase \notin ReplacedPhases
  BY <1>1, <1>3 DEF Candidate, BoundPhases, ReplacedPhases, AfterEncryption, AfterClearing, AfterConfig
<1>5. ~Foreign
  BY <1>4 DEF Foreign, Bound, SigningStatus
<1>6. ~CleanupChanged
  <2>1. CASE journal.cleanup = None
    BY <2>1 DEF CleanupChanged
  <2>2. CASE journal.cleanup # None
    <3>1. SigningStatus(signing) # "absent" /\ journal.cleanup = Evidence(signing)
      BY <1>4, <2>2 DEF Bound
    <3>2. EvidenceIsExact(signing)
      BY <1>3, <1>4, <3>1, EvidenceIsReplaceable
    <3>3. QED BY <3>1, <3>2 DEF CleanupChanged
  <2>3. QED BY <2>1, <2>2
<1>7. QED BY <1>2, <1>3, <1>5, <1>6

-----------------------------------------------------------------------------
(* The replacement of identities                                           *)

\* A replacement begins with the bound evidence.
LEMMA ReplacingBegins ==
  ASSUME TypeOK, PlacesOK, Replacing, Bound, LinuxSigning, MacSigning, AdoptOrReplaceSigningIdentity
  PROVE  Replacing'
<1>1. journal # None /\ Phase = "signing-replacement-pending" /\ UNCHANGED journal
  BY DEF AdoptOrReplaceSigningIdentity, At, PlacesOK, Phase
<1>2. CASE UNCHANGED signing /\ cli'.at \in {"idle", "sign-item", "sign-commit"} /\
             (platform = "darwin" => cli'.at # "sign-commit")
  BY <1>1, <1>2, Kinds DEF Replacing, Phase, Chosen, LinuxSigning
<1>3. CASE platform = "linux" /\ signing.reset = None /\ signing'.reset = signing.reset
  BY <1>3 DEF Replacing
<1>4. CASE /\ ~Proven /\ signing.reset = None
           /\ Forgotten # {} /\ platform = "darwin"
           /\ signing'.reset # None
           /\ signing'.reset.op = journal.op /\ signing'.reset.candidate = FreshHost
           /\ signing'.reset.previous = Cleanup.previous /\ signing'.reset.interrupted = Cleanup.interrupted
           /\ SetsSentinel(signing.op, signing'.reset) /\ MovesTo("sign-item")
  <2>1. Candidate = None /\ Steady
    BY <1>1, <1>4 DEF Candidate, MacSigning, ReplacedPhases, AfterEncryption, AfterClearing, AfterConfig
  <2>2. /\ Cleanup.previous = signing.meta /\ Cleanup.interrupted = signing.creating
        /\ journal.old = (IF signing.meta # None THEN signing.meta ELSE signing.creating)
        /\ ~journal.unreadable => signing.meta # None
    BY <1>1, <1>4, <2>1, BoundEvidence DEF BoundPhases
  <2>3. /\ signing.items \subseteq {journal.old} \ {None}
        /\ {signing.meta, signing.creating} \subseteq {None, journal.old}
    <3>1. signing.items \subseteq Hosts
      BY Kinds DEF SigningStore
    <3>2. QED BY <2>1, <2>2, <3>1, NoneIsNothing DEF Steady
  <2>4. FreshHost # journal.old /\ FreshHost # None
    BY <1>1, <1>4, FreshHosts
  <2>5. cli'.at = "sign-item" /\ signing'.items = signing.items /\ signing'.meta = signing.meta /\
          signing'.creating = signing.creating
    BY <1>4 DEF SetsSentinel, MovesTo
  <2>6. QED BY <1>1, <1>4, <2>2, <2>3, <2>4, <2>5 DEF Replacing, Chosen
<1>5. QED BY <1>1, <1>2, <1>3, <1>4, AdoptingOrReplacing, Kinds DEF MovesTo, Leaves, SetsMeta

\* A binding holds what the store holds.
LEMMA BindingHolds ==
  ASSUME TypeOK, PlacesOK, LinuxSigning, InspectAndBindOldDomain
  PROVE  Bound'
<1>1. journal # None /\ Phase = "quarantined"
  BY DEF InspectAndBindOldDomain, At, PlacesOK, Phase
<1>2. CASE UNCHANGED journal
  <2>1. Phase' = "quarantined"
    BY <1>1, <1>2 DEF Phase
  <2>2. QED BY <2>1 DEF Bound, BoundPhases
<1>3. CASE Binds(AfterLoad(signing))
  <2>1. UNCHANGED platform /\ signing' = AfterLoad(signing)
    BY <1>1, Binding DEF counters
  <2>2. SetsCreating(IF SigningStatus(signing) = "ready" THEN None ELSE signing.creating)
    BY <2>1, Loading
  <2>3. SigningStatus(signing)' = SigningStatus(signing)
    BY <2>1, <2>2 DEF SigningStatus, SetsCreating
  <2>4. Evidence(AfterLoad(signing)) = Evidence(signing)'
    BY <2>1 DEF Evidence
  <2>5. SigningStatus(signing)' = "absent" => signing'.meta = None /\ signing'.creating = None
    BY DEF SigningStatus
  <2>6. SigningStatus(signing)' = "ready" => signing'.creating = None
    BY <2>2, <2>3 DEF SetsCreating
  <2>7. Evidence(signing)'.old = IF signing'.meta # None THEN signing'.meta ELSE signing'.creating
    BY DEF Evidence
  <2>8. QED BY <1>3, <2>1, <2>3, <2>4, <2>5, <2>6, <2>7 DEF Binds, Bound
<1>4. QED BY <1>1, <1>2, <1>3, Binding

\* A key replacement begins with the bound key.
LEMMA KeyReplacementBegins ==
  ASSUME TypeOK, PlacesOK, LocksOK, Done, EncReset, EncryptionOK, ReplaceEncryptionIdentity
  PROVE  EncReset' /\ EncryptionOK'
<1>1. /\ cli.at = "enc" /\ Phase = "signing-identity-replaced" /\ Phase' = Phase /\ journal # None /\
           journal.new # None
      /\ UNCHANGED <<boot, journal, platform>> /\ KeysAreLeft
  BY DEF ReplaceEncryptionIdentity, PlacesOK, EncPlaces, Done, ReplacedPhases, Phase, counters
<1>2. /\ journal.oldKey \in KeyIds \cup {0} /\ 0 \notin KeyIds /\ None \notin Hosts
      /\ platform \in {"linux", "darwin"} /\ encryption \in EncryptionStore
  BY <1>1, Kinds, NoneIsNothing DEF Journals, KeyIds
<1>3. boot.at # "encrypt-record"
  BY <1>1 DEF LocksOK, Working, EncPlaces
<1>4. FreshEncryptionKey \in KeyIds /\ FreshEncryptionKey \notin encryption.items /\
        FreshEncryptionKey # encryption.key
  BY <1>1, FreshKeyLemma
<1>5. CASE encryption.reset # None /\ MovesTo("enc-item") /\ UNCHANGED encryption
  BY <1>1, <1>3, <1>5 DEF EncReset, EncryptionOK, MovesTo, BoundPhases, AfterEncryption, AfterClearing,
      AfterConfig, ClearPlaces
<1>6. CASE encryption.reset = None /\ KeyIsReplaced /\ MovesTo("enc-commit") /\ UNCHANGED encryption
  <2>1. platform = "linux" /\ encryption.key # journal.oldKey /\ journal.oldKey \notin encryption.items /\
          encryption.host = journal.new
    BY <1>1, <1>6 DEF KeyIsReplaced, EncryptionOK
  <2>2. QED BY <1>1, <1>3, <1>6, <2>1 DEF EncReset, EncryptionOK, MovesTo, BoundPhases, AfterEncryption,
               AfterClearing, AfterConfig, ClearPlaces
<1>7. CASE encryption.reset = None /\ ~KeyIsReplaced
  <2>1. journal.oldKey \in {0, encryption.key}
    <3>1. encryption.host = journal.new => platform = "linux" /\ EncryptionStatus(encryption) = "ready"
      BY <1>1, <1>7 DEF EncryptionOK, EncryptionStatus
    <3>2. QED BY <1>1, <1>7, <3>1 DEF EncryptionOK, KeyIsReplaced
  <2>2. CASE platform = "linux" /\ Records(journal.new, FreshEncryptionKey) /\ MovesTo("enc-commit")
    <3>1. FreshEncryptionKey # 0 /\ FreshEncryptionKey # journal.oldKey /\ journal.oldKey \notin encryption.items
      BY <1>2, <1>4, <2>1, <2>2 DEF EncryptionOK
    <3>2. QED BY <1>1, <1>3, <1>7, <2>2, <3>1 DEF Records, EncReset, EncryptionOK, MovesTo, BoundPhases,
                 AfterEncryption, AfterClearing, AfterConfig, EncPlaces, ClearPlaces
  <2>3. CASE /\ platform = "darwin" /\ MovesTo("enc-item")
             /\ SetsKeySentinel(encryption'.reset) /\ encryption'.reset # None
             /\ encryption'.reset.op = journal.op /\ encryption'.reset.host = journal.new
             /\ encryption'.reset.key = FreshEncryptionKey /\ encryption'.reset.previous = {encryption.key} \ {0}
    <3>1. EncReset'
      <4>1. journal.oldKey \in {0} \cup encryption'.reset.previous
        BY <2>1, <2>3
      <4>2. encryption'.reset.key \notin encryption'.reset.previous
        BY <1>4, <2>3
      <4>3. encryption'.key \in encryption'.reset.previous \cup {0, encryption'.reset.key}
        BY <2>3 DEF SetsKeySentinel
      <4>4. QED BY <1>1, <2>3, <4>1, <4>2, <4>3 DEF EncReset
    <3>2. EncryptionOK'
      BY <1>1, <1>3, <1>7, <2>3 DEF SetsKeySentinel, EncryptionOK, MovesTo, BoundPhases, AfterEncryption,
          AfterClearing, AfterConfig, EncPlaces, ClearPlaces
    <3>3. QED BY <3>1, <3>2
  <2>4. QED BY <1>1, <1>7, <2>2, <2>3, ReplacingKey
<1>8. QED BY <1>1, <1>5, <1>6, <1>7, ReplacingKey

-----------------------------------------------------------------------------
(* All steps                                                               *)

\* The steps of the system.
LEMMA Steps ==
  ASSUME [Next]_vars
  PROVE  UNCHANGED vars \/ SpawnDaemon \/ StartService \/ GuardStart \/ AcquireRuntimeLock \/
           ValidateIdentity \/ (RuntimeStep /\ PreflightRuntime) \/ (RuntimeStep /\ BeginResetKey) \/
           (RuntimeStep /\ BeginRuntimeReset) \/ (RuntimeStep /\ ReplaceSpool) \/
           (RuntimeStep /\ ReplaceState) \/ (RuntimeStep /\ RemoveResetIntent) \/
           (RuntimeStep /\ BeginRuntimeMigration) \/ (RuntimeStep /\ MigrateSpool) \/
           (RuntimeStep /\ MigrateState) \/ (RuntimeStep /\ MigrateFloor) \/
           (RuntimeStep /\ RemoveMigrationIntent) \/ (RuntimeStep /\ EstablishFloor) \/
           (RuntimeStep /\ OpenSpool) \/ (RuntimeStep /\ Work) \/ LoadEncryption \/ RecordEncryption \/ Serve \/
           StopDaemon \/ CrashDaemon \/ CrashCli \/ Initialize \/ CreateSigningIdentity \/ SaveInitialConfig \/
           InitialEncryption \/ (SigningWrite /\ CreateFirstRunItem) \/ (SigningWrite /\ CreateFirstRunIndex) \/
           (SigningWrite /\ CreateFirstRunMetadata) \/ (SigningWrite /\ CreateFirstRunRollback) \/
           (SigningWrite /\ DeleteCreationSentinel) \/ (SigningWrite /\ WriteCandidateItem) \/
           (SigningWrite /\ WriteIndexItem) \/ (SigningWrite /\ WriteProfileMetadata) \/
           (SigningWrite /\ DeletePreviousItem) \/ (SigningWrite /\ DeleteInterruptedItem) \/
           (SigningWrite /\ ClearCreationSentinel) \/ CreateJournal \/ ResumeReset \/ StopAndConfirm \/
           AcquireRuntimeOwnership \/ InspectAndBindOldDomain \/ PersistRevokeIntent \/ RevokeOldIdentity \/
           PersistSigningReplacementIntent \/ AdoptOrReplaceSigningIdentity \/ CommitSigning \/
           FinalizeSigning \/ ReplaceEncryptionIdentity \/ (EncryptionWrite /\ WriteEncryptionItem) \/
           (EncryptionWrite /\ WriteEncryptionMetadata) \/ (EncryptionWrite /\ DeletePreviousEncryptionItems) \/
           CommitEncryption \/ FinalizeEncryption \/ ClearArtifacts \/ ClearSpoolKey \/ CommitCleared \/
           PersistConfig \/ EnrollNewIdentity \/ SyncServiceMetadata \/ PersistServiceRestoreIntent \/
           VerifyReplacement \/ RestoreService \/ ConfirmAndRemoveJournal
  BY DEF Next, Daemon, Setup, Reset, RuntimeStep, PreflightStep, SigningWrite, SigningStep, EncryptionWrite,
      EncryptionStep

\* The variables each of them leaves alone.
LEMMA Changes ==
  ASSUME [Next]_vars
  PROVE  /\ UNCHANGED platform
         /\ UNCHANGED disk \/ (RuntimeStep /\ BeginResetKey) \/ (RuntimeStep /\ BeginRuntimeReset) \/
              (RuntimeStep /\ ReplaceSpool) \/ (RuntimeStep /\ ReplaceState) \/
              (RuntimeStep /\ RemoveResetIntent) \/ (RuntimeStep /\ BeginRuntimeMigration) \/
              (RuntimeStep /\ MigrateSpool) \/ (RuntimeStep /\ MigrateState) \/ (RuntimeStep /\ MigrateFloor) \/
              (RuntimeStep /\ RemoveMigrationIntent) \/ (RuntimeStep /\ EstablishFloor) \/
              (RuntimeStep /\ Work) \/ ClearArtifacts \/ ClearSpoolKey
         /\ UNCHANGED boot \/ SpawnDaemon \/ GuardStart \/ AcquireRuntimeLock \/ ValidateIdentity \/
              (RuntimeStep /\ PreflightRuntime) \/ (RuntimeStep /\ BeginResetKey) \/
              (RuntimeStep /\ BeginRuntimeReset) \/ (RuntimeStep /\ ReplaceSpool) \/
              (RuntimeStep /\ ReplaceState) \/ (RuntimeStep /\ RemoveResetIntent) \/
              (RuntimeStep /\ BeginRuntimeMigration) \/ (RuntimeStep /\ MigrateSpool) \/
              (RuntimeStep /\ MigrateState) \/ (RuntimeStep /\ MigrateFloor) \/
              (RuntimeStep /\ RemoveMigrationIntent) \/ (RuntimeStep /\ EstablishFloor) \/
              (RuntimeStep /\ OpenSpool) \/ LoadEncryption \/ RecordEncryption \/ StopDaemon \/ CrashDaemon \/
              StopAndConfirm \/ RestoreService
         /\ UNCHANGED signing \/ ValidateIdentity \/ CreateSigningIdentity \/
              (SigningWrite /\ CreateFirstRunItem) \/ (SigningWrite /\ CreateFirstRunIndex) \/
              (SigningWrite /\ CreateFirstRunMetadata) \/ (SigningWrite /\ CreateFirstRunRollback) \/
              (SigningWrite /\ DeleteCreationSentinel) \/ (SigningWrite /\ WriteCandidateItem) \/
              (SigningWrite /\ WriteIndexItem) \/ (SigningWrite /\ WriteProfileMetadata) \/
              (SigningWrite /\ DeletePreviousItem) \/ (SigningWrite /\ DeleteInterruptedItem) \/
              (SigningWrite /\ ClearCreationSentinel) \/ InspectAndBindOldDomain \/
              AdoptOrReplaceSigningIdentity \/ FinalizeSigning
         /\ UNCHANGED encryption \/ LoadEncryption \/ RecordEncryption \/ InitialEncryption \/
              ReplaceEncryptionIdentity \/ (EncryptionWrite /\ WriteEncryptionItem) \/
              (EncryptionWrite /\ WriteEncryptionMetadata) \/
              (EncryptionWrite /\ DeletePreviousEncryptionItems) \/ FinalizeEncryption
         /\ UNCHANGED cli \/ CrashCli \/ Initialize \/ CreateSigningIdentity \/ SaveInitialConfig \/
              InitialEncryption \/ (SigningWrite /\ CreateFirstRunItem) \/
              (SigningWrite /\ CreateFirstRunIndex) \/ (SigningWrite /\ CreateFirstRunMetadata) \/
              (SigningWrite /\ CreateFirstRunRollback) \/ (SigningWrite /\ DeleteCreationSentinel) \/
              (SigningWrite /\ WriteCandidateItem) \/ (SigningWrite /\ WriteIndexItem) \/
              (SigningWrite /\ WriteProfileMetadata) \/ (SigningWrite /\ DeletePreviousItem) \/
              (SigningWrite /\ DeleteInterruptedItem) \/ (SigningWrite /\ ClearCreationSentinel) \/
              CreateJournal \/ ResumeReset \/ StopAndConfirm \/ AcquireRuntimeOwnership \/
              InspectAndBindOldDomain \/ PersistRevokeIntent \/ RevokeOldIdentity \/
              PersistSigningReplacementIntent \/ AdoptOrReplaceSigningIdentity \/ CommitSigning \/
              FinalizeSigning \/ ReplaceEncryptionIdentity \/ (EncryptionWrite /\ WriteEncryptionItem) \/
              (EncryptionWrite /\ WriteEncryptionMetadata) \/
              (EncryptionWrite /\ DeletePreviousEncryptionItems) \/ CommitEncryption \/ FinalizeEncryption \/
              ClearArtifacts \/ ClearSpoolKey \/ CommitCleared \/ PersistConfig \/ EnrollNewIdentity \/
              SyncServiceMetadata \/ PersistServiceRestoreIntent \/ VerifyReplacement \/ RestoreService \/
              ConfirmAndRemoveJournal
         /\ UNCHANGED journal \/ CreateJournal \/ AcquireRuntimeOwnership \/ InspectAndBindOldDomain \/
              PersistRevokeIntent \/ RevokeOldIdentity \/ PersistSigningReplacementIntent \/ CommitSigning \/
              CommitEncryption \/ CommitCleared \/ PersistConfig \/ EnrollNewIdentity \/ SyncServiceMetadata \/
              PersistServiceRestoreIntent \/ ConfirmAndRemoveJournal
         /\ UNCHANGED config \/ SaveInitialConfig \/ PersistConfig
         /\ UNCHANGED keyring \/ Serve \/ ClearArtifacts
         /\ UNCHANGED relay \/ Serve \/ RevokeOldIdentity \/ EnrollNewIdentity
         /\ UNCHANGED service \/ StartService \/ StopAndConfirm \/ SyncServiceMetadata \/ RestoreService
         /\ UNCHANGED lock \/ AcquireRuntimeLock \/ ValidateIdentity \/ StopDaemon \/ CrashDaemon \/ CrashCli \/
              InitialEncryption \/ StopAndConfirm \/ AcquireRuntimeOwnership \/ InspectAndBindOldDomain \/
              RevokeOldIdentity \/ AdoptOrReplaceSigningIdentity \/ FinalizeSigning \/ FinalizeEncryption \/
              ClearSpoolKey \/ PersistConfig \/ EnrollNewIdentity \/ SyncServiceMetadata \/
              PersistServiceRestoreIntent \/ VerifyReplacement \/ RestoreService \/ ConfirmAndRemoveJournal
         /\ UNCHANGED warned \/ ConfirmAndRemoveJournal
         /\ UNCHANGED started \/ CreateJournal
         /\ UNCHANGED crashes \/ CrashDaemon \/ CrashCli
<1>SpawnDaemon. SpawnDaemon => UNCHANGED <<platform, disk, signing, encryption, cli, journal, config, keyring,
                  relay, service, lock, warned, started, crashes>>
  BY DEF SpawnDaemon, storeVars, outside, counters
<1>StartService. StartService => UNCHANGED <<platform, disk, boot, signing, encryption, cli, journal, config,
                   keyring, relay, lock, warned, started, crashes>>
  BY DEF StartService, storeVars, counters
<1>GuardStart. GuardStart => UNCHANGED <<platform, disk, signing, encryption, cli, journal, config, keyring,
                 relay, service, lock, warned, started, crashes>>
  BY DEF GuardStart, storeVars, outside, counters
<1>AcquireRuntimeLock. AcquireRuntimeLock => UNCHANGED <<platform, disk, signing, encryption, cli, journal,
                         config, keyring, relay, service, warned, started, crashes>>
  BY DEF AcquireRuntimeLock, storeVars, outside, counters
<1>ValidateIdentity. ValidateIdentity => UNCHANGED <<platform, disk, encryption, cli, journal, config, keyring,
                       relay, service, warned, started, crashes>>
  BY DEF ValidateIdentity, outside, counters
<1>PreflightRuntime. RuntimeStep /\ PreflightRuntime => UNCHANGED <<platform, disk, signing, encryption, cli,
                       journal, config, keyring, relay, service, lock, warned, started, crashes>>
  BY DEF PreflightRuntime, RuntimeStep, storeVars, outside, counters
<1>BeginResetKey. RuntimeStep /\ BeginResetKey => UNCHANGED <<platform, signing, encryption, cli, journal,
                    config, keyring, relay, service, lock, warned, started, crashes>>
  BY DEF BeginResetKey, RuntimeStep, storeVars, outside, counters
<1>BeginRuntimeReset. RuntimeStep /\ BeginRuntimeReset =>
                        UNCHANGED <<platform, signing, encryption, cli, journal, config, keyring, relay,
                        service, lock, warned, started, crashes>>
  BY DEF BeginRuntimeReset, RuntimeStep, storeVars, outside, counters
<1>ReplaceSpool. RuntimeStep /\ ReplaceSpool => UNCHANGED <<platform, signing, encryption, cli, journal, config,
                   keyring, relay, service, lock, warned, started, crashes>>
  BY DEF ReplaceSpool, RuntimeStep, storeVars, outside, counters
<1>ReplaceState. RuntimeStep /\ ReplaceState => UNCHANGED <<platform, signing, encryption, cli, journal, config,
                   keyring, relay, service, lock, warned, started, crashes>>
  BY DEF ReplaceState, RuntimeStep, storeVars, outside, counters
<1>RemoveResetIntent. RuntimeStep /\ RemoveResetIntent =>
                        UNCHANGED <<platform, signing, encryption, cli, journal, config, keyring, relay,
                        service, lock, warned, started, crashes>>
  BY DEF RemoveResetIntent, RuntimeStep, storeVars, outside, counters
<1>BeginRuntimeMigration. RuntimeStep /\ BeginRuntimeMigration =>
                            UNCHANGED <<platform, signing, encryption, cli, journal, config, keyring, relay,
                            service, lock, warned, started, crashes>>
  BY DEF BeginRuntimeMigration, RuntimeStep, storeVars, outside, counters
<1>MigrateSpool. RuntimeStep /\ MigrateSpool => UNCHANGED <<platform, signing, encryption, cli, journal, config,
                   keyring, relay, service, lock, warned, started, crashes>>
  BY DEF MigrateSpool, RuntimeStep, storeVars, outside, counters
<1>MigrateState. RuntimeStep /\ MigrateState => UNCHANGED <<platform, signing, encryption, cli, journal, config,
                   keyring, relay, service, lock, warned, started, crashes>>
  BY DEF MigrateState, RuntimeStep, storeVars, outside, counters
<1>MigrateFloor. RuntimeStep /\ MigrateFloor => UNCHANGED <<platform, signing, encryption, cli, journal, config,
                   keyring, relay, service, lock, warned, started, crashes>>
  BY DEF MigrateFloor, RuntimeStep, storeVars, outside, counters
<1>RemoveMigrationIntent. RuntimeStep /\ RemoveMigrationIntent =>
                            UNCHANGED <<platform, signing, encryption, cli, journal, config, keyring, relay,
                            service, lock, warned, started, crashes>>
  BY DEF RemoveMigrationIntent, RuntimeStep, storeVars, outside, counters
<1>EstablishFloor. RuntimeStep /\ EstablishFloor => UNCHANGED <<platform, signing, encryption, cli, journal,
                     config, keyring, relay, service, lock, warned, started, crashes>>
  BY DEF EstablishFloor, RuntimeStep, storeVars, outside, counters
<1>OpenSpool. RuntimeStep /\ OpenSpool => UNCHANGED <<platform, disk, signing, encryption, cli, journal, config,
                keyring, relay, service, lock, warned, started, crashes>>
  BY DEF OpenSpool, RuntimeStep, storeVars, outside, counters
<1>Work. RuntimeStep /\ Work => UNCHANGED <<platform, boot, signing, encryption, cli, journal, config, keyring,
           relay, service, lock, warned, started, crashes>>
  BY DEF Work, RuntimeStep, storeVars, outside, counters
<1>LoadEncryption. LoadEncryption => UNCHANGED <<platform, disk, signing, cli, journal, config, keyring, relay,
                     service, lock, warned, started, crashes>>
  BY DEF LoadEncryption, outside, counters
<1>RecordEncryption. RecordEncryption => UNCHANGED <<platform, disk, signing, cli, journal, config, keyring,
                       relay, service, lock, warned, started, crashes>>
  BY DEF RecordEncryption, outside, counters
<1>Serve. Serve => UNCHANGED <<platform, disk, boot, signing, encryption, cli, journal, config, service, lock,
            warned, started, crashes>>
  BY DEF Serve, storeVars, counters
<1>StopDaemon. StopDaemon => UNCHANGED <<platform, disk, signing, encryption, cli, journal, config, keyring,
                 relay, service, warned, started, crashes>>
  BY DEF StopDaemon, storeVars, outside, counters
<1>CrashDaemon. CrashDaemon => UNCHANGED <<platform, disk, signing, encryption, cli, journal, config, keyring,
                  relay, service, warned, started>>
  BY DEF CrashDaemon, storeVars, outside
<1>CrashCli. CrashCli => UNCHANGED <<platform, disk, boot, signing, encryption, journal, config, keyring, relay,
               service, warned, started>>
  BY DEF CrashCli, storeVars, outside
<1>Initialize. Initialize => UNCHANGED <<platform, disk, boot, signing, encryption, journal, config, keyring,
                 relay, service, lock, warned, started, crashes>>
  BY DEF Initialize, storeVars, outside, counters
<1>CreateSigningIdentity. CreateSigningIdentity => UNCHANGED <<platform, disk, boot, encryption, journal,
                            config, keyring, relay, service, lock, warned, started, crashes>>
  BY DEF CreateSigningIdentity, outside, counters
<1>SaveInitialConfig. SaveInitialConfig => UNCHANGED <<platform, disk, boot, signing, encryption, journal,
                        keyring, relay, service, lock, warned, started, crashes>>
  BY DEF SaveInitialConfig, storeVars, outside, counters
<1>InitialEncryption. InitialEncryption => UNCHANGED <<platform, disk, boot, signing, journal, config, keyring,
                        relay, service, warned, started, crashes>>
  BY DEF InitialEncryption, outside, counters
<1>CreateFirstRunItem. SigningWrite /\ CreateFirstRunItem =>
                         UNCHANGED <<platform, disk, boot, encryption, journal, config, keyring, relay, service,
                         lock, warned, started, crashes>>
  BY DEF CreateFirstRunItem, SigningWrite, outside, counters
<1>CreateFirstRunIndex. SigningWrite /\ CreateFirstRunIndex =>
                          UNCHANGED <<platform, disk, boot, encryption, journal, config, keyring, relay,
                          service, lock, warned, started, crashes>>
  BY DEF CreateFirstRunIndex, SigningWrite, outside, counters
<1>CreateFirstRunMetadata. SigningWrite /\ CreateFirstRunMetadata =>
                             UNCHANGED <<platform, disk, boot, encryption, journal, config, keyring, relay,
                             service, lock, warned, started, crashes>>
  BY DEF CreateFirstRunMetadata, SigningWrite, outside, counters
<1>CreateFirstRunRollback. SigningWrite /\ CreateFirstRunRollback =>
                             UNCHANGED <<platform, disk, boot, encryption, journal, config, keyring, relay,
                             service, lock, warned, started, crashes>>
  BY DEF CreateFirstRunRollback, SigningWrite, outside, counters
<1>DeleteCreationSentinel. SigningWrite /\ DeleteCreationSentinel =>
                             UNCHANGED <<platform, disk, boot, encryption, journal, config, keyring, relay,
                             service, lock, warned, started, crashes>>
  BY DEF DeleteCreationSentinel, SigningWrite, outside, counters
<1>WriteCandidateItem. SigningWrite /\ WriteCandidateItem =>
                         UNCHANGED <<platform, disk, boot, encryption, journal, config, keyring, relay, service,
                         lock, warned, started, crashes>>
  BY DEF WriteCandidateItem, SigningWrite, outside, counters
<1>WriteIndexItem. SigningWrite /\ WriteIndexItem => UNCHANGED <<platform, disk, boot, encryption, journal,
                     config, keyring, relay, service, lock, warned, started, crashes>>
  BY DEF WriteIndexItem, SigningWrite, outside, counters
<1>WriteProfileMetadata. SigningWrite /\ WriteProfileMetadata =>
                           UNCHANGED <<platform, disk, boot, encryption, journal, config, keyring, relay,
                           service, lock, warned, started, crashes>>
  BY DEF WriteProfileMetadata, SigningWrite, outside, counters
<1>DeletePreviousItem. SigningWrite /\ DeletePreviousItem =>
                         UNCHANGED <<platform, disk, boot, encryption, journal, config, keyring, relay, service,
                         lock, warned, started, crashes>>
  BY DEF DeletePreviousItem, SigningWrite, outside, counters
<1>DeleteInterruptedItem. SigningWrite /\ DeleteInterruptedItem =>
                            UNCHANGED <<platform, disk, boot, encryption, journal, config, keyring, relay,
                            service, lock, warned, started, crashes>>
  BY DEF DeleteInterruptedItem, SigningWrite, outside, counters
<1>ClearCreationSentinel. SigningWrite /\ ClearCreationSentinel =>
                            UNCHANGED <<platform, disk, boot, encryption, journal, config, keyring, relay,
                            service, lock, warned, started, crashes>>
  BY DEF ClearCreationSentinel, SigningWrite, outside, counters
<1>CreateJournal. CreateJournal => UNCHANGED <<platform, disk, boot, signing, encryption, config, keyring,
                    relay, service, lock, warned, crashes>>
  BY DEF CreateJournal, storeVars, outside
<1>ResumeReset. ResumeReset => UNCHANGED <<platform, disk, boot, signing, encryption, journal, config, keyring,
                  relay, service, lock, warned, started, crashes>>
  BY DEF ResumeReset, storeVars, outside, counters
<1>StopAndConfirm. StopAndConfirm => UNCHANGED <<platform, disk, signing, encryption, journal, config, keyring,
                     relay, warned, started, crashes>>
  BY DEF StopAndConfirm, storeVars, counters
<1>AcquireRuntimeOwnership. AcquireRuntimeOwnership => UNCHANGED <<platform, disk, boot, signing, encryption,
                              config, keyring, relay, service, warned, started, crashes>>
  BY DEF AcquireRuntimeOwnership, storeVars, outside, counters
<1>InspectAndBindOldDomain. InspectAndBindOldDomain => UNCHANGED <<platform, disk, boot, encryption, config,
                              keyring, relay, service, warned, started, crashes>>
  BY DEF InspectAndBindOldDomain, outside, counters
<1>PersistRevokeIntent. PersistRevokeIntent => UNCHANGED <<platform, disk, boot, signing, encryption, config,
                          keyring, relay, service, lock, warned, started, crashes>>
  BY DEF PersistRevokeIntent, storeVars, outside, counters
<1>RevokeOldIdentity. RevokeOldIdentity => UNCHANGED <<platform, disk, boot, signing, encryption, config,
                        keyring, service, warned, started, crashes>>
  BY DEF RevokeOldIdentity, storeVars, counters
<1>PersistSigningReplacementIntent. PersistSigningReplacementIntent =>
                                      UNCHANGED <<platform, disk, boot, signing, encryption, config, keyring,
                                      relay, service, lock, warned, started, crashes>>
  BY DEF PersistSigningReplacementIntent, storeVars, outside, counters
<1>AdoptOrReplaceSigningIdentity. AdoptOrReplaceSigningIdentity =>
                                    UNCHANGED <<platform, disk, boot, encryption, journal, config, keyring,
                                    relay, service, warned, started, crashes>>
  BY DEF AdoptOrReplaceSigningIdentity, outside, counters
<1>CommitSigning. CommitSigning => UNCHANGED <<platform, disk, boot, signing, encryption, config, keyring,
                    relay, service, lock, warned, started, crashes>>
  BY DEF CommitSigning, storeVars, outside, counters
<1>FinalizeSigning. FinalizeSigning => UNCHANGED <<platform, disk, boot, encryption, journal, config, keyring,
                      relay, service, warned, started, crashes>>
  BY DEF FinalizeSigning, storeVars, outside, counters, CompleteExplicitReset
<1>ReplaceEncryptionIdentity. ReplaceEncryptionIdentity =>
                                UNCHANGED <<platform, disk, boot, signing, journal, config, keyring, relay,
                                service, lock, warned, started, crashes>>
  BY DEF ReplaceEncryptionIdentity, outside, counters
<1>WriteEncryptionItem. EncryptionWrite /\ WriteEncryptionItem =>
                          UNCHANGED <<platform, disk, boot, signing, journal, config, keyring, relay, service,
                          lock, warned, started, crashes>>
  BY DEF WriteEncryptionItem, EncryptionWrite, outside, counters
<1>WriteEncryptionMetadata. EncryptionWrite /\ WriteEncryptionMetadata =>
                              UNCHANGED <<platform, disk, boot, signing, journal, config, keyring, relay,
                              service, lock, warned, started, crashes>>
  BY DEF WriteEncryptionMetadata, EncryptionWrite, outside, counters
<1>DeletePreviousEncryptionItems. EncryptionWrite /\ DeletePreviousEncryptionItems =>
                                    UNCHANGED <<platform, disk, boot, signing, journal, config, keyring, relay,
                                    service, lock, warned, started, crashes>>
  BY DEF DeletePreviousEncryptionItems, EncryptionWrite, outside, counters
<1>CommitEncryption. CommitEncryption => UNCHANGED <<platform, disk, boot, signing, encryption, config, keyring,
                       relay, service, lock, warned, started, crashes>>
  BY DEF CommitEncryption, storeVars, outside, counters
<1>FinalizeEncryption. FinalizeEncryption => UNCHANGED <<platform, disk, boot, signing, journal, config,
                         keyring, relay, service, warned, started, crashes>>
  BY DEF FinalizeEncryption, storeVars, outside, counters
<1>ClearArtifacts. ClearArtifacts => UNCHANGED <<platform, boot, signing, encryption, journal, config, relay,
                     service, lock, warned, started, crashes>>
  BY DEF ClearArtifacts, storeVars, outside, counters
<1>ClearSpoolKey. ClearSpoolKey => UNCHANGED <<platform, boot, signing, encryption, journal, config, keyring,
                    relay, service, warned, started, crashes>>
  BY DEF ClearSpoolKey, storeVars, outside, counters
<1>CommitCleared. CommitCleared => UNCHANGED <<platform, disk, boot, signing, encryption, config, keyring,
                    relay, service, lock, warned, started, crashes>>
  BY DEF CommitCleared, storeVars, outside, counters
<1>PersistConfig. PersistConfig => UNCHANGED <<platform, disk, boot, signing, encryption, keyring, relay,
                    service, warned, started, crashes>>
  BY DEF PersistConfig, storeVars, outside, counters
<1>EnrollNewIdentity. EnrollNewIdentity => UNCHANGED <<platform, disk, boot, signing, encryption, config,
                        keyring, service, warned, started, crashes>>
  BY DEF EnrollNewIdentity, storeVars, counters
<1>SyncServiceMetadata. SyncServiceMetadata => UNCHANGED <<platform, disk, boot, signing, encryption, config,
                          keyring, relay, warned, started, crashes>>
  BY DEF SyncServiceMetadata, storeVars, counters
<1>PersistServiceRestoreIntent. PersistServiceRestoreIntent =>
                                  UNCHANGED <<platform, disk, boot, signing, encryption, config, keyring, relay,
                                  service, warned, started, crashes>>
  BY DEF PersistServiceRestoreIntent, storeVars, outside, counters
<1>VerifyReplacement. VerifyReplacement => UNCHANGED <<platform, disk, boot, signing, encryption, journal,
                        config, keyring, relay, service, warned, started, crashes>>
  BY DEF VerifyReplacement, storeVars, outside, counters
<1>RestoreService. RestoreService => UNCHANGED <<platform, disk, signing, encryption, journal, config, keyring,
                     relay, warned, started, crashes>>
  BY DEF RestoreService, storeVars, counters
<1>ConfirmAndRemoveJournal. ConfirmAndRemoveJournal => UNCHANGED <<platform, disk, boot, signing, encryption,
                              config, keyring, relay, service, started, crashes>>
  BY DEF ConfirmAndRemoveJournal, storeVars, outside
<1>unchanged. UNCHANGED vars => UNCHANGED <<platform, disk, boot, signing, encryption, cli, journal, config,
                keyring, relay, service, lock, warned, started, crashes>>
  BY DEF vars
<1>platform. UNCHANGED platform
  BY Steps, <1>SpawnDaemon, <1>StartService, <1>GuardStart, <1>AcquireRuntimeLock, <1>ValidateIdentity,
      <1>PreflightRuntime, <1>BeginResetKey, <1>BeginRuntimeReset, <1>ReplaceSpool, <1>ReplaceState,
      <1>RemoveResetIntent, <1>BeginRuntimeMigration, <1>MigrateSpool, <1>MigrateState, <1>MigrateFloor,
      <1>RemoveMigrationIntent, <1>EstablishFloor, <1>OpenSpool, <1>Work, <1>LoadEncryption,
      <1>RecordEncryption, <1>Serve, <1>StopDaemon, <1>CrashDaemon, <1>CrashCli, <1>Initialize,
      <1>CreateSigningIdentity, <1>SaveInitialConfig, <1>InitialEncryption, <1>CreateFirstRunItem,
      <1>CreateFirstRunIndex, <1>CreateFirstRunMetadata, <1>CreateFirstRunRollback, <1>DeleteCreationSentinel,
      <1>WriteCandidateItem, <1>WriteIndexItem, <1>WriteProfileMetadata, <1>DeletePreviousItem,
      <1>DeleteInterruptedItem, <1>ClearCreationSentinel, <1>CreateJournal, <1>ResumeReset, <1>StopAndConfirm,
      <1>AcquireRuntimeOwnership, <1>InspectAndBindOldDomain, <1>PersistRevokeIntent, <1>RevokeOldIdentity,
      <1>PersistSigningReplacementIntent, <1>AdoptOrReplaceSigningIdentity, <1>CommitSigning,
      <1>FinalizeSigning, <1>ReplaceEncryptionIdentity, <1>WriteEncryptionItem, <1>WriteEncryptionMetadata,
      <1>DeletePreviousEncryptionItems, <1>CommitEncryption, <1>FinalizeEncryption, <1>ClearArtifacts,
      <1>ClearSpoolKey, <1>CommitCleared, <1>PersistConfig, <1>EnrollNewIdentity, <1>SyncServiceMetadata,
      <1>PersistServiceRestoreIntent, <1>VerifyReplacement, <1>RestoreService, <1>ConfirmAndRemoveJournal,
      <1>unchanged
<1>disk. UNCHANGED disk \/ (RuntimeStep /\ BeginResetKey) \/ (RuntimeStep /\ BeginRuntimeReset) \/
           (RuntimeStep /\ ReplaceSpool) \/ (RuntimeStep /\ ReplaceState) \/
           (RuntimeStep /\ RemoveResetIntent) \/ (RuntimeStep /\ BeginRuntimeMigration) \/
           (RuntimeStep /\ MigrateSpool) \/ (RuntimeStep /\ MigrateState) \/ (RuntimeStep /\ MigrateFloor) \/
           (RuntimeStep /\ RemoveMigrationIntent) \/ (RuntimeStep /\ EstablishFloor) \/ (RuntimeStep /\ Work) \/
           ClearArtifacts \/ ClearSpoolKey
  BY Steps, <1>SpawnDaemon, <1>StartService, <1>GuardStart, <1>AcquireRuntimeLock, <1>ValidateIdentity,
      <1>PreflightRuntime, <1>OpenSpool, <1>LoadEncryption, <1>RecordEncryption, <1>Serve, <1>StopDaemon,
      <1>CrashDaemon, <1>CrashCli, <1>Initialize, <1>CreateSigningIdentity, <1>SaveInitialConfig,
      <1>InitialEncryption, <1>CreateFirstRunItem, <1>CreateFirstRunIndex, <1>CreateFirstRunMetadata,
      <1>CreateFirstRunRollback, <1>DeleteCreationSentinel, <1>WriteCandidateItem, <1>WriteIndexItem,
      <1>WriteProfileMetadata, <1>DeletePreviousItem, <1>DeleteInterruptedItem, <1>ClearCreationSentinel,
      <1>CreateJournal, <1>ResumeReset, <1>StopAndConfirm, <1>AcquireRuntimeOwnership,
      <1>InspectAndBindOldDomain, <1>PersistRevokeIntent, <1>RevokeOldIdentity,
      <1>PersistSigningReplacementIntent, <1>AdoptOrReplaceSigningIdentity, <1>CommitSigning,
      <1>FinalizeSigning, <1>ReplaceEncryptionIdentity, <1>WriteEncryptionItem, <1>WriteEncryptionMetadata,
      <1>DeletePreviousEncryptionItems, <1>CommitEncryption, <1>FinalizeEncryption, <1>CommitCleared,
      <1>PersistConfig, <1>EnrollNewIdentity, <1>SyncServiceMetadata, <1>PersistServiceRestoreIntent,
      <1>VerifyReplacement, <1>RestoreService, <1>ConfirmAndRemoveJournal, <1>unchanged
<1>boot. UNCHANGED boot \/ SpawnDaemon \/ GuardStart \/ AcquireRuntimeLock \/ ValidateIdentity \/
           (RuntimeStep /\ PreflightRuntime) \/ (RuntimeStep /\ BeginResetKey) \/
           (RuntimeStep /\ BeginRuntimeReset) \/ (RuntimeStep /\ ReplaceSpool) \/
           (RuntimeStep /\ ReplaceState) \/ (RuntimeStep /\ RemoveResetIntent) \/
           (RuntimeStep /\ BeginRuntimeMigration) \/ (RuntimeStep /\ MigrateSpool) \/
           (RuntimeStep /\ MigrateState) \/ (RuntimeStep /\ MigrateFloor) \/
           (RuntimeStep /\ RemoveMigrationIntent) \/ (RuntimeStep /\ EstablishFloor) \/
           (RuntimeStep /\ OpenSpool) \/ LoadEncryption \/ RecordEncryption \/ StopDaemon \/ CrashDaemon \/
           StopAndConfirm \/ RestoreService
  BY Steps, <1>StartService, <1>Work, <1>Serve, <1>CrashCli, <1>Initialize, <1>CreateSigningIdentity,
      <1>SaveInitialConfig, <1>InitialEncryption, <1>CreateFirstRunItem, <1>CreateFirstRunIndex,
      <1>CreateFirstRunMetadata, <1>CreateFirstRunRollback, <1>DeleteCreationSentinel, <1>WriteCandidateItem,
      <1>WriteIndexItem, <1>WriteProfileMetadata, <1>DeletePreviousItem, <1>DeleteInterruptedItem,
      <1>ClearCreationSentinel, <1>CreateJournal, <1>ResumeReset, <1>AcquireRuntimeOwnership,
      <1>InspectAndBindOldDomain, <1>PersistRevokeIntent, <1>RevokeOldIdentity,
      <1>PersistSigningReplacementIntent, <1>AdoptOrReplaceSigningIdentity, <1>CommitSigning,
      <1>FinalizeSigning, <1>ReplaceEncryptionIdentity, <1>WriteEncryptionItem, <1>WriteEncryptionMetadata,
      <1>DeletePreviousEncryptionItems, <1>CommitEncryption, <1>FinalizeEncryption, <1>ClearArtifacts,
      <1>ClearSpoolKey, <1>CommitCleared, <1>PersistConfig, <1>EnrollNewIdentity, <1>SyncServiceMetadata,
      <1>PersistServiceRestoreIntent, <1>VerifyReplacement, <1>ConfirmAndRemoveJournal, <1>unchanged
<1>signing. UNCHANGED signing \/ ValidateIdentity \/ CreateSigningIdentity \/
              (SigningWrite /\ CreateFirstRunItem) \/ (SigningWrite /\ CreateFirstRunIndex) \/
              (SigningWrite /\ CreateFirstRunMetadata) \/ (SigningWrite /\ CreateFirstRunRollback) \/
              (SigningWrite /\ DeleteCreationSentinel) \/ (SigningWrite /\ WriteCandidateItem) \/
              (SigningWrite /\ WriteIndexItem) \/ (SigningWrite /\ WriteProfileMetadata) \/
              (SigningWrite /\ DeletePreviousItem) \/ (SigningWrite /\ DeleteInterruptedItem) \/
              (SigningWrite /\ ClearCreationSentinel) \/ InspectAndBindOldDomain \/
              AdoptOrReplaceSigningIdentity \/ FinalizeSigning
  BY Steps, <1>SpawnDaemon, <1>StartService, <1>GuardStart, <1>AcquireRuntimeLock, <1>PreflightRuntime,
      <1>BeginResetKey, <1>BeginRuntimeReset, <1>ReplaceSpool, <1>ReplaceState, <1>RemoveResetIntent,
      <1>BeginRuntimeMigration, <1>MigrateSpool, <1>MigrateState, <1>MigrateFloor, <1>RemoveMigrationIntent,
      <1>EstablishFloor, <1>OpenSpool, <1>Work, <1>LoadEncryption, <1>RecordEncryption, <1>Serve, <1>StopDaemon,
      <1>CrashDaemon, <1>CrashCli, <1>Initialize, <1>SaveInitialConfig, <1>InitialEncryption, <1>CreateJournal,
      <1>ResumeReset, <1>StopAndConfirm, <1>AcquireRuntimeOwnership, <1>PersistRevokeIntent,
      <1>RevokeOldIdentity, <1>PersistSigningReplacementIntent, <1>CommitSigning, <1>ReplaceEncryptionIdentity,
      <1>WriteEncryptionItem, <1>WriteEncryptionMetadata, <1>DeletePreviousEncryptionItems, <1>CommitEncryption,
      <1>FinalizeEncryption, <1>ClearArtifacts, <1>ClearSpoolKey, <1>CommitCleared, <1>PersistConfig,
      <1>EnrollNewIdentity, <1>SyncServiceMetadata, <1>PersistServiceRestoreIntent, <1>VerifyReplacement,
      <1>RestoreService, <1>ConfirmAndRemoveJournal, <1>unchanged
<1>encryption. UNCHANGED encryption \/ LoadEncryption \/ RecordEncryption \/ InitialEncryption \/
                 ReplaceEncryptionIdentity \/ (EncryptionWrite /\ WriteEncryptionItem) \/
                 (EncryptionWrite /\ WriteEncryptionMetadata) \/
                 (EncryptionWrite /\ DeletePreviousEncryptionItems) \/ FinalizeEncryption
  BY Steps, <1>SpawnDaemon, <1>StartService, <1>GuardStart, <1>AcquireRuntimeLock, <1>ValidateIdentity,
      <1>PreflightRuntime, <1>BeginResetKey, <1>BeginRuntimeReset, <1>ReplaceSpool, <1>ReplaceState,
      <1>RemoveResetIntent, <1>BeginRuntimeMigration, <1>MigrateSpool, <1>MigrateState, <1>MigrateFloor,
      <1>RemoveMigrationIntent, <1>EstablishFloor, <1>OpenSpool, <1>Work, <1>Serve, <1>StopDaemon,
      <1>CrashDaemon, <1>CrashCli, <1>Initialize, <1>CreateSigningIdentity, <1>SaveInitialConfig,
      <1>CreateFirstRunItem, <1>CreateFirstRunIndex, <1>CreateFirstRunMetadata, <1>CreateFirstRunRollback,
      <1>DeleteCreationSentinel, <1>WriteCandidateItem, <1>WriteIndexItem, <1>WriteProfileMetadata,
      <1>DeletePreviousItem, <1>DeleteInterruptedItem, <1>ClearCreationSentinel, <1>CreateJournal,
      <1>ResumeReset, <1>StopAndConfirm, <1>AcquireRuntimeOwnership, <1>InspectAndBindOldDomain,
      <1>PersistRevokeIntent, <1>RevokeOldIdentity, <1>PersistSigningReplacementIntent,
      <1>AdoptOrReplaceSigningIdentity, <1>CommitSigning, <1>FinalizeSigning, <1>CommitEncryption,
      <1>ClearArtifacts, <1>ClearSpoolKey, <1>CommitCleared, <1>PersistConfig, <1>EnrollNewIdentity,
      <1>SyncServiceMetadata, <1>PersistServiceRestoreIntent, <1>VerifyReplacement, <1>RestoreService,
      <1>ConfirmAndRemoveJournal, <1>unchanged
<1>cli. UNCHANGED cli \/ CrashCli \/ Initialize \/ CreateSigningIdentity \/ SaveInitialConfig \/
          InitialEncryption \/ (SigningWrite /\ CreateFirstRunItem) \/ (SigningWrite /\ CreateFirstRunIndex) \/
          (SigningWrite /\ CreateFirstRunMetadata) \/ (SigningWrite /\ CreateFirstRunRollback) \/
          (SigningWrite /\ DeleteCreationSentinel) \/ (SigningWrite /\ WriteCandidateItem) \/
          (SigningWrite /\ WriteIndexItem) \/ (SigningWrite /\ WriteProfileMetadata) \/
          (SigningWrite /\ DeletePreviousItem) \/ (SigningWrite /\ DeleteInterruptedItem) \/
          (SigningWrite /\ ClearCreationSentinel) \/ CreateJournal \/ ResumeReset \/ StopAndConfirm \/
          AcquireRuntimeOwnership \/ InspectAndBindOldDomain \/ PersistRevokeIntent \/ RevokeOldIdentity \/
          PersistSigningReplacementIntent \/ AdoptOrReplaceSigningIdentity \/ CommitSigning \/
          FinalizeSigning \/ ReplaceEncryptionIdentity \/ (EncryptionWrite /\ WriteEncryptionItem) \/
          (EncryptionWrite /\ WriteEncryptionMetadata) \/ (EncryptionWrite /\ DeletePreviousEncryptionItems) \/
          CommitEncryption \/ FinalizeEncryption \/ ClearArtifacts \/ ClearSpoolKey \/ CommitCleared \/
          PersistConfig \/ EnrollNewIdentity \/ SyncServiceMetadata \/ PersistServiceRestoreIntent \/
          VerifyReplacement \/ RestoreService \/ ConfirmAndRemoveJournal
  BY Steps, <1>SpawnDaemon, <1>StartService, <1>GuardStart, <1>AcquireRuntimeLock, <1>ValidateIdentity,
      <1>PreflightRuntime, <1>BeginResetKey, <1>BeginRuntimeReset, <1>ReplaceSpool, <1>ReplaceState,
      <1>RemoveResetIntent, <1>BeginRuntimeMigration, <1>MigrateSpool, <1>MigrateState, <1>MigrateFloor,
      <1>RemoveMigrationIntent, <1>EstablishFloor, <1>OpenSpool, <1>Work, <1>LoadEncryption,
      <1>RecordEncryption, <1>Serve, <1>StopDaemon, <1>CrashDaemon, <1>unchanged
<1>journal. UNCHANGED journal \/ CreateJournal \/ AcquireRuntimeOwnership \/ InspectAndBindOldDomain \/
              PersistRevokeIntent \/ RevokeOldIdentity \/ PersistSigningReplacementIntent \/ CommitSigning \/
              CommitEncryption \/ CommitCleared \/ PersistConfig \/ EnrollNewIdentity \/ SyncServiceMetadata \/
              PersistServiceRestoreIntent \/ ConfirmAndRemoveJournal
  BY Steps, <1>SpawnDaemon, <1>StartService, <1>GuardStart, <1>AcquireRuntimeLock, <1>ValidateIdentity,
      <1>PreflightRuntime, <1>BeginResetKey, <1>BeginRuntimeReset, <1>ReplaceSpool, <1>ReplaceState,
      <1>RemoveResetIntent, <1>BeginRuntimeMigration, <1>MigrateSpool, <1>MigrateState, <1>MigrateFloor,
      <1>RemoveMigrationIntent, <1>EstablishFloor, <1>OpenSpool, <1>Work, <1>LoadEncryption,
      <1>RecordEncryption, <1>Serve, <1>StopDaemon, <1>CrashDaemon, <1>CrashCli, <1>Initialize,
      <1>CreateSigningIdentity, <1>SaveInitialConfig, <1>InitialEncryption, <1>CreateFirstRunItem,
      <1>CreateFirstRunIndex, <1>CreateFirstRunMetadata, <1>CreateFirstRunRollback, <1>DeleteCreationSentinel,
      <1>WriteCandidateItem, <1>WriteIndexItem, <1>WriteProfileMetadata, <1>DeletePreviousItem,
      <1>DeleteInterruptedItem, <1>ClearCreationSentinel, <1>ResumeReset, <1>StopAndConfirm,
      <1>AdoptOrReplaceSigningIdentity, <1>FinalizeSigning, <1>ReplaceEncryptionIdentity,
      <1>WriteEncryptionItem, <1>WriteEncryptionMetadata, <1>DeletePreviousEncryptionItems,
      <1>FinalizeEncryption, <1>ClearArtifacts, <1>ClearSpoolKey, <1>VerifyReplacement, <1>RestoreService,
      <1>unchanged
<1>config. UNCHANGED config \/ SaveInitialConfig \/ PersistConfig
  BY Steps, <1>SpawnDaemon, <1>StartService, <1>GuardStart, <1>AcquireRuntimeLock, <1>ValidateIdentity,
      <1>PreflightRuntime, <1>BeginResetKey, <1>BeginRuntimeReset, <1>ReplaceSpool, <1>ReplaceState,
      <1>RemoveResetIntent, <1>BeginRuntimeMigration, <1>MigrateSpool, <1>MigrateState, <1>MigrateFloor,
      <1>RemoveMigrationIntent, <1>EstablishFloor, <1>OpenSpool, <1>Work, <1>LoadEncryption,
      <1>RecordEncryption, <1>Serve, <1>StopDaemon, <1>CrashDaemon, <1>CrashCli, <1>Initialize,
      <1>CreateSigningIdentity, <1>InitialEncryption, <1>CreateFirstRunItem, <1>CreateFirstRunIndex,
      <1>CreateFirstRunMetadata, <1>CreateFirstRunRollback, <1>DeleteCreationSentinel, <1>WriteCandidateItem,
      <1>WriteIndexItem, <1>WriteProfileMetadata, <1>DeletePreviousItem, <1>DeleteInterruptedItem,
      <1>ClearCreationSentinel, <1>CreateJournal, <1>ResumeReset, <1>StopAndConfirm, <1>AcquireRuntimeOwnership,
      <1>InspectAndBindOldDomain, <1>PersistRevokeIntent, <1>RevokeOldIdentity,
      <1>PersistSigningReplacementIntent, <1>AdoptOrReplaceSigningIdentity, <1>CommitSigning,
      <1>FinalizeSigning, <1>ReplaceEncryptionIdentity, <1>WriteEncryptionItem, <1>WriteEncryptionMetadata,
      <1>DeletePreviousEncryptionItems, <1>CommitEncryption, <1>FinalizeEncryption, <1>ClearArtifacts,
      <1>ClearSpoolKey, <1>CommitCleared, <1>EnrollNewIdentity, <1>SyncServiceMetadata,
      <1>PersistServiceRestoreIntent, <1>VerifyReplacement, <1>RestoreService, <1>ConfirmAndRemoveJournal,
      <1>unchanged
<1>keyring. UNCHANGED keyring \/ Serve \/ ClearArtifacts
  BY Steps, <1>SpawnDaemon, <1>StartService, <1>GuardStart, <1>AcquireRuntimeLock, <1>ValidateIdentity,
      <1>PreflightRuntime, <1>BeginResetKey, <1>BeginRuntimeReset, <1>ReplaceSpool, <1>ReplaceState,
      <1>RemoveResetIntent, <1>BeginRuntimeMigration, <1>MigrateSpool, <1>MigrateState, <1>MigrateFloor,
      <1>RemoveMigrationIntent, <1>EstablishFloor, <1>OpenSpool, <1>Work, <1>LoadEncryption,
      <1>RecordEncryption, <1>StopDaemon, <1>CrashDaemon, <1>CrashCli, <1>Initialize, <1>CreateSigningIdentity,
      <1>SaveInitialConfig, <1>InitialEncryption, <1>CreateFirstRunItem, <1>CreateFirstRunIndex,
      <1>CreateFirstRunMetadata, <1>CreateFirstRunRollback, <1>DeleteCreationSentinel, <1>WriteCandidateItem,
      <1>WriteIndexItem, <1>WriteProfileMetadata, <1>DeletePreviousItem, <1>DeleteInterruptedItem,
      <1>ClearCreationSentinel, <1>CreateJournal, <1>ResumeReset, <1>StopAndConfirm, <1>AcquireRuntimeOwnership,
      <1>InspectAndBindOldDomain, <1>PersistRevokeIntent, <1>RevokeOldIdentity,
      <1>PersistSigningReplacementIntent, <1>AdoptOrReplaceSigningIdentity, <1>CommitSigning,
      <1>FinalizeSigning, <1>ReplaceEncryptionIdentity, <1>WriteEncryptionItem, <1>WriteEncryptionMetadata,
      <1>DeletePreviousEncryptionItems, <1>CommitEncryption, <1>FinalizeEncryption, <1>ClearSpoolKey,
      <1>CommitCleared, <1>PersistConfig, <1>EnrollNewIdentity, <1>SyncServiceMetadata,
      <1>PersistServiceRestoreIntent, <1>VerifyReplacement, <1>RestoreService, <1>ConfirmAndRemoveJournal,
      <1>unchanged
<1>relay. UNCHANGED relay \/ Serve \/ RevokeOldIdentity \/ EnrollNewIdentity
  BY Steps, <1>SpawnDaemon, <1>StartService, <1>GuardStart, <1>AcquireRuntimeLock, <1>ValidateIdentity,
      <1>PreflightRuntime, <1>BeginResetKey, <1>BeginRuntimeReset, <1>ReplaceSpool, <1>ReplaceState,
      <1>RemoveResetIntent, <1>BeginRuntimeMigration, <1>MigrateSpool, <1>MigrateState, <1>MigrateFloor,
      <1>RemoveMigrationIntent, <1>EstablishFloor, <1>OpenSpool, <1>Work, <1>LoadEncryption,
      <1>RecordEncryption, <1>StopDaemon, <1>CrashDaemon, <1>CrashCli, <1>Initialize, <1>CreateSigningIdentity,
      <1>SaveInitialConfig, <1>InitialEncryption, <1>CreateFirstRunItem, <1>CreateFirstRunIndex,
      <1>CreateFirstRunMetadata, <1>CreateFirstRunRollback, <1>DeleteCreationSentinel, <1>WriteCandidateItem,
      <1>WriteIndexItem, <1>WriteProfileMetadata, <1>DeletePreviousItem, <1>DeleteInterruptedItem,
      <1>ClearCreationSentinel, <1>CreateJournal, <1>ResumeReset, <1>StopAndConfirm, <1>AcquireRuntimeOwnership,
      <1>InspectAndBindOldDomain, <1>PersistRevokeIntent, <1>PersistSigningReplacementIntent,
      <1>AdoptOrReplaceSigningIdentity, <1>CommitSigning, <1>FinalizeSigning, <1>ReplaceEncryptionIdentity,
      <1>WriteEncryptionItem, <1>WriteEncryptionMetadata, <1>DeletePreviousEncryptionItems, <1>CommitEncryption,
      <1>FinalizeEncryption, <1>ClearArtifacts, <1>ClearSpoolKey, <1>CommitCleared, <1>PersistConfig,
      <1>SyncServiceMetadata, <1>PersistServiceRestoreIntent, <1>VerifyReplacement, <1>RestoreService,
      <1>ConfirmAndRemoveJournal, <1>unchanged
<1>service. UNCHANGED service \/ StartService \/ StopAndConfirm \/ SyncServiceMetadata \/ RestoreService
  BY Steps, <1>SpawnDaemon, <1>GuardStart, <1>AcquireRuntimeLock, <1>ValidateIdentity, <1>PreflightRuntime,
      <1>BeginResetKey, <1>BeginRuntimeReset, <1>ReplaceSpool, <1>ReplaceState, <1>RemoveResetIntent,
      <1>BeginRuntimeMigration, <1>MigrateSpool, <1>MigrateState, <1>MigrateFloor, <1>RemoveMigrationIntent,
      <1>EstablishFloor, <1>OpenSpool, <1>Work, <1>LoadEncryption, <1>RecordEncryption, <1>Serve, <1>StopDaemon,
      <1>CrashDaemon, <1>CrashCli, <1>Initialize, <1>CreateSigningIdentity, <1>SaveInitialConfig,
      <1>InitialEncryption, <1>CreateFirstRunItem, <1>CreateFirstRunIndex, <1>CreateFirstRunMetadata,
      <1>CreateFirstRunRollback, <1>DeleteCreationSentinel, <1>WriteCandidateItem, <1>WriteIndexItem,
      <1>WriteProfileMetadata, <1>DeletePreviousItem, <1>DeleteInterruptedItem, <1>ClearCreationSentinel,
      <1>CreateJournal, <1>ResumeReset, <1>AcquireRuntimeOwnership, <1>InspectAndBindOldDomain,
      <1>PersistRevokeIntent, <1>RevokeOldIdentity, <1>PersistSigningReplacementIntent,
      <1>AdoptOrReplaceSigningIdentity, <1>CommitSigning, <1>FinalizeSigning, <1>ReplaceEncryptionIdentity,
      <1>WriteEncryptionItem, <1>WriteEncryptionMetadata, <1>DeletePreviousEncryptionItems, <1>CommitEncryption,
      <1>FinalizeEncryption, <1>ClearArtifacts, <1>ClearSpoolKey, <1>CommitCleared, <1>PersistConfig,
      <1>EnrollNewIdentity, <1>PersistServiceRestoreIntent, <1>VerifyReplacement, <1>ConfirmAndRemoveJournal,
      <1>unchanged
<1>lock. UNCHANGED lock \/ AcquireRuntimeLock \/ ValidateIdentity \/ StopDaemon \/ CrashDaemon \/ CrashCli \/
           InitialEncryption \/ StopAndConfirm \/ AcquireRuntimeOwnership \/ InspectAndBindOldDomain \/
           RevokeOldIdentity \/ AdoptOrReplaceSigningIdentity \/ FinalizeSigning \/ FinalizeEncryption \/
           ClearSpoolKey \/ PersistConfig \/ EnrollNewIdentity \/ SyncServiceMetadata \/
           PersistServiceRestoreIntent \/ VerifyReplacement \/ RestoreService \/ ConfirmAndRemoveJournal
  BY Steps, <1>SpawnDaemon, <1>StartService, <1>GuardStart, <1>PreflightRuntime, <1>BeginResetKey,
      <1>BeginRuntimeReset, <1>ReplaceSpool, <1>ReplaceState, <1>RemoveResetIntent, <1>BeginRuntimeMigration,
      <1>MigrateSpool, <1>MigrateState, <1>MigrateFloor, <1>RemoveMigrationIntent, <1>EstablishFloor,
      <1>OpenSpool, <1>Work, <1>LoadEncryption, <1>RecordEncryption, <1>Serve, <1>Initialize,
      <1>CreateSigningIdentity, <1>SaveInitialConfig, <1>CreateFirstRunItem, <1>CreateFirstRunIndex,
      <1>CreateFirstRunMetadata, <1>CreateFirstRunRollback, <1>DeleteCreationSentinel, <1>WriteCandidateItem,
      <1>WriteIndexItem, <1>WriteProfileMetadata, <1>DeletePreviousItem, <1>DeleteInterruptedItem,
      <1>ClearCreationSentinel, <1>CreateJournal, <1>ResumeReset, <1>PersistRevokeIntent,
      <1>PersistSigningReplacementIntent, <1>CommitSigning, <1>ReplaceEncryptionIdentity,
      <1>WriteEncryptionItem, <1>WriteEncryptionMetadata, <1>DeletePreviousEncryptionItems, <1>CommitEncryption,
      <1>ClearArtifacts, <1>CommitCleared, <1>unchanged
<1>warned. UNCHANGED warned \/ ConfirmAndRemoveJournal
  BY Steps, <1>SpawnDaemon, <1>StartService, <1>GuardStart, <1>AcquireRuntimeLock, <1>ValidateIdentity,
      <1>PreflightRuntime, <1>BeginResetKey, <1>BeginRuntimeReset, <1>ReplaceSpool, <1>ReplaceState,
      <1>RemoveResetIntent, <1>BeginRuntimeMigration, <1>MigrateSpool, <1>MigrateState, <1>MigrateFloor,
      <1>RemoveMigrationIntent, <1>EstablishFloor, <1>OpenSpool, <1>Work, <1>LoadEncryption,
      <1>RecordEncryption, <1>Serve, <1>StopDaemon, <1>CrashDaemon, <1>CrashCli, <1>Initialize,
      <1>CreateSigningIdentity, <1>SaveInitialConfig, <1>InitialEncryption, <1>CreateFirstRunItem,
      <1>CreateFirstRunIndex, <1>CreateFirstRunMetadata, <1>CreateFirstRunRollback, <1>DeleteCreationSentinel,
      <1>WriteCandidateItem, <1>WriteIndexItem, <1>WriteProfileMetadata, <1>DeletePreviousItem,
      <1>DeleteInterruptedItem, <1>ClearCreationSentinel, <1>CreateJournal, <1>ResumeReset, <1>StopAndConfirm,
      <1>AcquireRuntimeOwnership, <1>InspectAndBindOldDomain, <1>PersistRevokeIntent, <1>RevokeOldIdentity,
      <1>PersistSigningReplacementIntent, <1>AdoptOrReplaceSigningIdentity, <1>CommitSigning,
      <1>FinalizeSigning, <1>ReplaceEncryptionIdentity, <1>WriteEncryptionItem, <1>WriteEncryptionMetadata,
      <1>DeletePreviousEncryptionItems, <1>CommitEncryption, <1>FinalizeEncryption, <1>ClearArtifacts,
      <1>ClearSpoolKey, <1>CommitCleared, <1>PersistConfig, <1>EnrollNewIdentity, <1>SyncServiceMetadata,
      <1>PersistServiceRestoreIntent, <1>VerifyReplacement, <1>RestoreService, <1>unchanged
<1>started. UNCHANGED started \/ CreateJournal
  BY Steps, <1>SpawnDaemon, <1>StartService, <1>GuardStart, <1>AcquireRuntimeLock, <1>ValidateIdentity,
      <1>PreflightRuntime, <1>BeginResetKey, <1>BeginRuntimeReset, <1>ReplaceSpool, <1>ReplaceState,
      <1>RemoveResetIntent, <1>BeginRuntimeMigration, <1>MigrateSpool, <1>MigrateState, <1>MigrateFloor,
      <1>RemoveMigrationIntent, <1>EstablishFloor, <1>OpenSpool, <1>Work, <1>LoadEncryption,
      <1>RecordEncryption, <1>Serve, <1>StopDaemon, <1>CrashDaemon, <1>CrashCli, <1>Initialize,
      <1>CreateSigningIdentity, <1>SaveInitialConfig, <1>InitialEncryption, <1>CreateFirstRunItem,
      <1>CreateFirstRunIndex, <1>CreateFirstRunMetadata, <1>CreateFirstRunRollback, <1>DeleteCreationSentinel,
      <1>WriteCandidateItem, <1>WriteIndexItem, <1>WriteProfileMetadata, <1>DeletePreviousItem,
      <1>DeleteInterruptedItem, <1>ClearCreationSentinel, <1>ResumeReset, <1>StopAndConfirm,
      <1>AcquireRuntimeOwnership, <1>InspectAndBindOldDomain, <1>PersistRevokeIntent, <1>RevokeOldIdentity,
      <1>PersistSigningReplacementIntent, <1>AdoptOrReplaceSigningIdentity, <1>CommitSigning,
      <1>FinalizeSigning, <1>ReplaceEncryptionIdentity, <1>WriteEncryptionItem, <1>WriteEncryptionMetadata,
      <1>DeletePreviousEncryptionItems, <1>CommitEncryption, <1>FinalizeEncryption, <1>ClearArtifacts,
      <1>ClearSpoolKey, <1>CommitCleared, <1>PersistConfig, <1>EnrollNewIdentity, <1>SyncServiceMetadata,
      <1>PersistServiceRestoreIntent, <1>VerifyReplacement, <1>RestoreService, <1>ConfirmAndRemoveJournal,
      <1>unchanged
<1>crashes. UNCHANGED crashes \/ CrashDaemon \/ CrashCli
  BY Steps, <1>SpawnDaemon, <1>StartService, <1>GuardStart, <1>AcquireRuntimeLock, <1>ValidateIdentity,
      <1>PreflightRuntime, <1>BeginResetKey, <1>BeginRuntimeReset, <1>ReplaceSpool, <1>ReplaceState,
      <1>RemoveResetIntent, <1>BeginRuntimeMigration, <1>MigrateSpool, <1>MigrateState, <1>MigrateFloor,
      <1>RemoveMigrationIntent, <1>EstablishFloor, <1>OpenSpool, <1>Work, <1>LoadEncryption,
      <1>RecordEncryption, <1>Serve, <1>StopDaemon, <1>Initialize, <1>CreateSigningIdentity,
      <1>SaveInitialConfig, <1>InitialEncryption, <1>CreateFirstRunItem, <1>CreateFirstRunIndex,
      <1>CreateFirstRunMetadata, <1>CreateFirstRunRollback, <1>DeleteCreationSentinel, <1>WriteCandidateItem,
      <1>WriteIndexItem, <1>WriteProfileMetadata, <1>DeletePreviousItem, <1>DeleteInterruptedItem,
      <1>ClearCreationSentinel, <1>CreateJournal, <1>ResumeReset, <1>StopAndConfirm, <1>AcquireRuntimeOwnership,
      <1>InspectAndBindOldDomain, <1>PersistRevokeIntent, <1>RevokeOldIdentity,
      <1>PersistSigningReplacementIntent, <1>AdoptOrReplaceSigningIdentity, <1>CommitSigning,
      <1>FinalizeSigning, <1>ReplaceEncryptionIdentity, <1>WriteEncryptionItem, <1>WriteEncryptionMetadata,
      <1>DeletePreviousEncryptionItems, <1>CommitEncryption, <1>FinalizeEncryption, <1>ClearArtifacts,
      <1>ClearSpoolKey, <1>CommitCleared, <1>PersistConfig, <1>EnrollNewIdentity, <1>SyncServiceMetadata,
      <1>PersistServiceRestoreIntent, <1>VerifyReplacement, <1>RestoreService, <1>ConfirmAndRemoveJournal,
      <1>unchanged
<1> QED BY <1>platform, <1>disk, <1>boot, <1>signing, <1>encryption, <1>cli, <1>journal, <1>config, <1>keyring,
           <1>relay, <1>service, <1>lock, <1>warned, <1>started, <1>crashes
=============================================================================
