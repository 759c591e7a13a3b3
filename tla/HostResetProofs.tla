-------------------------- MODULE HostResetProofs ---------------------------
(***************************************************************************)
(* The host-domain reset, for any Hosts, keys, operations and deaths, on   *)
(* both platforms and from every shape a profile can have: a daemon that   *)
(* runs works with one Host, no enrolled Host is abandoned and its keys    *)
(* go, the reset is resumed wherever it was cut off, and the runtime files *)
(* are carried over.                                                       *)
(*                                                                         *)
(* Each part of the invariant is proved over all steps of the system: the  *)
(* steps that leave the variables alone of which it speaks, and the others *)
(* one by one, each from what HostResetInvariants says that it writes.     *)
(***************************************************************************)
EXTENDS HostResetInvariants

\* Every step keeps PlacesOK: the process stands where the journal lets it be.
LEMMA PlacesOKPreserved ==
  ASSUME TypeOK, PlacesOK, Done, [Next]_vars
  PROVE  PlacesOK'
<1>j. cli.at \in {"acquire", "run", "enc-commit", "clear-commit", "sign-commit"} => journal # None
  BY DEF PlacesOK, Phase, SignPlaces, EncPlaces, ClearPlaces
<1>b. InspectAndBindOldDomain \/ CommitSigning \/ AdoptOrReplaceSigningIdentity => journal # None
  BY DEF InspectAndBindOldDomain, CommitSigning, AdoptOrReplaceSigningIdentity, At, PlacesOK, SignPlaces, Phase
<1>CrashCli. CrashCli => PlacesOK'
  BY Leaving DEF CrashCli, Leaves, PlacesOK, Phase, InitPlaces, SignPlaces, EncPlaces, ClearPlaces
<1>Initialize. Initialize => PlacesOK'
  BY Moving, <1>j, PhaseList DEF Initialize, MovesTo, storeVars, PlacesOK, Phase, InitPlaces, SignPlaces,
      EncPlaces, ClearPlaces
<1>CreateSigningIdentity. CreateSigningIdentity => PlacesOK'
  BY FirstRun, FreshHosts DEF MovesTo, PlacesOK, Phase, InitPlaces, SignPlaces, EncPlaces, ClearPlaces
<1>SaveInitialConfig. SaveInitialConfig => PlacesOK'
  BY Moving, <1>j, PhaseList DEF SaveInitialConfig, MovesTo, storeVars, PlacesOK, Phase, InitPlaces, SignPlaces,
      EncPlaces, ClearPlaces
<1>InitialEncryption. InitialEncryption => PlacesOK'
  BY InitialKeys, FreshKeyLemma DEF MovesTo, Leaves, PlacesOK, Phase, InitPlaces, SignPlaces, EncPlaces,
      ClearPlaces
<1>CreateFirstRunItem. SigningWrite /\ CreateFirstRunItem => PlacesOK'
  BY SigningWrites DEF SigningWrite, MovesTo, SetsItems, PlacesOK, Phase, InitPlaces, SignPlaces, EncPlaces,
      ClearPlaces
<1>CreateFirstRunIndex. SigningWrite /\ CreateFirstRunIndex => PlacesOK'
  BY SigningWrites DEF SigningWrite, MovesTo, SetsItems, PlacesOK, Phase, InitPlaces, SignPlaces, EncPlaces,
      ClearPlaces
<1>CreateFirstRunMetadata. SigningWrite /\ CreateFirstRunMetadata => PlacesOK'
  BY SigningWrites DEF SigningWrite, MovesTo, SetsItems, PlacesOK, Phase, InitPlaces, SignPlaces, EncPlaces,
      ClearPlaces
<1>CreateFirstRunRollback. SigningWrite /\ CreateFirstRunRollback => PlacesOK'
  BY SigningWrites DEF SigningWrite, MovesTo, SetsItems, PlacesOK, Phase, InitPlaces, SignPlaces, EncPlaces,
      ClearPlaces
<1>DeleteCreationSentinel. SigningWrite /\ DeleteCreationSentinel => PlacesOK'
  BY SigningWrites DEF SigningWrite, MovesTo, SetsItems, PlacesOK, Phase, InitPlaces, SignPlaces, EncPlaces,
      ClearPlaces
<1>WriteCandidateItem. SigningWrite /\ WriteCandidateItem => PlacesOK'
  BY SigningWrites DEF SigningWrite, MovesTo, SetsItems, PlacesOK, Phase, InitPlaces, SignPlaces, EncPlaces,
      ClearPlaces
<1>WriteIndexItem. SigningWrite /\ WriteIndexItem => PlacesOK'
  BY SigningWrites DEF SigningWrite, MovesTo, SetsItems, PlacesOK, Phase, InitPlaces, SignPlaces, EncPlaces,
      ClearPlaces
<1>WriteProfileMetadata. SigningWrite /\ WriteProfileMetadata => PlacesOK'
  BY SigningWrites DEF SigningWrite, MovesTo, SetsItems, PlacesOK, Phase, InitPlaces, SignPlaces, EncPlaces,
      ClearPlaces
<1>DeletePreviousItem. SigningWrite /\ DeletePreviousItem => PlacesOK'
  BY SigningWrites DEF SigningWrite, MovesTo, SetsItems, PlacesOK, Phase, InitPlaces, SignPlaces, EncPlaces,
      ClearPlaces
<1>DeleteInterruptedItem. SigningWrite /\ DeleteInterruptedItem => PlacesOK'
  BY SigningWrites DEF SigningWrite, MovesTo, SetsItems, PlacesOK, Phase, InitPlaces, SignPlaces, EncPlaces,
      ClearPlaces
<1>ClearCreationSentinel. SigningWrite /\ ClearCreationSentinel => PlacesOK'
  BY SigningWrites DEF SigningWrite, MovesTo, SetsItems, PlacesOK, Phase, InitPlaces, SignPlaces, EncPlaces,
      ClearPlaces
<1>CreateJournal. CreateJournal => PlacesOK'
  BY Creating DEF CreateJournal, PlacesOK, InitPlaces, SignPlaces, EncPlaces, ClearPlaces
<1>ResumeReset. ResumeReset => PlacesOK'
  BY DEF ResumeReset, storeVars, PlacesOK, InitPlaces, SignPlaces, EncPlaces, ClearPlaces
<1>StopAndConfirm. StopAndConfirm => PlacesOK'
  BY Moving DEF StopAndConfirm, Die, Off, MovesTo, PlacesOK, Phase, InitPlaces, SignPlaces, EncPlaces,
      ClearPlaces
<1>AcquireRuntimeOwnership. AcquireRuntimeOwnership => PlacesOK'
  BY Moving, Leaving, Entering, <1>j, PhaseList DEF AcquireRuntimeOwnership, MovesTo, Leaves, Enters, storeVars,
      PlacesOK, Phase, InitPlaces, SignPlaces, EncPlaces, ClearPlaces
<1>InspectAndBindOldDomain. InspectAndBindOldDomain => PlacesOK'
  BY <1>b, Binding, Loading DEF SetsCreating, Binds, MovesTo, Leaves, PlacesOK, Phase, InitPlaces, SignPlaces,
      EncPlaces, ClearPlaces
<1>PersistRevokeIntent. PersistRevokeIntent => PlacesOK'
  BY Entering, <1>j, PhaseList DEF PersistRevokeIntent, At, MovesTo, Enters, PlacesOK, Phase
<1>RevokeOldIdentity. RevokeOldIdentity => PlacesOK'
  BY Leaving, Entering, <1>j, PhaseList DEF RevokeOldIdentity, At, MovesTo, Leaves, Enters, PlacesOK, Phase,
      InitPlaces, SignPlaces, EncPlaces, ClearPlaces
<1>PersistSigningReplacementIntent. PersistSigningReplacementIntent => PlacesOK'
  BY Entering, <1>j, PhaseList DEF PersistSigningReplacementIntent, At, MovesTo, Enters, PlacesOK, Phase
<1>AdoptOrReplaceSigningIdentity. AdoptOrReplaceSigningIdentity => PlacesOK'
  BY <1>b, AdoptingOrReplacing, FreshHosts DEF MovesTo, SetsMeta, SetsSentinel, Leaves, PlacesOK, Phase,
      InitPlaces, SignPlaces, EncPlaces, ClearPlaces, At, storeVars, outside, counters
<1>CommitSigning. CommitSigning => PlacesOK'
  BY Adopting DEF CommitSigning, MovesTo, PlacesOK, Phase, InitPlaces, SignPlaces, ClearPlaces
<1>FinalizeSigning. FinalizeSigning => PlacesOK'
  BY Completing DEF MovesTo, SetsSentinel, Leaves, PlacesOK, Phase, InitPlaces, SignPlaces, ClearPlaces
<1>ReplaceEncryptionIdentity. ReplaceEncryptionIdentity => PlacesOK'
  BY ReplacingKeyFrame DEF PlacesOK, InitPlaces, SignPlaces, ClearPlaces
<1>WriteEncryptionItem. EncryptionWrite /\ WriteEncryptionItem => PlacesOK'
  BY EncryptionWrites DEF EncryptionWrite, MovesTo, Gains, PlacesOK, Phase, InitPlaces, SignPlaces, EncPlaces,
      ClearPlaces
<1>WriteEncryptionMetadata. EncryptionWrite /\ WriteEncryptionMetadata => PlacesOK'
  BY EncryptionWrites DEF EncryptionWrite, MovesTo, Gains, PlacesOK, Phase, InitPlaces, SignPlaces, EncPlaces,
      ClearPlaces
<1>DeletePreviousEncryptionItems. EncryptionWrite /\ DeletePreviousEncryptionItems => PlacesOK'
  BY EncryptionWrites DEF EncryptionWrite, MovesTo, Gains, PlacesOK, Phase, InitPlaces, SignPlaces, EncPlaces,
      ClearPlaces
<1>CommitEncryption. CommitEncryption => PlacesOK'
  BY Entering, <1>j, PhaseList DEF CommitEncryption, MovesTo, Enters, storeVars, PlacesOK, Phase, InitPlaces,
      SignPlaces, EncPlaces
<1>FinalizeEncryption. FinalizeEncryption => PlacesOK'
  BY CompletingKey DEF KeyIsReplaced, MovesTo, SetsKeySentinel, Leaves, PlacesOK, Phase, InitPlaces, SignPlaces,
      EncPlaces
<1>ClearArtifacts. ClearArtifacts => PlacesOK'
  BY Clearing DEF SetsState, MovesTo, PlacesOK, Phase, InitPlaces, SignPlaces, EncPlaces, ClearPlaces
<1>ClearSpoolKey. ClearSpoolKey => PlacesOK'
  BY ClearingKey DEF MovesTo, Leaves, SetsKey, SetsItem, PlacesOK, Phase, InitPlaces, SignPlaces, EncPlaces,
      ClearPlaces
<1>CommitCleared. CommitCleared => PlacesOK'
  BY Entering, <1>j, PhaseList DEF CommitCleared, MovesTo, Enters, storeVars, PlacesOK, Phase, InitPlaces,
      SignPlaces, EncPlaces, ClearPlaces
<1>PersistConfig. PersistConfig => PlacesOK'
  BY Leaving, Entering, <1>j, PhaseList DEF PersistConfig, At, MovesTo, Leaves, Enters, storeVars, PlacesOK,
      Phase, InitPlaces, SignPlaces, EncPlaces, ClearPlaces
<1>EnrollNewIdentity. EnrollNewIdentity => PlacesOK'
  BY Leaving, Entering, <1>j, PhaseList DEF EnrollNewIdentity, At, MovesTo, Leaves, Enters, PlacesOK, Phase,
      InitPlaces, SignPlaces, EncPlaces, ClearPlaces
<1>SyncServiceMetadata. SyncServiceMetadata => PlacesOK'
  BY Leaving, Entering, <1>j, PhaseList DEF SyncServiceMetadata, At, MovesTo, Leaves, Enters, PlacesOK, Phase,
      InitPlaces, SignPlaces, EncPlaces, ClearPlaces
<1>PersistServiceRestoreIntent. PersistServiceRestoreIntent => PlacesOK'
  BY Leaving, Entering, <1>j, PhaseList DEF PersistServiceRestoreIntent, At, MovesTo, Leaves, Enters, storeVars,
      PlacesOK, Phase, InitPlaces, SignPlaces, EncPlaces, ClearPlaces
<1>VerifyReplacement. VerifyReplacement => PlacesOK'
  BY Moving, Leaving, <1>j, PhaseList DEF VerifyReplacement, At, MovesTo, Leaves, storeVars, PlacesOK, Phase,
      InitPlaces, SignPlaces, EncPlaces, ClearPlaces
<1>RestoreService. RestoreService => PlacesOK'
  BY Restoring DEF MovesTo, Leaves, PlacesOK, Phase, InitPlaces, SignPlaces, EncPlaces, ClearPlaces
<1>ConfirmAndRemoveJournal. ConfirmAndRemoveJournal => PlacesOK'
  BY Leaving DEF ConfirmAndRemoveJournal, Leaves, PlacesOK, Phase, InitPlaces, SignPlaces, EncPlaces,
      ClearPlaces
<1>unchanged. UNCHANGED <<cli, journal>> => PlacesOK'
  BY DEF Phase, PlacesOK
<1> QED BY <1>CrashCli, <1>Initialize, <1>CreateSigningIdentity, <1>SaveInitialConfig, <1>InitialEncryption,
           <1>CreateFirstRunItem, <1>CreateFirstRunIndex, <1>CreateFirstRunMetadata, <1>CreateFirstRunRollback,
           <1>DeleteCreationSentinel, <1>WriteCandidateItem, <1>WriteIndexItem, <1>WriteProfileMetadata,
           <1>DeletePreviousItem, <1>DeleteInterruptedItem, <1>ClearCreationSentinel, <1>CreateJournal,
           <1>ResumeReset, <1>StopAndConfirm, <1>AcquireRuntimeOwnership, <1>InspectAndBindOldDomain,
           <1>PersistRevokeIntent, <1>RevokeOldIdentity, <1>PersistSigningReplacementIntent,
           <1>AdoptOrReplaceSigningIdentity, <1>CommitSigning, <1>FinalizeSigning, <1>ReplaceEncryptionIdentity,
           <1>WriteEncryptionItem, <1>WriteEncryptionMetadata, <1>DeletePreviousEncryptionItems,
           <1>CommitEncryption, <1>FinalizeEncryption, <1>ClearArtifacts, <1>ClearSpoolKey, <1>CommitCleared,
           <1>PersistConfig, <1>EnrollNewIdentity, <1>SyncServiceMetadata, <1>PersistServiceRestoreIntent,
           <1>VerifyReplacement, <1>RestoreService, <1>ConfirmAndRemoveJournal, <1>unchanged, Changes

\* Every step keeps LocksOK: the runtime lock is with the process that works on the runtime.
LEMMA LocksOKPreserved ==
  ASSUME TypeOK, PlacesOK, LocksOK, Done, [Next]_vars
  PROVE  LocksOK'
<1>j. cli.at \in {"acquire", "run", "enc-commit", "clear-commit", "sign-commit"} => journal # None
  BY DEF PlacesOK, Phase, SignPlaces, EncPlaces, ClearPlaces
<1>b. InspectAndBindOldDomain \/ CommitSigning \/ AdoptOrReplaceSigningIdentity => journal # None
  BY DEF InspectAndBindOldDomain, CommitSigning, AdoptOrReplaceSigningIdentity, At, PlacesOK, SignPlaces, Phase
<1>p0. boot \in Boot /\ lock \in {"free", "cli", "daemon"}
  BY Kinds
<1>SpawnDaemon. SpawnDaemon => LocksOK'
  BY DEF SpawnDaemon, LocksOK
<1>GuardStart. GuardStart => LocksOK'
  BY DEF GuardStart, Off, LocksOK
<1>AcquireRuntimeLock. AcquireRuntimeLock => LocksOK'
  BY <1>p0, Booting DEF AcquireRuntimeLock, Die, Off, BootsTo, LocksOK
<1>ValidateIdentity. ValidateIdentity => LocksOK'
  BY Booting, Loading DEF ValidateIdentity, Die, Off, BootsTo, LocksOK
<1>PreflightRuntime. RuntimeStep /\ PreflightRuntime => LocksOK'
  BY Preflighting, Verdicts DEF RuntimeStep, LocksOK
<1>BeginResetKey. RuntimeStep /\ BeginResetKey => LocksOK'
  BY <1>p0, ResetKeyWrites DEF RuntimeStep, BootsTo, LocksOK
<1>BeginRuntimeReset. RuntimeStep /\ BeginRuntimeReset => LocksOK'
  BY PreflightWrites DEF RuntimeStep, SetsFloor, BootsTo, LocksOK
<1>ReplaceSpool. RuntimeStep /\ ReplaceSpool => LocksOK'
  BY PreflightWrites DEF RuntimeStep, SetsFloor, BootsTo, LocksOK
<1>ReplaceState. RuntimeStep /\ ReplaceState => LocksOK'
  BY PreflightWrites DEF RuntimeStep, SetsFloor, BootsTo, LocksOK
<1>RemoveResetIntent. RuntimeStep /\ RemoveResetIntent => LocksOK'
  BY PreflightWrites DEF RuntimeStep, SetsFloor, BootsTo, LocksOK
<1>BeginRuntimeMigration. RuntimeStep /\ BeginRuntimeMigration => LocksOK'
  BY PreflightWrites DEF RuntimeStep, SetsFloor, BootsTo, LocksOK
<1>MigrateSpool. RuntimeStep /\ MigrateSpool => LocksOK'
  BY PreflightWrites DEF RuntimeStep, SetsFloor, BootsTo, LocksOK
<1>MigrateState. RuntimeStep /\ MigrateState => LocksOK'
  BY PreflightWrites DEF RuntimeStep, SetsFloor, BootsTo, LocksOK
<1>MigrateFloor. RuntimeStep /\ MigrateFloor => LocksOK'
  BY PreflightWrites DEF RuntimeStep, SetsFloor, BootsTo, LocksOK
<1>RemoveMigrationIntent. RuntimeStep /\ RemoveMigrationIntent => LocksOK'
  BY PreflightWrites DEF RuntimeStep, SetsFloor, BootsTo, LocksOK
<1>EstablishFloor. RuntimeStep /\ EstablishFloor => LocksOK'
  BY PreflightWrites DEF RuntimeStep, SetsFloor, BootsTo, LocksOK
<1>OpenSpool. RuntimeStep /\ OpenSpool => LocksOK'
  BY Booting, <1>j, PhaseList DEF OpenSpool, RuntimeStep, BootsTo, LocksOK
<1>LoadEncryption. LoadEncryption => LocksOK'
  BY DaemonKeys DEF BootsTo, LocksOK
<1>RecordEncryption. RecordEncryption => LocksOK'
  BY <1>p0, Booting, PhaseList DEF RecordEncryption, BootsTo, LocksOK
<1>StopDaemon. StopDaemon => LocksOK'
  BY DEF StopDaemon, Die, Off, LocksOK
<1>CrashDaemon. CrashDaemon => LocksOK'
  BY DEF CrashDaemon, Die, Off, LocksOK
<1>CrashCli. CrashCli => LocksOK'
  BY Leaving, <1>j, PhaseList DEF CrashCli, Leaves, storeVars, outside, LocksOK, Working, SignPlaces, EncPlaces,
      ClearPlaces
<1>Initialize. Initialize => LocksOK'
  BY <1>p0, Moving DEF Initialize, MovesTo, counters, LocksOK, Working, SignPlaces, EncPlaces, ClearPlaces
<1>CreateSigningIdentity. CreateSigningIdentity => LocksOK'
  BY FirstRun, FreshHosts DEF MovesTo, SetsMeta, SetsCreating, LocksOK, Working, SignPlaces, EncPlaces,
      ClearPlaces
<1>SaveInitialConfig. SaveInitialConfig => LocksOK'
  BY <1>p0, Moving DEF SaveInitialConfig, MovesTo, counters, LocksOK, Working, SignPlaces, EncPlaces,
      ClearPlaces
<1>InitialEncryption. InitialEncryption => LocksOK'
  BY <1>p0, InitialKeys, FreshKeyLemma DEF MovesTo, Leaves, Gains, Records, LocksOK, Working, SignPlaces,
      EncPlaces, ClearPlaces
<1>CreateFirstRunItem. SigningWrite /\ CreateFirstRunItem => LocksOK'
  BY <1>p0, SigningWrites DEF SigningWrite, MovesTo, SetsCreating, LocksOK, Working, SignPlaces, EncPlaces,
      ClearPlaces
<1>CreateFirstRunIndex. SigningWrite /\ CreateFirstRunIndex => LocksOK'
  BY <1>p0, SigningWrites DEF SigningWrite, MovesTo, SetsCreating, LocksOK, Working, SignPlaces, EncPlaces,
      ClearPlaces
<1>CreateFirstRunMetadata. SigningWrite /\ CreateFirstRunMetadata => LocksOK'
  BY <1>p0, SigningWrites DEF SigningWrite, MovesTo, SetsCreating, LocksOK, Working, SignPlaces, EncPlaces,
      ClearPlaces
<1>CreateFirstRunRollback. SigningWrite /\ CreateFirstRunRollback => LocksOK'
  BY <1>p0, SigningWrites DEF SigningWrite, MovesTo, SetsCreating, LocksOK, Working, SignPlaces, EncPlaces,
      ClearPlaces
<1>DeleteCreationSentinel. SigningWrite /\ DeleteCreationSentinel => LocksOK'
  BY <1>p0, SigningWrites DEF SigningWrite, MovesTo, SetsCreating, LocksOK, Working, SignPlaces, EncPlaces,
      ClearPlaces
<1>WriteCandidateItem. SigningWrite /\ WriteCandidateItem => LocksOK'
  BY <1>p0, SigningWrites DEF SigningWrite, MovesTo, LocksOK, Working, SignPlaces
<1>WriteIndexItem. SigningWrite /\ WriteIndexItem => LocksOK'
  BY <1>p0, SigningWrites DEF SigningWrite, MovesTo, LocksOK, Working, SignPlaces
<1>WriteProfileMetadata. SigningWrite /\ WriteProfileMetadata => LocksOK'
  BY <1>p0, SigningWrites DEF SigningWrite, MovesTo, LocksOK, Working, SignPlaces
<1>DeletePreviousItem. SigningWrite /\ DeletePreviousItem => LocksOK'
  BY <1>p0, SigningWrites DEF SigningWrite, MovesTo, LocksOK, Working, SignPlaces
<1>DeleteInterruptedItem. SigningWrite /\ DeleteInterruptedItem => LocksOK'
  BY <1>p0, SigningWrites DEF SigningWrite, MovesTo, LocksOK, Working, SignPlaces
<1>ClearCreationSentinel. SigningWrite /\ ClearCreationSentinel => LocksOK'
  BY <1>p0, SigningWrites DEF SigningWrite, MovesTo, LocksOK, Working, SignPlaces
<1>CreateJournal. CreateJournal => LocksOK'
  BY DEF CreateJournal, LocksOK, Working, SignPlaces, EncPlaces, ClearPlaces
<1>ResumeReset. ResumeReset => LocksOK'
  BY PhaseList DEF ResumeReset, counters, LocksOK, Working, SignPlaces, EncPlaces, ClearPlaces
<1>StopAndConfirm. StopAndConfirm => LocksOK'
  BY Moving, <1>j, PhaseList DEF StopAndConfirm, Die, Off, MovesTo, storeVars, counters, LocksOK, Working,
      SignPlaces, EncPlaces, ClearPlaces
<1>AcquireRuntimeOwnership. AcquireRuntimeOwnership => LocksOK'
  BY <1>p0, Moving, Leaving, Entering, <1>j, PhaseList DEF AcquireRuntimeOwnership, MovesTo, Leaves, Enters,
      counters, LocksOK, Working, SignPlaces, EncPlaces, ClearPlaces
<1>InspectAndBindOldDomain. InspectAndBindOldDomain => LocksOK'
  BY <1>b, Binding DEF Binds, MovesTo, Leaves, LocksOK, Working, SignPlaces, EncPlaces, ClearPlaces
<1>PersistRevokeIntent. PersistRevokeIntent => LocksOK'
  BY <1>p0, Entering, <1>j, PhaseList DEF PersistRevokeIntent, At, MovesTo, LocksOK
<1>RevokeOldIdentity. RevokeOldIdentity => LocksOK'
  BY Leaving, Entering, <1>j, PhaseList DEF RevokeOldIdentity, At, MovesTo, Leaves, counters, LocksOK, Working,
      SignPlaces, EncPlaces, ClearPlaces
<1>PersistSigningReplacementIntent. PersistSigningReplacementIntent => LocksOK'
  BY <1>p0, Entering, <1>j, PhaseList DEF PersistSigningReplacementIntent, At, MovesTo, LocksOK
<1>AdoptOrReplaceSigningIdentity. AdoptOrReplaceSigningIdentity => LocksOK'
  BY <1>p0, <1>b, AdoptingOrReplacing, FreshHosts DEF MovesTo, SetsMeta, SetsSentinel, Leaves, LocksOK, Working,
      SignPlaces, EncPlaces, ClearPlaces, At, storeVars, outside, counters
<1>CommitSigning. CommitSigning => LocksOK'
  BY <1>b, Adopting DEF CommitSigning, MovesTo, LocksOK, Working, SignPlaces
<1>FinalizeSigning. FinalizeSigning => LocksOK'
  BY <1>p0, Completing DEF MovesTo, SetsSentinel, Leaves, LocksOK, Working, SignPlaces, EncPlaces, ClearPlaces
<1>ReplaceEncryptionIdentity. ReplaceEncryptionIdentity => LocksOK'
  BY ReplacingKeyFrame DEF LocksOK, Working, EncPlaces
<1>WriteEncryptionItem. EncryptionWrite /\ WriteEncryptionItem => LocksOK'
  BY <1>p0, EncryptionWrites DEF EncryptionWrite, MovesTo, Drops, LocksOK, Working, EncPlaces
<1>WriteEncryptionMetadata. EncryptionWrite /\ WriteEncryptionMetadata => LocksOK'
  BY <1>p0, EncryptionWrites DEF EncryptionWrite, MovesTo, Drops, LocksOK, Working, EncPlaces
<1>DeletePreviousEncryptionItems. EncryptionWrite /\ DeletePreviousEncryptionItems => LocksOK'
  BY <1>p0, EncryptionWrites DEF EncryptionWrite, MovesTo, Drops, LocksOK, Working, EncPlaces
<1>CommitEncryption. CommitEncryption => LocksOK'
  BY Entering, <1>j, PhaseList DEF CommitEncryption, MovesTo, Enters, counters, LocksOK, Working, SignPlaces,
      EncPlaces
<1>FinalizeEncryption. FinalizeEncryption => LocksOK'
  BY CompletingKey DEF KeyIsReplaced, MovesTo, SetsKeySentinel, Leaves, LocksOK, Working, SignPlaces, EncPlaces,
      ClearPlaces
<1>ClearArtifacts. ClearArtifacts => LocksOK'
  BY <1>p0, Clearing DEF SetsReset, MovesTo, LocksOK, Working, ClearPlaces
<1>ClearSpoolKey. ClearSpoolKey => LocksOK'
  BY <1>p0, ClearingKey DEF MovesTo, Leaves, LocksOK, Working, SignPlaces, EncPlaces, ClearPlaces
<1>CommitCleared. CommitCleared => LocksOK'
  BY Entering, <1>j, PhaseList DEF CommitCleared, MovesTo, Enters, counters, LocksOK, Working, SignPlaces,
      ClearPlaces
<1>PersistConfig. PersistConfig => LocksOK'
  BY <1>p0, Leaving, Entering, <1>j, PhaseList DEF PersistConfig, At, MovesTo, Leaves, Enters, counters,
      LocksOK, Working, SignPlaces, EncPlaces, ClearPlaces
<1>EnrollNewIdentity. EnrollNewIdentity => LocksOK'
  BY Leaving, Entering, <1>j, PhaseList DEF EnrollNewIdentity, At, MovesTo, Leaves, counters, LocksOK, Working,
      SignPlaces, EncPlaces, ClearPlaces
<1>SyncServiceMetadata. SyncServiceMetadata => LocksOK'
  BY Leaving, Entering, <1>j, PhaseList DEF SyncServiceMetadata, At, MovesTo, Leaves, counters, LocksOK,
      Working, SignPlaces, EncPlaces, ClearPlaces
<1>PersistServiceRestoreIntent. PersistServiceRestoreIntent => LocksOK'
  BY <1>p0, Leaving, Entering, <1>j, PhaseList DEF PersistServiceRestoreIntent, At, MovesTo, Leaves, Enters,
      counters, LocksOK, Working, SignPlaces, EncPlaces, ClearPlaces
<1>VerifyReplacement. VerifyReplacement => LocksOK'
  BY Moving, Leaving DEF VerifyReplacement, At, MovesTo, Leaves, counters, LocksOK, Working, SignPlaces,
      EncPlaces, ClearPlaces
<1>RestoreService. RestoreService => LocksOK'
  BY Restoring DEF MovesTo, Leaves, LocksOK, Working, SignPlaces, EncPlaces, ClearPlaces
<1>ConfirmAndRemoveJournal. ConfirmAndRemoveJournal => LocksOK'
  BY Leaving, <1>j, PhaseList DEF ConfirmAndRemoveJournal, Leaves, storeVars, outside, LocksOK, Working,
      SignPlaces, EncPlaces, ClearPlaces
<1>unchanged. UNCHANGED <<boot, cli, lock>> => LocksOK'
  BY DEF LocksOK
<1> QED BY <1>SpawnDaemon, <1>GuardStart, <1>AcquireRuntimeLock, <1>ValidateIdentity, <1>PreflightRuntime,
           <1>BeginResetKey, <1>BeginRuntimeReset, <1>ReplaceSpool, <1>ReplaceState, <1>RemoveResetIntent,
           <1>BeginRuntimeMigration, <1>MigrateSpool, <1>MigrateState, <1>MigrateFloor,
           <1>RemoveMigrationIntent, <1>EstablishFloor, <1>OpenSpool, <1>LoadEncryption, <1>RecordEncryption,
           <1>StopDaemon, <1>CrashDaemon, <1>CrashCli, <1>Initialize, <1>CreateSigningIdentity,
           <1>SaveInitialConfig, <1>InitialEncryption, <1>CreateFirstRunItem, <1>CreateFirstRunIndex,
           <1>CreateFirstRunMetadata, <1>CreateFirstRunRollback, <1>DeleteCreationSentinel,
           <1>WriteCandidateItem, <1>WriteIndexItem, <1>WriteProfileMetadata, <1>DeletePreviousItem,
           <1>DeleteInterruptedItem, <1>ClearCreationSentinel, <1>CreateJournal, <1>ResumeReset,
           <1>StopAndConfirm, <1>AcquireRuntimeOwnership, <1>InspectAndBindOldDomain, <1>PersistRevokeIntent,
           <1>RevokeOldIdentity, <1>PersistSigningReplacementIntent, <1>AdoptOrReplaceSigningIdentity,
           <1>CommitSigning, <1>FinalizeSigning, <1>ReplaceEncryptionIdentity, <1>WriteEncryptionItem,
           <1>WriteEncryptionMetadata, <1>DeletePreviousEncryptionItems, <1>CommitEncryption,
           <1>FinalizeEncryption, <1>ClearArtifacts, <1>ClearSpoolKey, <1>CommitCleared, <1>PersistConfig,
           <1>EnrollNewIdentity, <1>SyncServiceMetadata, <1>PersistServiceRestoreIntent, <1>VerifyReplacement,
           <1>RestoreService, <1>ConfirmAndRemoveJournal, <1>unchanged, Changes

\* Every step keeps JournalOK: what each phase of the journal has filled in.
LEMMA JournalOKPreserved ==
  ASSUME TypeOK, PlacesOK, JournalOK, Done, [Next]_vars
  PROVE  JournalOK'
<1>j. cli.at \in {"acquire", "run", "enc-commit", "clear-commit", "sign-commit"} => journal # None
  BY DEF PlacesOK, Phase, SignPlaces, EncPlaces, ClearPlaces
<1>b. InspectAndBindOldDomain \/ CommitSigning \/ AdoptOrReplaceSigningIdentity => journal # None
  BY DEF InspectAndBindOldDomain, CommitSigning, AdoptOrReplaceSigningIdentity, At, PlacesOK, SignPlaces, Phase
<1>p0. relay \in [enrolled : SUBSET Hosts, revoked : SUBSET Hosts]
  BY Kinds
<1>p1. SigningStatus(signing) = "ready" => signing.meta # None
  BY DEF SigningStatus
<1>Serve. Serve => JournalOK'
  BY DEF Serve, JournalOK, Phase
<1>CreateJournal. CreateJournal => JournalOK'
  BY DEF CreateJournal, JournalOK, Phase
<1>AcquireRuntimeOwnership. AcquireRuntimeOwnership => JournalOK'
  BY Entering, <1>j, PhaseList DEF AcquireRuntimeOwnership, Enters, storeVars, outside, counters, JournalOK,
      Phase, BoundPhases, UnfilledPhases
<1>InspectAndBindOldDomain. InspectAndBindOldDomain => JournalOK'
  BY <1>p1, <1>b, Binding, Loading DEF SetsCreating, Binds, JournalOK, Phase, UnfilledPhases
<1>PersistRevokeIntent. PersistRevokeIntent => JournalOK'
  BY Entering, <1>j, PhaseList DEF PersistRevokeIntent, At, MovesTo, Enters, storeVars, JournalOK, Phase,
      BoundPhases, UnfilledPhases
<1>RevokeOldIdentity. RevokeOldIdentity => JournalOK'
  BY <1>p0, <1>p1, Leaving, Entering, <1>j, PhaseList DEF RevokeOldIdentity, At, MovesTo, Leaves, Enters,
      JournalOK, Phase, BoundPhases, UnfilledPhases
<1>PersistSigningReplacementIntent. PersistSigningReplacementIntent => JournalOK'
  BY Entering, <1>j, PhaseList DEF PersistSigningReplacementIntent, At, MovesTo, Enters, storeVars, outside,
      counters, JournalOK, Phase, BoundPhases, UnfilledPhases
<1>CommitSigning. CommitSigning => JournalOK'
  BY <1>p1, <1>b, Adopting DEF CommitSigning, MovesTo, JournalOK, Phase, BoundPhases, UnfilledPhases
<1>CommitEncryption. CommitEncryption => JournalOK'
  BY <1>p1, Entering, <1>j, PhaseList DEF CommitEncryption, MovesTo, Enters, storeVars, JournalOK, Phase,
      BoundPhases, UnfilledPhases
<1>CommitCleared. CommitCleared => JournalOK'
  BY <1>p1, Entering, <1>j, PhaseList DEF CommitCleared, MovesTo, Enters, storeVars, JournalOK, Phase,
      BoundPhases, UnfilledPhases
<1>PersistConfig. PersistConfig => JournalOK'
  BY Leaving, Entering, <1>j, PhaseList DEF PersistConfig, At, Enters, storeVars, JournalOK, Phase, BoundPhases,
      UnfilledPhases
<1>EnrollNewIdentity. EnrollNewIdentity => JournalOK'
  BY Entering, <1>j, PhaseList DEF EnrollNewIdentity, At, MovesTo, Leaves, Enters, JournalOK, Phase,
      BoundPhases, UnfilledPhases
<1>SyncServiceMetadata. SyncServiceMetadata => JournalOK'
  BY Entering, <1>j, PhaseList DEF SyncServiceMetadata, At, MovesTo, Leaves, Enters, JournalOK, Phase,
      BoundPhases, UnfilledPhases
<1>PersistServiceRestoreIntent. PersistServiceRestoreIntent => JournalOK'
  BY Leaving, Entering, <1>j, PhaseList DEF PersistServiceRestoreIntent, At, Enters, storeVars, JournalOK,
      Phase, BoundPhases, UnfilledPhases
<1>ConfirmAndRemoveJournal. ConfirmAndRemoveJournal => JournalOK'
  BY DEF ConfirmAndRemoveJournal, Leaves, outside, JournalOK, Phase, BoundPhases, UnfilledPhases
<1>unchanged. UNCHANGED <<journal, relay>> => JournalOK'
  BY DEF Phase, JournalOK
<1> QED BY <1>Serve, <1>CreateJournal, <1>AcquireRuntimeOwnership, <1>InspectAndBindOldDomain,
           <1>PersistRevokeIntent, <1>RevokeOldIdentity, <1>PersistSigningReplacementIntent, <1>CommitSigning,
           <1>CommitEncryption, <1>CommitCleared, <1>PersistConfig, <1>EnrollNewIdentity,
           <1>SyncServiceMetadata, <1>PersistServiceRestoreIntent, <1>ConfirmAndRemoveJournal, <1>unchanged,
           Changes

\* Every step keeps LinuxSigning: a Linux record carries an operation only while that operation's
\* reset is unfinished.
LEMMA LinuxSigningPreserved ==
  ASSUME TypeOK, PlacesOK, JournalOK, Done, Initialising, LinuxSigning, [Next]_vars
  PROVE  LinuxSigning'
<1>j. cli.at \in {"acquire", "run", "enc-commit", "clear-commit", "sign-commit"} => journal # None
  BY DEF PlacesOK, Phase, SignPlaces, EncPlaces, ClearPlaces
<1>b. InspectAndBindOldDomain \/ CommitSigning \/ AdoptOrReplaceSigningIdentity => journal # None
  BY DEF InspectAndBindOldDomain, CommitSigning, AdoptOrReplaceSigningIdentity, At, PlacesOK, SignPlaces, Phase
<1>p0. platform \in {"linux","darwin"} /\ None \notin Hosts
  BY Kinds, NoneIsNothing
<1>ValidateIdentity. ValidateIdentity => LinuxSigning'
  BY Loading DEF ValidateIdentity, BootsTo, SetsCreating, LinuxSigning, Phase, outside, counters
<1>CreateSigningIdentity. CreateSigningIdentity => LinuxSigning'
  BY <1>p0, FirstRun, FreshHosts DEF MovesTo, SetsMeta, SetsCreating, LinuxSigning, Phase, counters
<1>CreateFirstRunItem. SigningWrite /\ CreateFirstRunItem => LinuxSigning'
  BY SigningWrites DEF SigningWrite, MovesTo, SetsItems, SetsMeta, SetsCreating, LinuxSigning, Phase, Done,
      Initialising, outside, counters
<1>CreateFirstRunIndex. SigningWrite /\ CreateFirstRunIndex => LinuxSigning'
  BY SigningWrites DEF SigningWrite, MovesTo, SetsItems, SetsMeta, SetsCreating, LinuxSigning, Phase, Done,
      Initialising, outside, counters
<1>CreateFirstRunMetadata. SigningWrite /\ CreateFirstRunMetadata => LinuxSigning'
  BY SigningWrites DEF SigningWrite, MovesTo, SetsItems, SetsMeta, SetsCreating, LinuxSigning, Phase, Done,
      Initialising, outside, counters
<1>CreateFirstRunRollback. SigningWrite /\ CreateFirstRunRollback => LinuxSigning'
  BY SigningWrites DEF SigningWrite, MovesTo, SetsItems, SetsMeta, SetsCreating, LinuxSigning, Phase, Done,
      Initialising, outside, counters
<1>DeleteCreationSentinel. SigningWrite /\ DeleteCreationSentinel => LinuxSigning'
  BY SigningWrites DEF SigningWrite, SetsMeta, SetsCreating, LinuxSigning, Phase, outside, counters
<1>WriteCandidateItem. SigningWrite /\ WriteCandidateItem => LinuxSigning'
  BY SigningWrites DEF SigningWrite, MovesTo, SetsItems, SetsMeta, SetsCreating, LinuxSigning, Phase, Done,
      Initialising, outside, counters
<1>WriteIndexItem. SigningWrite /\ WriteIndexItem => LinuxSigning'
  BY SigningWrites DEF SigningWrite, MovesTo, SetsItems, SetsMeta, SetsCreating, LinuxSigning, Phase, Done,
      Initialising, outside, counters
<1>WriteProfileMetadata. SigningWrite /\ WriteProfileMetadata => LinuxSigning'
  BY SigningWrites DEF SigningWrite, MovesTo, SetsItems, SetsMeta, SetsCreating, LinuxSigning, Phase, Done,
      Initialising, outside, counters
<1>DeletePreviousItem. SigningWrite /\ DeletePreviousItem => LinuxSigning'
  BY SigningWrites DEF SigningWrite, MovesTo, SetsItems, LinuxSigning, Phase, outside, counters
<1>DeleteInterruptedItem. SigningWrite /\ DeleteInterruptedItem => LinuxSigning'
  BY SigningWrites DEF SigningWrite, MovesTo, SetsItems, LinuxSigning, Phase, outside, counters
<1>ClearCreationSentinel. SigningWrite /\ ClearCreationSentinel => LinuxSigning'
  BY SigningWrites DEF SigningWrite, SetsMeta, SetsCreating, LinuxSigning, Phase, outside, counters
<1>CreateJournal. CreateJournal => LinuxSigning'
  BY Creating DEF CreateJournal, LinuxSigning, Phase, storeVars
<1>AcquireRuntimeOwnership. AcquireRuntimeOwnership => LinuxSigning'
  BY PhaseList DEF AcquireRuntimeOwnership, Enters, storeVars, outside, counters, LinuxSigning, Phase
<1>InspectAndBindOldDomain. InspectAndBindOldDomain => LinuxSigning'
  BY <1>p0, <1>b, Binding, Loading DEF SetsCreating, Binds, LinuxSigning, Phase, outside, counters
<1>PersistRevokeIntent. PersistRevokeIntent => LinuxSigning'
  BY PhaseList DEF PersistRevokeIntent, At, MovesTo, Enters, storeVars, outside, counters, LinuxSigning, Phase
<1>RevokeOldIdentity. RevokeOldIdentity => LinuxSigning'
  BY PhaseList DEF RevokeOldIdentity, At, MovesTo, storeVars, counters, LinuxSigning, Phase
<1>PersistSigningReplacementIntent. PersistSigningReplacementIntent => LinuxSigning'
  BY PhaseList DEF PersistSigningReplacementIntent, At, MovesTo, Enters, storeVars, outside, counters,
      LinuxSigning, Phase
<1>AdoptOrReplaceSigningIdentity. AdoptOrReplaceSigningIdentity => LinuxSigning'
  BY <1>p0, <1>b, AdoptingOrReplacing, FreshHosts DEF MovesTo, SetsMeta, SetsSentinel, Leaves, LinuxSigning,
      Phase, At, Done, Initialising, Proven, EncPlaces, SignPlaces, ClearPlaces, PlacesOK, ReplacedPhases,
      AfterEncryption, AfterClearing, AfterConfig, BoundPhases, UnfilledPhases, storeVars, outside, counters
<1>CommitSigning. CommitSigning => LinuxSigning'
  BY Adopting DEF CommitSigning, MovesTo, LinuxSigning, Phase, Done, AfterConfig, storeVars, counters
<1>FinalizeSigning. FinalizeSigning => LinuxSigning'
  BY Completing DEF MovesTo, SetsSentinel, Leaves, LinuxSigning, Phase, counters
<1>CommitEncryption. CommitEncryption => LinuxSigning'
  BY <1>j, PhaseList DEF CommitEncryption, MovesTo, Enters, storeVars, outside, counters, LinuxSigning, Phase,
      Done, Initialising, EncPlaces, SignPlaces
<1>CommitCleared. CommitCleared => LinuxSigning'
  BY <1>j, PhaseList DEF CommitCleared, MovesTo, Enters, storeVars, outside, counters, LinuxSigning, Phase,
      ClearPlaces, PlacesOK
<1>PersistConfig. PersistConfig => LinuxSigning'
  BY DEF PersistConfig, At, Enters, storeVars, outside, counters, LinuxSigning, Phase
<1>EnrollNewIdentity. EnrollNewIdentity => LinuxSigning'
  BY PhaseList DEF EnrollNewIdentity, At, MovesTo, storeVars, counters, LinuxSigning, Phase
<1>SyncServiceMetadata. SyncServiceMetadata => LinuxSigning'
  BY PhaseList DEF SyncServiceMetadata, At, MovesTo, storeVars, counters, LinuxSigning, Phase
<1>PersistServiceRestoreIntent. PersistServiceRestoreIntent => LinuxSigning'
  BY DEF PersistServiceRestoreIntent, At, Enters, storeVars, outside, counters, LinuxSigning, Phase
<1>ConfirmAndRemoveJournal. ConfirmAndRemoveJournal => LinuxSigning'
  BY DEF ConfirmAndRemoveJournal, Leaves, storeVars, outside, LinuxSigning, PlacesOK
<1>unchanged. UNCHANGED <<platform, signing, journal>> => LinuxSigning'
  BY DEF Phase, LinuxSigning
<1> QED BY <1>ValidateIdentity, <1>CreateSigningIdentity, <1>CreateFirstRunItem, <1>CreateFirstRunIndex,
           <1>CreateFirstRunMetadata, <1>CreateFirstRunRollback, <1>DeleteCreationSentinel,
           <1>WriteCandidateItem, <1>WriteIndexItem, <1>WriteProfileMetadata, <1>DeletePreviousItem,
           <1>DeleteInterruptedItem, <1>ClearCreationSentinel, <1>CreateJournal, <1>AcquireRuntimeOwnership,
           <1>InspectAndBindOldDomain, <1>PersistRevokeIntent, <1>RevokeOldIdentity,
           <1>PersistSigningReplacementIntent, <1>AdoptOrReplaceSigningIdentity, <1>CommitSigning,
           <1>FinalizeSigning, <1>CommitEncryption, <1>CommitCleared, <1>PersistConfig, <1>EnrollNewIdentity,
           <1>SyncServiceMetadata, <1>PersistServiceRestoreIntent, <1>ConfirmAndRemoveJournal, <1>unchanged,
           Changes

\* Every step keeps MacSigning: a reset sentinel is that of the journal's operation; without one
\* the stores are steady.
LEMMA MacSigningPreserved ==
  ASSUME TypeOK, PlacesOK, JournalOK, Done, Initialising, LinuxSigning, MacSigning, [Next]_vars
  PROVE  MacSigning'
<1>j. cli.at \in {"acquire", "run", "enc-commit", "clear-commit", "sign-commit"} => journal # None
  BY DEF PlacesOK, Phase, SignPlaces, EncPlaces, ClearPlaces
<1>b. InspectAndBindOldDomain \/ CommitSigning \/ AdoptOrReplaceSigningIdentity => journal # None
  BY DEF InspectAndBindOldDomain, CommitSigning, AdoptOrReplaceSigningIdentity, At, PlacesOK, SignPlaces, Phase
<1>p0. platform \in {"linux","darwin"} /\ None \notin Hosts /\ signing \in SigningStore
  BY Kinds, NoneIsNothing
<1>ValidateIdentity. ValidateIdentity => MacSigning'
  BY Loading DEF ValidateIdentity, Die, Off, BootsTo, SetsCreating, MacSigning, Steady, Phase, Done,
      Initialising, EncPlaces, PlacesOK, SigningStatus, outside, counters
<1>CreateSigningIdentity. CreateSigningIdentity => MacSigning'
  BY <1>p0, FirstRun, FreshHosts DEF MovesTo, SetsMeta, SetsCreating, MacSigning, Steady, Phase, Done,
      Initialising, EncPlaces, PlacesOK, SigningStatus, outside, counters
<1>CreateFirstRunItem. SigningWrite /\ CreateFirstRunItem => MacSigning'
  BY SigningWrites DEF SigningWrite, MovesTo, SetsItems, MacSigning, Steady, Phase, Done, Initialising,
      EncPlaces
<1>CreateFirstRunIndex. SigningWrite /\ CreateFirstRunIndex => MacSigning'
  BY SigningWrites DEF SigningWrite, MovesTo, SetsItems, MacSigning, Steady, Phase, Done, Initialising,
      EncPlaces
<1>CreateFirstRunMetadata. SigningWrite /\ CreateFirstRunMetadata => MacSigning'
  BY SigningWrites DEF SigningWrite, SetsMeta, SetsCreating, MacSigning, Steady, Phase, Done, Initialising,
      EncPlaces
<1>CreateFirstRunRollback. SigningWrite /\ CreateFirstRunRollback => MacSigning'
  BY SigningWrites DEF SigningWrite, MovesTo, SetsItems, MacSigning, Steady, Phase, Done, Initialising,
      EncPlaces
<1>DeleteCreationSentinel. SigningWrite /\ DeleteCreationSentinel => MacSigning'
  BY SigningWrites DEF SigningWrite, SetsMeta, SetsCreating, MacSigning, Steady, Phase, Done, Initialising,
      EncPlaces
<1>WriteCandidateItem. SigningWrite /\ WriteCandidateItem => MacSigning'
  BY SigningWrites DEF SigningWrite, MovesTo, SetsItems, SetsMeta, SetsCreating, MacSigning, Steady, Phase,
      Done, outside, counters
<1>WriteIndexItem. SigningWrite /\ WriteIndexItem => MacSigning'
  BY SigningWrites DEF SigningWrite, MovesTo, SetsItems, SetsMeta, SetsCreating, MacSigning, Steady, Phase,
      Done, outside, counters
<1>WriteProfileMetadata. SigningWrite /\ WriteProfileMetadata => MacSigning'
  BY SigningWrites DEF SigningWrite, MovesTo, SetsItems, SetsMeta, SetsCreating, MacSigning, Steady, Phase,
      Done, outside, counters
<1>DeletePreviousItem. SigningWrite /\ DeletePreviousItem => MacSigning'
  BY SigningWrites DEF SigningWrite, MovesTo, SetsItems, SetsMeta, SetsCreating, MacSigning, Steady, Phase,
      Done, outside, counters
<1>DeleteInterruptedItem. SigningWrite /\ DeleteInterruptedItem => MacSigning'
  BY SigningWrites DEF SigningWrite, MovesTo, SetsItems, SetsMeta, SetsCreating, MacSigning, Steady, Phase,
      Done, outside, counters
<1>ClearCreationSentinel. SigningWrite /\ ClearCreationSentinel => MacSigning'
  BY SigningWrites DEF SigningWrite, MovesTo, SetsItems, SetsMeta, SetsCreating, MacSigning, Steady, Phase,
      Done, outside, counters
<1>CreateJournal. CreateJournal => MacSigning'
  BY Creating DEF CreateJournal, MacSigning, Steady, Phase, Done, storeVars, outside
<1>AcquireRuntimeOwnership. AcquireRuntimeOwnership => MacSigning'
  BY PhaseList DEF AcquireRuntimeOwnership, Enters, storeVars, outside, counters, MacSigning, Steady, Phase,
      Done
<1>InspectAndBindOldDomain. InspectAndBindOldDomain => MacSigning'
  BY <1>p0, <1>b, Binding, Loading DEF SetsCreating, Binds, MovesTo, Leaves, MacSigning, Steady, Phase, Done,
      Initialising, EncPlaces, SignPlaces, ClearPlaces, PlacesOK, SigningStatus, outside, counters
<1>PersistRevokeIntent. PersistRevokeIntent => MacSigning'
  BY PhaseList DEF PersistRevokeIntent, At, MovesTo, Enters, storeVars, outside, counters, MacSigning, Steady,
      Phase, Done
<1>RevokeOldIdentity. RevokeOldIdentity => MacSigning'
  BY PhaseList DEF RevokeOldIdentity, At, MovesTo, storeVars, counters, MacSigning, Steady, Phase, Done
<1>PersistSigningReplacementIntent. PersistSigningReplacementIntent => MacSigning'
  BY PhaseList DEF PersistSigningReplacementIntent, At, MovesTo, Enters, storeVars, outside, counters,
      MacSigning, Steady, Phase, Done
<1>AdoptOrReplaceSigningIdentity. AdoptOrReplaceSigningIdentity => MacSigning'
  BY <1>p0, <1>b, AdoptingOrReplacing, FreshHosts DEF MovesTo, SetsMeta, SetsSentinel, Leaves, MacSigning,
      Steady, Phase, At, Done, Initialising, Proven, EncPlaces, SignPlaces, ClearPlaces, PlacesOK,
      SigningStatus, SigningStore, MaybeHost, ReplacedPhases, AfterEncryption, AfterClearing, AfterConfig,
      BoundPhases, UnfilledPhases, storeVars, outside, counters
<1>CommitSigning. CommitSigning => MacSigning'
  BY <1>p0, <1>b, Adopting DEF CommitSigning, MovesTo, MacSigning, Steady, Phase, MaybeHost, ReplacedPhases,
      AfterConfig, storeVars, outside, counters
<1>FinalizeSigning. FinalizeSigning => MacSigning'
  BY <1>p0, Completing DEF MovesTo, SetsSentinel, Leaves, MacSigning, Steady, Phase, Done, Initialising,
      EncPlaces, SignPlaces, ClearPlaces, PlacesOK, SigningStatus, ReplacedPhases, AfterEncryption, outside,
      counters
<1>CommitEncryption. CommitEncryption => MacSigning'
  BY <1>j, PhaseList DEF CommitEncryption, MovesTo, Enters, storeVars, outside, counters, MacSigning, Steady,
      Phase, Done, Initialising, EncPlaces
<1>CommitCleared. CommitCleared => MacSigning'
  BY <1>j, PhaseList DEF CommitCleared, MovesTo, Enters, storeVars, outside, counters, MacSigning, Steady,
      Phase, Done, SignPlaces, ClearPlaces, PlacesOK, SigningStatus
<1>PersistConfig. PersistConfig => MacSigning'
  BY DEF PersistConfig, At, Enters, storeVars, outside, counters, MacSigning, Steady, Phase, Done
<1>EnrollNewIdentity. EnrollNewIdentity => MacSigning'
  BY PhaseList DEF EnrollNewIdentity, At, MovesTo, storeVars, counters, MacSigning, Steady, Phase, Done
<1>SyncServiceMetadata. SyncServiceMetadata => MacSigning'
  BY PhaseList DEF SyncServiceMetadata, At, MovesTo, storeVars, counters, MacSigning, Steady, Phase, Done
<1>PersistServiceRestoreIntent. PersistServiceRestoreIntent => MacSigning'
  BY DEF PersistServiceRestoreIntent, At, Enters, storeVars, outside, counters, MacSigning, Steady, Phase, Done
<1>ConfirmAndRemoveJournal. ConfirmAndRemoveJournal => MacSigning'
  BY DEF ConfirmAndRemoveJournal, Leaves, storeVars, outside, MacSigning, Steady, Phase, Done, PlacesOK,
      SigningStatus
<1>unchanged. UNCHANGED <<platform, signing, journal>> => MacSigning'
  BY DEF Phase, Steady, MacSigning
<1> QED BY <1>ValidateIdentity, <1>CreateSigningIdentity, <1>CreateFirstRunItem, <1>CreateFirstRunIndex,
           <1>CreateFirstRunMetadata, <1>CreateFirstRunRollback, <1>DeleteCreationSentinel,
           <1>WriteCandidateItem, <1>WriteIndexItem, <1>WriteProfileMetadata, <1>DeletePreviousItem,
           <1>DeleteInterruptedItem, <1>ClearCreationSentinel, <1>CreateJournal, <1>AcquireRuntimeOwnership,
           <1>InspectAndBindOldDomain, <1>PersistRevokeIntent, <1>RevokeOldIdentity,
           <1>PersistSigningReplacementIntent, <1>AdoptOrReplaceSigningIdentity, <1>CommitSigning,
           <1>FinalizeSigning, <1>CommitEncryption, <1>CommitCleared, <1>PersistConfig, <1>EnrollNewIdentity,
           <1>SyncServiceMetadata, <1>PersistServiceRestoreIntent, <1>ConfirmAndRemoveJournal, <1>unchanged,
           Changes

\* Every step keeps Replacing: between the sentinel and the journal's next phase: what is old is
\* the bound evidence, and each write of finishReset has been done by the time the process stands
\* behind it.
LEMMA ReplacingPreserved ==
  ASSUME TypeOK, PlacesOK, JournalOK, Done, Initialising, LinuxSigning, MacSigning, Replacing, Bound, [Next]_vars
  PROVE  Replacing'
<1>j. cli.at \in {"acquire", "run", "enc-commit", "clear-commit", "sign-commit"} => journal # None
  BY DEF PlacesOK, Phase, SignPlaces, EncPlaces, ClearPlaces
<1>b. InspectAndBindOldDomain \/ CommitSigning \/ AdoptOrReplaceSigningIdentity => journal # None
  BY DEF InspectAndBindOldDomain, CommitSigning, AdoptOrReplaceSigningIdentity, At, PlacesOK, SignPlaces, Phase
<1>p0. platform \in {"linux","darwin"} /\ None \notin Hosts /\ signing \in SigningStore
  BY Kinds, NoneIsNothing
<1>p1. journal # None => journal.op # NoOp
  BY Kinds DEF Journals, Ops, NoOp
<1>ValidateIdentity. ValidateIdentity => Replacing'
  BY Loading DEF ValidateIdentity, Die, Off, BootsTo, SetsCreating, Replacing, Chosen, PlacesOK, Phase
<1>CrashCli. CrashCli => Replacing'
  BY <1>p1, Leaving, <1>j, PhaseList DEF CrashCli, Leaves, storeVars, outside, Replacing, Chosen, PlacesOK,
      Phase
<1>Initialize. Initialize => Replacing'
  BY Moving, <1>j, PhaseList DEF Initialize, Replacing, Chosen, PlacesOK, Phase
<1>CreateSigningIdentity. CreateSigningIdentity => Replacing'
  BY <1>p1, FirstRun, FreshHosts DEF MovesTo, SetsMeta, SetsCreating, Replacing, Chosen, InitPlaces, EncPlaces,
      PlacesOK, Phase
<1>SaveInitialConfig. SaveInitialConfig => Replacing'
  BY Moving, <1>j, PhaseList DEF SaveInitialConfig, MovesTo, storeVars, outside, counters, Replacing, Chosen,
      PlacesOK, Phase
<1>InitialEncryption. InitialEncryption => Replacing'
  BY InitialKeys, FreshKeyLemma DEF MovesTo, Leaves, Replacing, Chosen, PlacesOK, Phase
<1>CreateFirstRunItem. SigningWrite /\ CreateFirstRunItem => Replacing'
  BY SigningWrites DEF SigningWrite, MovesTo, SetsItems, SetsMeta, SetsCreating, Replacing, Chosen, Steady,
      Done, Initialising, SigningStore, MacSigning, LinuxSigning, ReplacedPhases, AfterEncryption
<1>CreateFirstRunIndex. SigningWrite /\ CreateFirstRunIndex => Replacing'
  BY SigningWrites DEF SigningWrite, MovesTo, SetsItems, SetsMeta, SetsCreating, Replacing, Chosen, Steady,
      Done, Initialising, SigningStore, MacSigning, LinuxSigning, ReplacedPhases, AfterEncryption
<1>CreateFirstRunMetadata. SigningWrite /\ CreateFirstRunMetadata => Replacing'
  BY SigningWrites DEF SigningWrite, MovesTo, SetsItems, SetsMeta, SetsCreating, Replacing, Chosen, InitPlaces,
      EncPlaces, PlacesOK, Phase
<1>CreateFirstRunRollback. SigningWrite /\ CreateFirstRunRollback => Replacing'
  BY SigningWrites DEF SigningWrite, MovesTo, SetsItems, SetsMeta, SetsCreating, Replacing, Chosen, Steady,
      Done, Initialising, SigningStore, MacSigning, LinuxSigning, ReplacedPhases, AfterEncryption
<1>DeleteCreationSentinel. SigningWrite /\ DeleteCreationSentinel => Replacing'
  BY SigningWrites DEF SigningWrite, MovesTo, SetsItems, SetsMeta, SetsCreating, Replacing, Chosen, PlacesOK,
      Phase
<1>WriteCandidateItem. SigningWrite /\ WriteCandidateItem => Replacing'
  BY <1>p0, <1>p1, SigningWrites DEF SigningWrite, MovesTo, SetsItems, SetsMeta, SetsCreating, Replacing,
      Chosen, Steady, Done, Initialising, SigningStore, SigningResets, MaybeHost, MacSigning, LinuxSigning,
      PlacesOK, Phase
<1>WriteIndexItem. SigningWrite /\ WriteIndexItem => Replacing'
  BY <1>p0, <1>p1, SigningWrites DEF SigningWrite, MovesTo, SetsItems, SetsMeta, SetsCreating, Replacing,
      Chosen, Steady, Done, Initialising, Proven, SigningStore, SigningResets, MaybeHost, MacSigning,
      LinuxSigning, ReplacedPhases, AfterEncryption, AfterClearing, AfterConfig, BoundPhases, UnfilledPhases,
      InitPlaces, EncPlaces, SignPlaces, ClearPlaces, PlacesOK, At, Phase, storeVars, outside, counters
<1>WriteProfileMetadata. SigningWrite /\ WriteProfileMetadata => Replacing'
  BY SigningWrites DEF SigningWrite, MovesTo, SetsItems, SetsMeta, SetsCreating, Replacing, Chosen, PlacesOK,
      Phase
<1>DeletePreviousItem. SigningWrite /\ DeletePreviousItem => Replacing'
  BY SigningWrites DEF SigningWrite, MovesTo, SetsItems, Replacing, Chosen, PlacesOK, Phase
<1>DeleteInterruptedItem. SigningWrite /\ DeleteInterruptedItem => Replacing'
  BY SigningWrites DEF SigningWrite, MovesTo, SetsItems, Replacing, Chosen, PlacesOK, Phase
<1>ClearCreationSentinel. SigningWrite /\ ClearCreationSentinel => Replacing'
  BY SigningWrites DEF SigningWrite, MovesTo, SetsItems, SetsMeta, SetsCreating, Replacing, Chosen, PlacesOK,
      Phase
<1>CreateJournal. CreateJournal => Replacing'
  BY Creating DEF CreateJournal, Replacing, Chosen, Phase
<1>ResumeReset. ResumeReset => Replacing'
  BY DEF ResumeReset, storeVars, Replacing, Chosen, PlacesOK, Phase
<1>StopAndConfirm. StopAndConfirm => Replacing'
  BY <1>p0, <1>p1, Moving, <1>j, PhaseList DEF StopAndConfirm, Die, Off, MovesTo, storeVars, counters,
      Replacing, Chosen, PlacesOK, Phase
<1>AcquireRuntimeOwnership. AcquireRuntimeOwnership => Replacing'
  BY Moving, Leaving, Entering, <1>j, PhaseList DEF AcquireRuntimeOwnership, MovesTo, Leaves, Enters, storeVars,
      outside, counters, Replacing, Chosen, PlacesOK, Phase
<1>InspectAndBindOldDomain. InspectAndBindOldDomain => Replacing'
  BY <1>p0, <1>p1, <1>b, Binding, Loading DEF SetsCreating, Binds, Replacing, Chosen, MacSigning, LinuxSigning
<1>PersistRevokeIntent. PersistRevokeIntent => Replacing'
  BY <1>p0, <1>p1, Entering, <1>j, PhaseList DEF PersistRevokeIntent, At, MovesTo, Enters, storeVars, outside,
      counters, Replacing, Chosen, PlacesOK, Phase
<1>RevokeOldIdentity. RevokeOldIdentity => Replacing'
  BY <1>p1, Leaving, Entering, <1>j, PhaseList DEF RevokeOldIdentity, At, MovesTo, Leaves, Enters, storeVars,
      counters, Replacing, Chosen, PlacesOK, Phase
<1>PersistSigningReplacementIntent. PersistSigningReplacementIntent => Replacing'
  BY <1>p0, <1>p1, Entering, <1>j, PhaseList DEF PersistSigningReplacementIntent, At, MovesTo, Enters,
      storeVars, outside, counters, Replacing, Chosen, Steady, Done, MacSigning, LinuxSigning, ReplacedPhases,
      AfterEncryption, PlacesOK, Phase
<1>AdoptOrReplaceSigningIdentity. AdoptOrReplaceSigningIdentity => Replacing'
  BY ReplacingBegins
<1>CommitSigning. CommitSigning => Replacing'
  BY <1>p1, <1>b, Adopting DEF CommitSigning, MovesTo, Replacing, Phase, storeVars
<1>FinalizeSigning. FinalizeSigning => Replacing'
  BY <1>p0, <1>p1, Completing DEF MovesTo, Replacing, Chosen, PlacesOK, Phase
<1>ReplaceEncryptionIdentity. ReplaceEncryptionIdentity => Replacing'
  BY ReplacingKeyFrame DEF Replacing
<1>WriteEncryptionItem. EncryptionWrite /\ WriteEncryptionItem => Replacing'
  BY EncryptionWrites DEF EncryptionWrite, MovesTo, Gains, Records, Drops, Replacing, Chosen, Steady, Done,
      InitPlaces, EncPlaces
<1>WriteEncryptionMetadata. EncryptionWrite /\ WriteEncryptionMetadata => Replacing'
  BY EncryptionWrites DEF EncryptionWrite, MovesTo, Gains, Records, Drops, Replacing, Chosen, Steady, Done,
      InitPlaces, EncPlaces
<1>DeletePreviousEncryptionItems. EncryptionWrite /\ DeletePreviousEncryptionItems => Replacing'
  BY EncryptionWrites DEF EncryptionWrite, MovesTo, Gains, Records, Drops, Replacing, Chosen, Steady, Done,
      InitPlaces, EncPlaces
<1>CommitEncryption. CommitEncryption => Replacing'
  BY <1>j, PhaseList DEF CommitEncryption, MovesTo, Enters, storeVars, outside, counters, Replacing, Chosen,
      Steady, Done, InitPlaces, EncPlaces
<1>FinalizeEncryption. FinalizeEncryption => Replacing'
  BY <1>p1, CompletingKey DEF KeyIsReplaced, MovesTo, Replacing, Chosen, PlacesOK, Phase
<1>ClearArtifacts. ClearArtifacts => Replacing'
  BY Clearing DEF SetsState, SetsSpool, SetsReset, MovesTo, Replacing, Chosen, Steady, Phase, storeVars
<1>ClearSpoolKey. ClearSpoolKey => Replacing'
  BY ClearingKey DEF MovesTo, Leaves, SetsKey, SetsItem, Replacing, Chosen, Steady, Phase, storeVars
<1>CommitCleared. CommitCleared => Replacing'
  BY <1>p0, <1>p1, Entering, <1>j, PhaseList DEF CommitCleared, MovesTo, Enters, storeVars, outside, counters,
      Replacing, Chosen, PlacesOK, Phase
<1>PersistConfig. PersistConfig => Replacing'
  BY Leaving, Entering, <1>j, PhaseList DEF PersistConfig, At, MovesTo, Leaves, Enters, storeVars, outside,
      counters, Replacing, Chosen, PlacesOK, Phase
<1>EnrollNewIdentity. EnrollNewIdentity => Replacing'
  BY <1>p1, Leaving, Entering, <1>j, PhaseList DEF EnrollNewIdentity, At, MovesTo, Leaves, Enters, storeVars,
      counters, Replacing, Chosen, PlacesOK, Phase
<1>SyncServiceMetadata. SyncServiceMetadata => Replacing'
  BY <1>p1, Leaving, Entering, <1>j, PhaseList DEF SyncServiceMetadata, At, MovesTo, Leaves, Enters, storeVars,
      counters, Replacing, Chosen, PlacesOK, Phase
<1>PersistServiceRestoreIntent. PersistServiceRestoreIntent => Replacing'
  BY Leaving, Entering, <1>j, PhaseList DEF PersistServiceRestoreIntent, At, MovesTo, Leaves, Enters, storeVars,
      outside, counters, Replacing, Chosen, PlacesOK, Phase
<1>VerifyReplacement. VerifyReplacement => Replacing'
  BY PhaseList DEF VerifyReplacement, At, MovesTo, Replacing, Chosen, PlacesOK, Phase
<1>RestoreService. RestoreService => Replacing'
  BY <1>p0, <1>p1, Restoring DEF Replacing, Chosen, PlacesOK, Phase
<1>ConfirmAndRemoveJournal. ConfirmAndRemoveJournal => Replacing'
  BY DEF ConfirmAndRemoveJournal, Leaves, Replacing, Chosen, PlacesOK, Phase
<1>unchanged. UNCHANGED <<signing, cli, journal>> => Replacing'
  BY DEF Chosen, Phase, Replacing
<1> QED BY <1>ValidateIdentity, <1>CrashCli, <1>Initialize, <1>CreateSigningIdentity, <1>SaveInitialConfig,
           <1>InitialEncryption, <1>CreateFirstRunItem, <1>CreateFirstRunIndex, <1>CreateFirstRunMetadata,
           <1>CreateFirstRunRollback, <1>DeleteCreationSentinel, <1>WriteCandidateItem, <1>WriteIndexItem,
           <1>WriteProfileMetadata, <1>DeletePreviousItem, <1>DeleteInterruptedItem, <1>ClearCreationSentinel,
           <1>CreateJournal, <1>ResumeReset, <1>StopAndConfirm, <1>AcquireRuntimeOwnership,
           <1>InspectAndBindOldDomain, <1>PersistRevokeIntent, <1>RevokeOldIdentity,
           <1>PersistSigningReplacementIntent, <1>AdoptOrReplaceSigningIdentity, <1>CommitSigning,
           <1>FinalizeSigning, <1>ReplaceEncryptionIdentity, <1>WriteEncryptionItem, <1>WriteEncryptionMetadata,
           <1>DeletePreviousEncryptionItems, <1>CommitEncryption, <1>FinalizeEncryption, <1>ClearArtifacts,
           <1>ClearSpoolKey, <1>CommitCleared, <1>PersistConfig, <1>EnrollNewIdentity, <1>SyncServiceMetadata,
           <1>PersistServiceRestoreIntent, <1>VerifyReplacement, <1>RestoreService, <1>ConfirmAndRemoveJournal,
           <1>unchanged, Changes

\* Every step keeps Done: once the signing identity is replaced the store holds the journalled Host
\* and nothing of another.
LEMMA DonePreserved ==
  ASSUME TypeOK, PlacesOK, JournalOK, Done, Initialising, LinuxSigning, MacSigning, Replacing, Bound, [Next]_vars
  PROVE  Done'
<1>j. cli.at \in {"acquire", "run", "enc-commit", "clear-commit", "sign-commit"} => journal # None
  BY DEF PlacesOK, Phase, SignPlaces, EncPlaces, ClearPlaces
<1>b. InspectAndBindOldDomain \/ CommitSigning \/ AdoptOrReplaceSigningIdentity => journal # None
  BY DEF InspectAndBindOldDomain, CommitSigning, AdoptOrReplaceSigningIdentity, At, PlacesOK, SignPlaces, Phase
<1>p0. platform \in {"linux","darwin"} /\ None \notin Hosts /\ signing \in SigningStore
  BY Kinds, NoneIsNothing
<1>p1. journal # None => journal.op # NoOp
  BY Kinds DEF Journals, Ops, NoOp
<1>ValidateIdentity. ValidateIdentity => Done'
  BY <1>p0, <1>p1, Booting, Loading DEF ValidateIdentity, Die, Off, BootsTo, SetsCreating, Replacing, Chosen,
      Done, Initialising, Mixed, Candidate, SigningStore, PlacesOK, Phase, outside, counters
<1>CrashCli. CrashCli => Done'
  BY Leaving, <1>j, PhaseList DEF CrashCli, Leaves, storeVars, outside, Replacing, Chosen, Done, Initialising,
      Mixed, InitPlaces, EncPlaces, PlacesOK, Phase
<1>Initialize. Initialize => Done'
  BY <1>p0, <1>p1, Moving, <1>j, PhaseList DEF Initialize, MovesTo, storeVars, outside, counters, Replacing,
      Chosen, Done, Initialising, Mixed, InitPlaces, EncPlaces, PlacesOK, Phase
<1>CreateSigningIdentity. CreateSigningIdentity => Done'
  BY FirstRun, FreshHosts DEF MovesTo, SetsMeta, SetsCreating, Replacing, Chosen, Done, ReplacedPhases,
      AfterEncryption, AfterClearing, AfterConfig, InitPlaces, EncPlaces, SignPlaces, ClearPlaces, PlacesOK,
      Phase
<1>SaveInitialConfig. SaveInitialConfig => Done'
  BY <1>p0, <1>p1, Moving, <1>j, PhaseList DEF SaveInitialConfig, MovesTo, storeVars, outside, counters,
      Replacing, Chosen, Done, Initialising, Mixed, InitPlaces, EncPlaces, PlacesOK, Phase
<1>InitialEncryption. InitialEncryption => Done'
  BY <1>p0, <1>p1, InitialKeys, FreshKeyLemma DEF MovesTo, Leaves, Gains, Records, Replacing, Chosen, Done,
      InitPlaces, EncPlaces, PlacesOK, Phase, outside, counters
<1>CreateFirstRunItem. SigningWrite /\ CreateFirstRunItem => Done'
  BY <1>p0, <1>p1, SigningWrites DEF SigningWrite, MovesTo, SetsItems, SetsMeta, SetsCreating, Replacing,
      Chosen, Done, Initialising, Mixed, Candidate, SigningStore, InitPlaces, EncPlaces, PlacesOK, Phase
<1>CreateFirstRunIndex. SigningWrite /\ CreateFirstRunIndex => Done'
  BY <1>p0, <1>p1, SigningWrites DEF SigningWrite, MovesTo, SetsItems, SetsMeta, SetsCreating, Replacing,
      Chosen, Done, Initialising, Mixed, Candidate, SigningStore, InitPlaces, EncPlaces, PlacesOK, Phase
<1>CreateFirstRunMetadata. SigningWrite /\ CreateFirstRunMetadata => Done'
  BY <1>p0, <1>p1, SigningWrites DEF SigningWrite, MovesTo, SetsItems, SetsMeta, SetsCreating, Replacing,
      Chosen, Done, Initialising, Mixed, Candidate, SigningStore, InitPlaces, EncPlaces, PlacesOK, Phase
<1>CreateFirstRunRollback. SigningWrite /\ CreateFirstRunRollback => Done'
  BY <1>p0, <1>p1, SigningWrites DEF SigningWrite, MovesTo, SetsItems, SetsMeta, SetsCreating, Replacing,
      Chosen, Done, Initialising, Mixed, Candidate, SigningStore, InitPlaces, EncPlaces, PlacesOK, Phase
<1>DeleteCreationSentinel. SigningWrite /\ DeleteCreationSentinel => Done'
  BY <1>p0, <1>p1, SigningWrites DEF SigningWrite, MovesTo, SetsItems, SetsMeta, SetsCreating, Replacing,
      Chosen, Done, InitPlaces, EncPlaces, PlacesOK, Phase, outside, counters
<1>WriteCandidateItem. SigningWrite /\ WriteCandidateItem => Done'
  BY <1>p0, <1>p1, SigningWrites DEF SigningWrite, MovesTo, SetsItems, SetsMeta, SetsCreating, Replacing,
      Chosen, Done, ReplacedPhases, AfterEncryption, AfterClearing, AfterConfig, InitPlaces, EncPlaces,
      SignPlaces, ClearPlaces, PlacesOK, Phase
<1>WriteIndexItem. SigningWrite /\ WriteIndexItem => Done'
  BY <1>p0, <1>p1, SigningWrites DEF SigningWrite, MovesTo, SetsItems, SetsMeta, SetsCreating, Replacing,
      Chosen, Done, ReplacedPhases, AfterEncryption, AfterClearing, AfterConfig, InitPlaces, EncPlaces,
      SignPlaces, ClearPlaces, PlacesOK, Phase
<1>WriteProfileMetadata. SigningWrite /\ WriteProfileMetadata => Done'
  BY <1>p0, <1>p1, SigningWrites DEF SigningWrite, MovesTo, SetsItems, SetsMeta, SetsCreating, Replacing,
      Chosen, Done, SigningResets, MaybeHost, MacSigning, LinuxSigning, InitPlaces, EncPlaces, SignPlaces,
      ClearPlaces, PlacesOK, Phase
<1>DeletePreviousItem. SigningWrite /\ DeletePreviousItem => Done'
  BY <1>p0, <1>p1, SigningWrites DEF SigningWrite, MovesTo, SetsItems, SetsMeta, SetsCreating, Replacing,
      Chosen, Done, InitPlaces, EncPlaces, SignPlaces, ClearPlaces, PlacesOK, Phase, outside, counters
<1>DeleteInterruptedItem. SigningWrite /\ DeleteInterruptedItem => Done'
  BY <1>p0, <1>p1, SigningWrites DEF SigningWrite, MovesTo, SetsItems, SetsMeta, SetsCreating, Replacing,
      Chosen, Done, InitPlaces, EncPlaces, SignPlaces, ClearPlaces, PlacesOK, Phase, outside, counters
<1>ClearCreationSentinel. SigningWrite /\ ClearCreationSentinel => Done'
  BY <1>p0, <1>p1, SigningWrites DEF SigningWrite, MovesTo, SetsItems, SetsMeta, SetsCreating, Replacing,
      Chosen, Done, Initialising, Mixed, Candidate, SigningStore, InitPlaces, EncPlaces, SignPlaces,
      ClearPlaces, PlacesOK, Phase
<1>CreateJournal. CreateJournal => Done'
  BY DEF CreateJournal, Replacing, Chosen, Done, ReplacedPhases, AfterEncryption, AfterClearing, AfterConfig,
      InitPlaces, EncPlaces, PlacesOK, Phase
<1>ResumeReset. ResumeReset => Done'
  BY <1>p1, <1>j, PhaseList DEF ResumeReset, storeVars, outside, counters, Replacing, Chosen, Done,
      Initialising, Mixed, InitPlaces, EncPlaces, PlacesOK, Phase
<1>StopAndConfirm. StopAndConfirm => Done'
  BY <1>p0, <1>p1, Moving, <1>j, PhaseList DEF StopAndConfirm, Die, Off, MovesTo, storeVars, counters,
      Replacing, Chosen, Done, Initialising, Mixed, InitPlaces, EncPlaces, PlacesOK, Phase
<1>AcquireRuntimeOwnership. AcquireRuntimeOwnership => Done'
  BY <1>p0, <1>p1, Moving, Leaving, Entering, <1>j, PhaseList DEF AcquireRuntimeOwnership, MovesTo, Leaves,
      Enters, storeVars, outside, counters, Replacing, Chosen, Done, Initialising, Mixed, MacSigning,
      LinuxSigning, ReplacedPhases, AfterEncryption, AfterClearing, AfterConfig, InitPlaces, EncPlaces,
      SignPlaces, ClearPlaces, PlacesOK, Phase
<1>InspectAndBindOldDomain. InspectAndBindOldDomain => Done'
  BY <1>p0, <1>p1, <1>b, Binding, Loading DEF SetsCreating, Binds, MovesTo, Leaves, Replacing, Chosen, Done,
      SigningResets, MaybeHost, MacSigning, LinuxSigning, ReplacedPhases, AfterEncryption, AfterClearing,
      AfterConfig, PlacesOK, Phase
<1>PersistRevokeIntent. PersistRevokeIntent => Done'
  BY <1>p1, Entering, <1>j, PhaseList DEF PersistRevokeIntent, At, MovesTo, Enters, Chosen, Done, Initialising,
      Mixed, MacSigning, LinuxSigning, ReplacedPhases, AfterEncryption, AfterClearing, AfterConfig, InitPlaces,
      EncPlaces, SignPlaces, ClearPlaces, PlacesOK, Phase
<1>RevokeOldIdentity. RevokeOldIdentity => Done'
  BY Leaving, Entering, <1>j, PhaseList DEF RevokeOldIdentity, At, MovesTo, Leaves, Enters, storeVars, counters,
      Replacing, Chosen, Done, Initialising, Mixed, MacSigning, LinuxSigning, ReplacedPhases, AfterEncryption,
      AfterClearing, AfterConfig, InitPlaces, EncPlaces, SignPlaces, ClearPlaces, PlacesOK, Phase
<1>PersistSigningReplacementIntent. PersistSigningReplacementIntent => Done'
  BY <1>p1, Entering, <1>j, PhaseList DEF PersistSigningReplacementIntent, At, MovesTo, Enters, Chosen, Done,
      Initialising, Mixed, MacSigning, LinuxSigning, ReplacedPhases, AfterEncryption, AfterClearing,
      AfterConfig, InitPlaces, EncPlaces, SignPlaces, ClearPlaces, PlacesOK, Phase
<1>AdoptOrReplaceSigningIdentity. AdoptOrReplaceSigningIdentity => Done'
  BY <1>p0, <1>p1, <1>b, AdoptingOrReplacing, FreshHosts, BoundEvidence DEF MovesTo, SetsMeta, SetsSentinel,
      Leaves, Replacing, Chosen, Done, Initialising, Mixed, Candidate, Proven, SigningStore, SigningResets,
      MaybeHost, MacSigning, LinuxSigning, ReplacedPhases, AfterEncryption, AfterClearing, AfterConfig,
      BoundPhases, UnfilledPhases, InitPlaces, EncPlaces, SignPlaces, ClearPlaces, PlacesOK, At, Phase,
      storeVars, outside, counters
<1>CommitSigning. CommitSigning => Done'
  BY <1>p0, <1>p1, <1>b, Adopting DEF CommitSigning, MovesTo, Replacing, Chosen, Done, Initialising, Mixed,
      Candidate, SigningStore, SigningResets, MaybeHost, MacSigning, LinuxSigning, ReplacedPhases,
      AfterEncryption, AfterClearing, AfterConfig, InitPlaces, EncPlaces, SignPlaces, ClearPlaces, PlacesOK,
      Phase, storeVars, outside, counters
<1>FinalizeSigning. FinalizeSigning => Done'
  BY <1>p1, Completing DEF MovesTo, SetsSentinel, Leaves, Replacing, Chosen, Done, InitPlaces, EncPlaces,
      PlacesOK, Phase, outside, counters
<1>ReplaceEncryptionIdentity. ReplaceEncryptionIdentity => Done'
  BY ReplacingKeyFrame DEF Done, Initialising, InitPlaces, EncPlaces
<1>WriteEncryptionItem. EncryptionWrite /\ WriteEncryptionItem => Done'
  BY <1>p0, <1>p1, EncryptionWrites DEF EncryptionWrite, MovesTo, Gains, Records, Drops, Replacing, Chosen,
      Done, InitPlaces, EncPlaces, PlacesOK, Phase, outside, counters
<1>WriteEncryptionMetadata. EncryptionWrite /\ WriteEncryptionMetadata => Done'
  BY <1>p0, <1>p1, EncryptionWrites DEF EncryptionWrite, MovesTo, Gains, Records, Drops, Replacing, Chosen,
      Done, InitPlaces, EncPlaces, PlacesOK, Phase, outside, counters
<1>DeletePreviousEncryptionItems. EncryptionWrite /\ DeletePreviousEncryptionItems => Done'
  BY <1>p0, <1>p1, EncryptionWrites DEF EncryptionWrite, MovesTo, Gains, Records, Drops, Replacing, Chosen,
      Done, InitPlaces, EncPlaces, PlacesOK, Phase, outside, counters
<1>CommitEncryption. CommitEncryption => Done'
  BY <1>p0, <1>p1, Entering, <1>j, PhaseList DEF CommitEncryption, MovesTo, Enters, storeVars, outside,
      counters, Replacing, Chosen, Done, Initialising, Mixed, MacSigning, LinuxSigning, ReplacedPhases,
      AfterEncryption, AfterClearing, AfterConfig, InitPlaces, EncPlaces, PlacesOK, Phase
<1>FinalizeEncryption. FinalizeEncryption => Done'
  BY CompletingKey DEF KeyIsReplaced, MovesTo, SetsKeySentinel, Leaves, Replacing, Chosen, Done, InitPlaces,
      EncPlaces, PlacesOK, Phase, outside, counters
<1>ClearArtifacts. ClearArtifacts => Done'
  BY <1>p0, <1>p1, Clearing DEF SetsState, SetsSpool, SetsReset, MovesTo, Replacing, Chosen, Done, Initialising,
      EncPlaces, SignPlaces, Phase, storeVars, outside, counters
<1>ClearSpoolKey. ClearSpoolKey => Done'
  BY <1>p0, <1>p1, ClearingKey DEF MovesTo, Leaves, SetsKey, SetsItem, Replacing, Chosen, Done, Initialising,
      EncPlaces, SignPlaces, Phase, storeVars, outside, counters
<1>CommitCleared. CommitCleared => Done'
  BY <1>p0, <1>p1, Entering, <1>j, PhaseList DEF CommitCleared, MovesTo, Enters, storeVars, outside, counters,
      Replacing, Chosen, Done, Initialising, Mixed, MacSigning, LinuxSigning, ReplacedPhases, AfterEncryption,
      SignPlaces, ClearPlaces, PlacesOK, Phase
<1>PersistConfig. PersistConfig => Done'
  BY <1>p0, <1>p1, Leaving, Entering, <1>j, PhaseList DEF PersistConfig, At, MovesTo, Leaves, Enters, storeVars,
      outside, counters, Replacing, Chosen, Done, Initialising, Mixed, MacSigning, LinuxSigning, ReplacedPhases,
      AfterEncryption, AfterClearing, AfterConfig, InitPlaces, EncPlaces, SignPlaces, ClearPlaces, PlacesOK,
      Phase
<1>EnrollNewIdentity. EnrollNewIdentity => Done'
  BY Leaving, Entering, <1>j, PhaseList DEF EnrollNewIdentity, At, MovesTo, Leaves, Enters, storeVars, counters,
      Replacing, Chosen, Done, Initialising, Mixed, MacSigning, LinuxSigning, ReplacedPhases, AfterEncryption,
      AfterClearing, AfterConfig, InitPlaces, EncPlaces, SignPlaces, ClearPlaces, PlacesOK, Phase
<1>SyncServiceMetadata. SyncServiceMetadata => Done'
  BY Leaving, Entering, <1>j, PhaseList DEF SyncServiceMetadata, At, MovesTo, Leaves, Enters, storeVars,
      counters, Replacing, Chosen, Done, Initialising, Mixed, MacSigning, LinuxSigning, ReplacedPhases,
      AfterEncryption, AfterClearing, AfterConfig, InitPlaces, EncPlaces, SignPlaces, ClearPlaces, PlacesOK,
      Phase
<1>PersistServiceRestoreIntent. PersistServiceRestoreIntent => Done'
  BY <1>p0, <1>p1, Leaving, Entering, <1>j, PhaseList DEF PersistServiceRestoreIntent, At, MovesTo, Leaves,
      Enters, storeVars, outside, counters, Replacing, Chosen, Done, Initialising, Mixed, MacSigning,
      LinuxSigning, ReplacedPhases, AfterEncryption, AfterClearing, AfterConfig, InitPlaces, EncPlaces,
      SignPlaces, ClearPlaces, PlacesOK, Phase
<1>VerifyReplacement. VerifyReplacement => Done'
  BY Moving, Leaving, <1>j, PhaseList DEF VerifyReplacement, At, MovesTo, Leaves, storeVars, outside, counters,
      Replacing, Chosen, Done, Initialising, Mixed, AfterClearing, AfterConfig, InitPlaces, EncPlaces, PlacesOK,
      Phase
<1>RestoreService. RestoreService => Done'
  BY <1>p0, <1>p1, Restoring DEF MovesTo, Leaves, Replacing, Chosen, Done, InitPlaces, EncPlaces, PlacesOK,
      Phase, storeVars, counters
<1>ConfirmAndRemoveJournal. ConfirmAndRemoveJournal => Done'
  BY Leaving, <1>j, PhaseList DEF ConfirmAndRemoveJournal, Leaves, storeVars, outside, Replacing, Chosen, Done,
      Initialising, Mixed, MacSigning, LinuxSigning, ReplacedPhases, AfterEncryption, AfterClearing,
      AfterConfig, InitPlaces, EncPlaces, PlacesOK, Phase
<1>unchanged. UNCHANGED <<platform, signing, cli, journal>> => Done'
  BY DEF Phase, Mixed, Candidate, Done
<1> QED BY <1>ValidateIdentity, <1>CrashCli, <1>Initialize, <1>CreateSigningIdentity, <1>SaveInitialConfig,
           <1>InitialEncryption, <1>CreateFirstRunItem, <1>CreateFirstRunIndex, <1>CreateFirstRunMetadata,
           <1>CreateFirstRunRollback, <1>DeleteCreationSentinel, <1>WriteCandidateItem, <1>WriteIndexItem,
           <1>WriteProfileMetadata, <1>DeletePreviousItem, <1>DeleteInterruptedItem, <1>ClearCreationSentinel,
           <1>CreateJournal, <1>ResumeReset, <1>StopAndConfirm, <1>AcquireRuntimeOwnership,
           <1>InspectAndBindOldDomain, <1>PersistRevokeIntent, <1>RevokeOldIdentity,
           <1>PersistSigningReplacementIntent, <1>AdoptOrReplaceSigningIdentity, <1>CommitSigning,
           <1>FinalizeSigning, <1>ReplaceEncryptionIdentity, <1>WriteEncryptionItem, <1>WriteEncryptionMetadata,
           <1>DeletePreviousEncryptionItems, <1>CommitEncryption, <1>FinalizeEncryption, <1>ClearArtifacts,
           <1>ClearSpoolKey, <1>CommitCleared, <1>PersistConfig, <1>EnrollNewIdentity, <1>SyncServiceMetadata,
           <1>PersistServiceRestoreIntent, <1>VerifyReplacement, <1>RestoreService, <1>ConfirmAndRemoveJournal,
           <1>unchanged, Changes

\* Every step keeps Initialising: a first run, cut off anywhere, leaves evidence of one Host that
\* nothing else names.
LEMMA InitialisingPreserved ==
  ASSUME TypeOK, PlacesOK, Done, LocksOK, Initialising, LinuxSigning, MacSigning, DaemonOK, OwnOK, [Next]_vars
  PROVE  Initialising'
<1>j. cli.at \in {"acquire", "run", "enc-commit", "clear-commit", "sign-commit"} => journal # None
  BY DEF PlacesOK, Phase, SignPlaces, EncPlaces, ClearPlaces
<1>b. InspectAndBindOldDomain \/ CommitSigning \/ AdoptOrReplaceSigningIdentity => journal # None
  BY DEF InspectAndBindOldDomain, CommitSigning, AdoptOrReplaceSigningIdentity, At, PlacesOK, SignPlaces, Phase
<1>p0. platform \in {"linux","darwin"} /\ None \notin Hosts /\ signing \in SigningStore /\ boot \in Boot
  BY Kinds, NoneIsNothing
<1>p1. journal = None => config \in {None, signing.meta}
  BY DEF OwnOK, Mixed, Candidate, Phase, ReplacedPhases, AfterEncryption, AfterClearing
<1>SpawnDaemon. SpawnDaemon => Initialising'
  BY <1>p1, <1>j, PhaseList DEF SpawnDaemon, Off, storeVars, outside, counters, Initialising, SigningStatus,
      InitPlaces, EncPlaces, PlacesOK, Phase
<1>GuardStart. GuardStart => Initialising'
  BY PhaseList DEF GuardStart, Off, storeVars, outside, counters, Initialising, SigningStatus
<1>AcquireRuntimeLock. AcquireRuntimeLock => Initialising'
  BY <1>p0, <1>p1, Booting, <1>j, PhaseList DEF AcquireRuntimeLock, Die, Off, BootsTo, storeVars, outside,
      counters, Initialising, SigningStatus
<1>ValidateIdentity. ValidateIdentity => Initialising'
  BY Loading DEF ValidateIdentity, Die, Off, BootsTo, SetsCreating, Initialising, SigningStatus, outside,
      counters
<1>PreflightRuntime. RuntimeStep /\ PreflightRuntime => Initialising'
  BY Preflighting, Verdicts DEF RuntimeStep, Initialising, SigningStatus, SigningStore, Phase, storeVars,
      counters
<1>BeginResetKey. RuntimeStep /\ BeginResetKey => Initialising'
  BY ResetKeyWrites DEF RuntimeStep, SetsItem, SetsKey, BootsTo, Initialising, SigningStatus, SigningStore,
      Phase, storeVars, outside, counters
<1>BeginRuntimeReset. RuntimeStep /\ BeginRuntimeReset => Initialising'
  BY <1>p1, PreflightWrites DEF RuntimeStep, SetsReset, BootsTo, Initialising, SigningStatus, SigningStore,
      Phase, storeVars, outside, counters
<1>ReplaceSpool. RuntimeStep /\ ReplaceSpool => Initialising'
  BY <1>p1, PreflightWrites DEF RuntimeStep, SetsReset, SetsSpool, SetsState, SetsMigration, SetsFloor, BootsTo,
      Initialising, SigningStatus, SigningStore, Phase, storeVars, outside, counters
<1>ReplaceState. RuntimeStep /\ ReplaceState => Initialising'
  BY <1>p1, PreflightWrites DEF RuntimeStep, SetsReset, SetsSpool, SetsState, SetsMigration, SetsFloor, BootsTo,
      Initialising, SigningStatus, SigningStore, Phase, storeVars, outside, counters
<1>RemoveResetIntent. RuntimeStep /\ RemoveResetIntent => Initialising'
  BY <1>p1, PreflightWrites DEF RuntimeStep, SetsReset, BootsTo, Initialising, SigningStatus, SigningStore,
      Phase, storeVars, outside, counters
<1>BeginRuntimeMigration. RuntimeStep /\ BeginRuntimeMigration => Initialising'
  BY <1>p1, PreflightWrites DEF RuntimeStep, SetsReset, BootsTo, Initialising, SigningStatus, SigningStore,
      MaybeHost, DaemonOK, Inside, InitPlaces, Phase, storeVars, outside, counters
<1>MigrateSpool. RuntimeStep /\ MigrateSpool => Initialising'
  BY <1>p1, PreflightWrites DEF RuntimeStep, SetsReset, SetsSpool, SetsState, SetsMigration, SetsFloor, BootsTo,
      Initialising, SigningStatus, SigningStore, Phase, storeVars, outside, counters
<1>MigrateState. RuntimeStep /\ MigrateState => Initialising'
  BY <1>p1, PreflightWrites DEF RuntimeStep, SetsReset, SetsSpool, SetsState, SetsMigration, SetsFloor, BootsTo,
      Initialising, SigningStatus, SigningStore, Phase, storeVars, outside, counters
<1>MigrateFloor. RuntimeStep /\ MigrateFloor => Initialising'
  BY <1>p1, PreflightWrites DEF RuntimeStep, SetsReset, SetsSpool, SetsState, SetsMigration, SetsFloor, BootsTo,
      Initialising, SigningStatus, SigningStore, Phase, storeVars, outside, counters
<1>RemoveMigrationIntent. RuntimeStep /\ RemoveMigrationIntent => Initialising'
  BY <1>p1, PreflightWrites DEF RuntimeStep, SetsReset, SetsSpool, SetsState, SetsMigration, SetsFloor, BootsTo,
      Initialising, SigningStatus, SigningStore, Phase, storeVars, outside, counters
<1>EstablishFloor. RuntimeStep /\ EstablishFloor => Initialising'
  BY <1>p1, PreflightWrites DEF RuntimeStep, SetsReset, SetsSpool, SetsState, SetsMigration, SetsFloor, BootsTo,
      Initialising, SigningStatus, SigningStore, Phase, storeVars, outside, counters
<1>OpenSpool. RuntimeStep /\ OpenSpool => Initialising'
  BY <1>p0, <1>p1, Booting DEF OpenSpool, RuntimeStep, BootsTo, storeVars, outside, counters, Initialising,
      SigningStatus
<1>Work. RuntimeStep /\ Work => Initialising'
  BY <1>p1, PreflightWrites DEF RuntimeStep, SetsReset, SetsSpool, SetsState, SetsMigration, SetsFloor, BootsTo,
      Initialising, SigningStatus, SigningStore, Phase, storeVars, outside, counters
<1>LoadEncryption. LoadEncryption => Initialising'
  BY <1>p1, DaemonKeys, FreshKeyLemma DEF BootsTo, Initialising, SigningStatus, outside, counters
<1>RecordEncryption. RecordEncryption => Initialising'
  BY <1>p0, <1>p1, Booting, KeyWrites DEF RecordEncryption, BootsTo, outside, counters, Initialising,
      SigningStatus
<1>StopDaemon. StopDaemon => Initialising'
  BY DEF StopDaemon, Die, Off, storeVars, outside, counters, Initialising, SigningStatus
<1>CrashDaemon. CrashDaemon => Initialising'
  BY PhaseList DEF CrashDaemon, Die, Off, storeVars, outside, Initialising, SigningStatus
<1>CrashCli. CrashCli => Initialising'
  BY <1>p1, Leaving DEF CrashCli, Leaves, Initialising
<1>Initialize. Initialize => Initialising'
  BY Moving, <1>j, PhaseList DEF Initialize, MovesTo, storeVars, Initialising, SigningStatus
<1>CreateSigningIdentity. CreateSigningIdentity => Initialising'
  BY <1>p1, FirstRun, FreshHosts DEF MovesTo, SetsMeta, SetsCreating, Initialising, SigningStatus, outside,
      counters
<1>SaveInitialConfig. SaveInitialConfig => Initialising'
  BY Moving, <1>j, PhaseList DEF SaveInitialConfig, MovesTo, storeVars, Initialising
<1>InitialEncryption. InitialEncryption => Initialising'
  BY InitialKeys, FreshKeyLemma DEF MovesTo, Leaves, Initialising, SigningStatus, outside, counters
<1>CreateFirstRunItem. SigningWrite /\ CreateFirstRunItem => Initialising'
  BY SigningWrites DEF SigningWrite, MovesTo, SetsItems, Initialising, SigningStatus, outside, counters
<1>CreateFirstRunIndex. SigningWrite /\ CreateFirstRunIndex => Initialising'
  BY <1>p0, <1>p1, SigningWrites DEF SigningWrite, MovesTo, SetsItems, SetsMeta, SetsCreating, Initialising,
      SigningStatus, SigningStore, MaybeHost, DaemonOK, Inside, Off, ReplacedPhases, AfterEncryption,
      AfterClearing, AfterConfig, BoundPhases, UnfilledPhases, InitPlaces, EncPlaces, SignPlaces, ClearPlaces,
      PlacesOK, At, Phase, storeVars, outside, counters
<1>CreateFirstRunMetadata. SigningWrite /\ CreateFirstRunMetadata => Initialising'
  BY SigningWrites DEF SigningWrite, MovesTo, SetsItems, SetsMeta, SetsCreating, Initialising, SigningStatus,
      outside, counters
<1>CreateFirstRunRollback. SigningWrite /\ CreateFirstRunRollback => Initialising'
  BY SigningWrites DEF SigningWrite, MovesTo, Initialising
<1>DeleteCreationSentinel. SigningWrite /\ DeleteCreationSentinel => Initialising'
  BY SigningWrites DEF SigningWrite, MovesTo, SetsItems, SetsMeta, SetsCreating, Initialising
<1>WriteCandidateItem. SigningWrite /\ WriteCandidateItem => Initialising'
  BY SigningWrites DEF SigningWrite, MovesTo, Initialising
<1>WriteIndexItem. SigningWrite /\ WriteIndexItem => Initialising'
  BY SigningWrites DEF SigningWrite, MovesTo, Initialising
<1>WriteProfileMetadata. SigningWrite /\ WriteProfileMetadata => Initialising'
  BY SigningWrites DEF SigningWrite, MovesTo, Initialising
<1>DeletePreviousItem. SigningWrite /\ DeletePreviousItem => Initialising'
  BY SigningWrites DEF SigningWrite, MovesTo, Initialising
<1>DeleteInterruptedItem. SigningWrite /\ DeleteInterruptedItem => Initialising'
  BY SigningWrites DEF SigningWrite, MovesTo, Initialising
<1>ClearCreationSentinel. SigningWrite /\ ClearCreationSentinel => Initialising'
  BY SigningWrites DEF SigningWrite, MovesTo, Initialising
<1>CreateJournal. CreateJournal => Initialising'
  BY DEF CreateJournal, Initialising
<1>ResumeReset. ResumeReset => Initialising'
  BY DEF ResumeReset, Initialising
<1>StopAndConfirm. StopAndConfirm => Initialising'
  BY <1>p0, <1>p1, Moving DEF StopAndConfirm, Die, Off, MovesTo, Initialising, SigningStatus
<1>AcquireRuntimeOwnership. AcquireRuntimeOwnership => Initialising'
  BY Moving, Leaving, Entering, <1>j, PhaseList DEF AcquireRuntimeOwnership, MovesTo, Leaves, Initialising,
      SigningStatus
<1>InspectAndBindOldDomain. InspectAndBindOldDomain => Initialising'
  BY <1>p1, <1>b, Binding, Loading DEF MovesTo, Leaves, Initialising
<1>PersistRevokeIntent. PersistRevokeIntent => Initialising'
  BY Entering, <1>j, PhaseList DEF PersistRevokeIntent, At, MovesTo, Initialising
<1>RevokeOldIdentity. RevokeOldIdentity => Initialising'
  BY <1>p1, Leaving, Entering, <1>j, PhaseList DEF RevokeOldIdentity, At, MovesTo, Leaves, Enters, Initialising,
      SigningStatus
<1>PersistSigningReplacementIntent. PersistSigningReplacementIntent => Initialising'
  BY Entering, <1>j, PhaseList DEF PersistSigningReplacementIntent, At, MovesTo, Initialising
<1>AdoptOrReplaceSigningIdentity. AdoptOrReplaceSigningIdentity => Initialising'
  BY <1>p0, <1>p1, <1>b, AdoptingOrReplacing, FreshHosts DEF MovesTo, SetsMeta, SetsSentinel, Leaves,
      Initialising, SigningStatus, SigningStore, MaybeHost, DaemonOK, Inside, Off, ReplacedPhases,
      AfterEncryption, AfterClearing, AfterConfig, BoundPhases, UnfilledPhases, InitPlaces, EncPlaces,
      SignPlaces, ClearPlaces, PlacesOK, At, Phase, storeVars, outside, counters
<1>CommitSigning. CommitSigning => Initialising'
  BY <1>p1, <1>b, Adopting DEF MovesTo, Initialising
<1>FinalizeSigning. FinalizeSigning => Initialising'
  BY Completing DEF MovesTo, Leaves, Initialising
<1>ReplaceEncryptionIdentity. ReplaceEncryptionIdentity => Initialising'
  BY ReplacingKeyFrame DEF Initialising
<1>WriteEncryptionItem. EncryptionWrite /\ WriteEncryptionItem => Initialising'
  BY EncryptionWrites DEF EncryptionWrite, MovesTo, Initialising
<1>WriteEncryptionMetadata. EncryptionWrite /\ WriteEncryptionMetadata => Initialising'
  BY EncryptionWrites DEF EncryptionWrite, MovesTo, Initialising
<1>DeletePreviousEncryptionItems. EncryptionWrite /\ DeletePreviousEncryptionItems => Initialising'
  BY EncryptionWrites DEF EncryptionWrite, MovesTo, Initialising
<1>CommitEncryption. CommitEncryption => Initialising'
  BY <1>p1, Entering, <1>j, PhaseList DEF CommitEncryption, MovesTo, Initialising
<1>FinalizeEncryption. FinalizeEncryption => Initialising'
  BY <1>p1, CompletingKey DEF KeyIsReplaced, MovesTo, SetsKeySentinel, Leaves, Initialising
<1>ClearArtifacts. ClearArtifacts => Initialising'
  BY Clearing DEF MovesTo, Initialising
<1>ClearSpoolKey. ClearSpoolKey => Initialising'
  BY ClearingKey DEF MovesTo, Leaves, Initialising
<1>CommitCleared. CommitCleared => Initialising'
  BY <1>p1, Entering, <1>j, PhaseList DEF CommitCleared, MovesTo, Initialising
<1>PersistConfig. PersistConfig => Initialising'
  BY Leaving, Entering, <1>j, PhaseList DEF PersistConfig, At, MovesTo, Leaves, Initialising, SigningStatus
<1>EnrollNewIdentity. EnrollNewIdentity => Initialising'
  BY <1>p1, Leaving, Entering, <1>j, PhaseList DEF EnrollNewIdentity, At, MovesTo, Leaves, Enters, Initialising,
      SigningStatus
<1>SyncServiceMetadata. SyncServiceMetadata => Initialising'
  BY <1>p1, Leaving, Entering, <1>j, PhaseList DEF SyncServiceMetadata, At, MovesTo, Leaves, Enters,
      Initialising, SigningStatus
<1>PersistServiceRestoreIntent. PersistServiceRestoreIntent => Initialising'
  BY Leaving, Entering, <1>j, PhaseList DEF PersistServiceRestoreIntent, At, MovesTo, Leaves, Initialising,
      SigningStatus
<1>VerifyReplacement. VerifyReplacement => Initialising'
  BY <1>p1, Moving, Leaving, <1>j, PhaseList DEF VerifyReplacement, At, MovesTo, Leaves, storeVars,
      Initialising, SigningStatus
<1>RestoreService. RestoreService => Initialising'
  BY <1>p1, Restoring DEF MovesTo, Leaves, Initialising
<1>ConfirmAndRemoveJournal. ConfirmAndRemoveJournal => Initialising'
  BY <1>p1, Leaving DEF ConfirmAndRemoveJournal, Leaves, Initialising
<1>unchanged. UNCHANGED <<platform, disk, boot, signing, cli>> => Initialising'
  BY DEF Initialising, SigningStatus
<1> QED BY <1>SpawnDaemon, <1>GuardStart, <1>AcquireRuntimeLock, <1>ValidateIdentity, <1>PreflightRuntime,
           <1>BeginResetKey, <1>BeginRuntimeReset, <1>ReplaceSpool, <1>ReplaceState, <1>RemoveResetIntent,
           <1>BeginRuntimeMigration, <1>MigrateSpool, <1>MigrateState, <1>MigrateFloor,
           <1>RemoveMigrationIntent, <1>EstablishFloor, <1>OpenSpool, <1>Work, <1>LoadEncryption,
           <1>RecordEncryption, <1>StopDaemon, <1>CrashDaemon, <1>CrashCli, <1>Initialize,
           <1>CreateSigningIdentity, <1>SaveInitialConfig, <1>InitialEncryption, <1>CreateFirstRunItem,
           <1>CreateFirstRunIndex, <1>CreateFirstRunMetadata, <1>CreateFirstRunRollback,
           <1>DeleteCreationSentinel, <1>WriteCandidateItem, <1>WriteIndexItem, <1>WriteProfileMetadata,
           <1>DeletePreviousItem, <1>DeleteInterruptedItem, <1>ClearCreationSentinel, <1>CreateJournal,
           <1>ResumeReset, <1>StopAndConfirm, <1>AcquireRuntimeOwnership, <1>InspectAndBindOldDomain,
           <1>PersistRevokeIntent, <1>RevokeOldIdentity, <1>PersistSigningReplacementIntent,
           <1>AdoptOrReplaceSigningIdentity, <1>CommitSigning, <1>FinalizeSigning, <1>ReplaceEncryptionIdentity,
           <1>WriteEncryptionItem, <1>WriteEncryptionMetadata, <1>DeletePreviousEncryptionItems,
           <1>CommitEncryption, <1>FinalizeEncryption, <1>ClearArtifacts, <1>ClearSpoolKey, <1>CommitCleared,
           <1>PersistConfig, <1>EnrollNewIdentity, <1>SyncServiceMetadata, <1>PersistServiceRestoreIntent,
           <1>VerifyReplacement, <1>RestoreService, <1>ConfirmAndRemoveJournal, <1>unchanged, Changes

\* Every step keeps Bound: until a candidate exists the journal's evidence is still what the store
\* holds.
LEMMA BoundPreserved ==
  ASSUME TypeOK, PlacesOK, JournalOK, Done, LinuxSigning, MacSigning, Bound, Replacing, [Next]_vars
  PROVE  Bound'
<1>j. cli.at \in {"acquire", "run", "enc-commit", "clear-commit", "sign-commit"} => journal # None
  BY DEF PlacesOK, Phase, SignPlaces, EncPlaces, ClearPlaces
<1>b. InspectAndBindOldDomain \/ CommitSigning \/ AdoptOrReplaceSigningIdentity => journal # None
  BY DEF InspectAndBindOldDomain, CommitSigning, AdoptOrReplaceSigningIdentity, At, PlacesOK, SignPlaces, Phase
<1>p0. platform \in {"linux","darwin"} /\ None \notin Hosts /\ signing \in SigningStore
  BY Kinds, NoneIsNothing
<1>p1. journal # None => journal.op # NoOp
  BY Kinds DEF Journals, Ops, NoOp
<1>ValidateIdentity. ValidateIdentity => Bound'
  BY Loading DEF ValidateIdentity, Die, Off, BootsTo, SetsCreating, Bound, Candidate, SigningStatus, Evidence,
      PlacesOK, Phase, outside, counters
<1>CreateSigningIdentity. CreateSigningIdentity => Bound'
  BY <1>p1, FirstRun, FreshHosts DEF MovesTo, SetsMeta, SetsCreating, Bound, Candidate, AfterEncryption,
      AfterClearing, AfterConfig, BoundPhases, InitPlaces, EncPlaces, SignPlaces, ClearPlaces, PlacesOK, Phase
<1>CreateFirstRunItem. SigningWrite /\ CreateFirstRunItem => Bound'
  BY SigningWrites DEF SigningWrite, MovesTo, SetsItems, SetsMeta, SetsCreating, Bound, Candidate,
      AfterEncryption, AfterClearing, AfterConfig, BoundPhases, InitPlaces, EncPlaces, SignPlaces, ClearPlaces,
      PlacesOK, Phase
<1>CreateFirstRunIndex. SigningWrite /\ CreateFirstRunIndex => Bound'
  BY SigningWrites DEF SigningWrite, MovesTo, SetsItems, SetsMeta, SetsCreating, Bound, Candidate,
      AfterEncryption, AfterClearing, AfterConfig, BoundPhases, InitPlaces, EncPlaces, SignPlaces, ClearPlaces,
      PlacesOK, Phase
<1>CreateFirstRunMetadata. SigningWrite /\ CreateFirstRunMetadata => Bound'
  BY SigningWrites DEF SigningWrite, MovesTo, SetsItems, SetsMeta, SetsCreating, Bound, Candidate,
      AfterEncryption, AfterClearing, AfterConfig, BoundPhases, InitPlaces, EncPlaces, SignPlaces, ClearPlaces,
      PlacesOK, Phase
<1>CreateFirstRunRollback. SigningWrite /\ CreateFirstRunRollback => Bound'
  BY SigningWrites DEF SigningWrite, MovesTo, SetsItems, SetsMeta, SetsCreating, Bound, Candidate,
      AfterEncryption, AfterClearing, AfterConfig, BoundPhases, InitPlaces, EncPlaces, SignPlaces, ClearPlaces,
      PlacesOK, Phase
<1>DeleteCreationSentinel. SigningWrite /\ DeleteCreationSentinel => Bound'
  BY SigningWrites DEF SigningWrite, MovesTo, SetsItems, SetsMeta, SetsCreating, Bound, Candidate,
      AfterEncryption, AfterClearing, AfterConfig, BoundPhases, InitPlaces, EncPlaces, SignPlaces, ClearPlaces,
      PlacesOK, Phase
<1>WriteCandidateItem. SigningWrite /\ WriteCandidateItem => Bound'
  BY SigningWrites DEF SigningWrite, MovesTo, SetsItems, SetsMeta, SetsCreating, Bound, Candidate,
      SigningStatus, Evidence, MacSigning, LinuxSigning, Done, SigningStore, SigningResets, ReplacedPhases,
      PlacesOK, Phase, outside, counters
<1>WriteIndexItem. SigningWrite /\ WriteIndexItem => Bound'
  BY <1>p0, <1>p1, SigningWrites DEF SigningWrite, MovesTo, SetsItems, SetsMeta, SetsCreating, Bound, Candidate,
      SigningStatus, Evidence, MacSigning, LinuxSigning, Done, SigningStore, SigningResets, ReplacedPhases,
      PlacesOK, Phase
<1>WriteProfileMetadata. SigningWrite /\ WriteProfileMetadata => Bound'
  BY <1>p0, <1>p1, SigningWrites DEF SigningWrite, MovesTo, SetsItems, SetsMeta, SetsCreating, Bound, Candidate,
      SigningStatus, Evidence, MacSigning, LinuxSigning, Done, SigningStore, SigningResets, ReplacedPhases,
      PlacesOK, Phase
<1>DeletePreviousItem. SigningWrite /\ DeletePreviousItem => Bound'
  BY <1>p0, <1>p1, SigningWrites DEF SigningWrite, MovesTo, SetsItems, SetsMeta, SetsCreating, Bound, Candidate,
      SigningStatus, Evidence, MacSigning, LinuxSigning, Done, SigningStore, SigningResets, ReplacedPhases,
      PlacesOK, Phase
<1>DeleteInterruptedItem. SigningWrite /\ DeleteInterruptedItem => Bound'
  BY <1>p0, <1>p1, SigningWrites DEF SigningWrite, MovesTo, SetsItems, SetsMeta, SetsCreating, Bound, Candidate,
      SigningStatus, Evidence, MacSigning, LinuxSigning, Done, SigningStore, SigningResets, ReplacedPhases,
      PlacesOK, Phase
<1>ClearCreationSentinel. SigningWrite /\ ClearCreationSentinel => Bound'
  BY <1>p0, <1>p1, SigningWrites DEF SigningWrite, MovesTo, SetsItems, SetsMeta, SetsCreating, Bound, Candidate,
      SigningStatus, Evidence, MacSigning, LinuxSigning, Done, SigningStore, SigningResets, ReplacedPhases,
      PlacesOK, Phase
<1>CreateJournal. CreateJournal => Bound'
  BY Creating DEF CreateJournal, Bound, Candidate, AfterConfig, BoundPhases, PlacesOK, Phase
<1>AcquireRuntimeOwnership. AcquireRuntimeOwnership => Bound'
  BY Moving, Leaving, Entering, <1>j, PhaseList DEF AcquireRuntimeOwnership, MovesTo, Leaves, Enters, storeVars,
      outside, counters, Bound, Candidate, SigningStatus, Evidence, AfterConfig, BoundPhases, PlacesOK, Phase
<1>InspectAndBindOldDomain. InspectAndBindOldDomain => Bound'
  BY BindingHolds
<1>PersistRevokeIntent. PersistRevokeIntent => Bound'
  BY <1>p0, <1>p1, Entering, <1>j, PhaseList DEF PersistRevokeIntent, At, MovesTo, Enters, storeVars, outside,
      counters, Bound, Candidate, SigningStatus, Evidence, SigningResets, ReplacedPhases, AfterEncryption,
      AfterClearing, AfterConfig, BoundPhases, InitPlaces, EncPlaces, PlacesOK, Phase
<1>RevokeOldIdentity. RevokeOldIdentity => Bound'
  BY <1>p1, Leaving, Entering, <1>j, PhaseList DEF RevokeOldIdentity, At, MovesTo, Leaves, Enters, storeVars,
      counters, Bound, Candidate, SigningStatus, Evidence, SigningResets, ReplacedPhases, AfterEncryption,
      AfterClearing, AfterConfig, BoundPhases, InitPlaces, EncPlaces, SignPlaces, ClearPlaces, PlacesOK, Phase
<1>PersistSigningReplacementIntent. PersistSigningReplacementIntent => Bound'
  BY <1>p0, <1>p1, Entering, <1>j, PhaseList DEF PersistSigningReplacementIntent, At, MovesTo, Enters,
      storeVars, outside, counters, Bound, Candidate, SigningStatus, Evidence, SigningResets, ReplacedPhases,
      AfterEncryption, AfterClearing, AfterConfig, BoundPhases, InitPlaces, EncPlaces, PlacesOK, Phase
<1>AdoptOrReplaceSigningIdentity. AdoptOrReplaceSigningIdentity => Bound'
  BY Choosing, FreshHosts DEF Bound, Candidate, SigningStatus, Evidence, PlacesOK, Phase
<1>CommitSigning. CommitSigning => Bound'
  BY <1>p1, <1>b, Adopting DEF CommitSigning, MovesTo, Bound, Candidate, SigningStatus, AfterClearing,
      AfterConfig, BoundPhases, InitPlaces, Phase, storeVars
<1>FinalizeSigning. FinalizeSigning => Bound'
  BY <1>p0, <1>p1, Completing DEF MovesTo, SetsSentinel, Leaves, Bound, Candidate, SigningStatus, Evidence,
      PlacesOK, Phase, outside, counters
<1>CommitEncryption. CommitEncryption => Bound'
  BY <1>p0, <1>p1, Entering, <1>j, PhaseList DEF CommitEncryption, MovesTo, Enters, storeVars, outside,
      counters, Bound, Candidate, SigningStatus, Evidence, AfterConfig, BoundPhases, PlacesOK, Phase
<1>CommitCleared. CommitCleared => Bound'
  BY <1>p0, <1>p1, Entering, <1>j, PhaseList DEF CommitCleared, MovesTo, Enters, storeVars, outside, counters,
      Bound, Candidate, SigningStatus, Evidence, AfterConfig, BoundPhases, PlacesOK, Phase
<1>PersistConfig. PersistConfig => Bound'
  BY Leaving, Entering, <1>j, PhaseList DEF PersistConfig, At, MovesTo, Leaves, Enters, storeVars, outside,
      counters, Bound, Candidate, SigningStatus, Evidence, AfterConfig, BoundPhases, PlacesOK, Phase
<1>EnrollNewIdentity. EnrollNewIdentity => Bound'
  BY <1>p1, Leaving, Entering, <1>j, PhaseList DEF EnrollNewIdentity, At, MovesTo, Leaves, Enters, storeVars,
      counters, Bound, Candidate, SigningStatus, Evidence, AfterConfig, BoundPhases, PlacesOK, Phase
<1>SyncServiceMetadata. SyncServiceMetadata => Bound'
  BY <1>p1, Leaving, Entering, <1>j, PhaseList DEF SyncServiceMetadata, At, MovesTo, Leaves, Enters, storeVars,
      counters, Bound, Candidate, SigningStatus, Evidence, AfterConfig, BoundPhases, PlacesOK, Phase
<1>PersistServiceRestoreIntent. PersistServiceRestoreIntent => Bound'
  BY Leaving, Entering, <1>j, PhaseList DEF PersistServiceRestoreIntent, At, MovesTo, Leaves, Enters, storeVars,
      outside, counters, Bound, Candidate, SigningStatus, Evidence, AfterConfig, BoundPhases, PlacesOK, Phase
<1>ConfirmAndRemoveJournal. ConfirmAndRemoveJournal => Bound'
  BY DEF ConfirmAndRemoveJournal, Leaves, storeVars, outside, Bound, Candidate, AfterConfig, BoundPhases,
      PlacesOK, Phase
<1>unchanged. UNCHANGED <<platform, signing, journal>> => Bound'
  BY DEF Phase, BoundPhases, Bound, Evidence, Candidate, SigningStatus
<1> QED BY <1>ValidateIdentity, <1>CreateSigningIdentity, <1>CreateFirstRunItem, <1>CreateFirstRunIndex,
           <1>CreateFirstRunMetadata, <1>CreateFirstRunRollback, <1>DeleteCreationSentinel,
           <1>WriteCandidateItem, <1>WriteIndexItem, <1>WriteProfileMetadata, <1>DeletePreviousItem,
           <1>DeleteInterruptedItem, <1>ClearCreationSentinel, <1>CreateJournal, <1>AcquireRuntimeOwnership,
           <1>InspectAndBindOldDomain, <1>PersistRevokeIntent, <1>RevokeOldIdentity,
           <1>PersistSigningReplacementIntent, <1>AdoptOrReplaceSigningIdentity, <1>CommitSigning,
           <1>FinalizeSigning, <1>CommitEncryption, <1>CommitCleared, <1>PersistConfig, <1>EnrollNewIdentity,
           <1>SyncServiceMetadata, <1>PersistServiceRestoreIntent, <1>ConfirmAndRemoveJournal, <1>unchanged,
           Changes

\* Every step keeps EncReset: a key sentinel is that of the journal's operation and replaces the
\* bound key.
LEMMA EncResetPreserved ==
  ASSUME TypeOK, PlacesOK, LocksOK, JournalOK, Done, LinuxSigning, MacSigning, Initialising, EncReset,
           EncryptionOK, DaemonOK, CandidateOK, OwnOK, [Next]_vars
  PROVE  EncReset'
<1>j. cli.at \in {"acquire", "run", "enc-commit", "clear-commit", "sign-commit"} => journal # None
  BY DEF PlacesOK, Phase, SignPlaces, EncPlaces, ClearPlaces
<1>b. InspectAndBindOldDomain \/ CommitSigning \/ AdoptOrReplaceSigningIdentity => journal # None
  BY DEF InspectAndBindOldDomain, CommitSigning, AdoptOrReplaceSigningIdentity, At, PlacesOK, SignPlaces, Phase
<1>p0. platform \in {"linux","darwin"} /\ None \notin Hosts /\ encryption \in EncryptionStore
  BY Kinds, NoneIsNothing
<1>p1. (cli.at \in Working => boot.at \in {"off","spawned","guarded"}) /\ (Phase \in ReplacedPhases => ~Inside)
  BY DEF LocksOK, DaemonOK, CandidateOK, Candidate, Done, Inside
<1>p2. Phase \in ReplacedPhases => journal.new # None
  BY DEF Done
<1>LoadEncryption. LoadEncryption => EncReset'
  BY <1>p1, <1>p2, DaemonKeys, FreshKeyLemma DEF BootsTo, Gains, Records, EncReset, EncryptionOK,
      EncryptionStore, EncryptionResets, Inside, CandidateOK, ReplacedPhases, AfterEncryption, AfterClearing
<1>RecordEncryption. RecordEncryption => EncReset'
  BY <1>p0, <1>p1, <1>p2, Booting, KeyWrites, <1>j, PhaseList DEF RecordEncryption, BootsTo, Gains, Records,
      outside, counters, EncReset, EncryptionOK, EncryptionStore, EncryptionResets, Inside, CandidateOK,
      ReplacedPhases, AfterEncryption, AfterClearing
<1>InitialEncryption. InitialEncryption => EncReset'
  BY <1>p2, InitialKeys, FreshKeyLemma DEF MovesTo, Leaves, Gains, Records, EncReset, InitPlaces, EncPlaces,
      PlacesOK, Phase
<1>CreateJournal. CreateJournal => EncReset'
  BY DEF CreateJournal, EncReset, PlacesOK, Phase, storeVars
<1>AcquireRuntimeOwnership. AcquireRuntimeOwnership => EncReset'
  BY <1>j, PhaseList DEF AcquireRuntimeOwnership, MovesTo, Leaves, Enters, storeVars, outside, counters,
      EncReset, PlacesOK, Phase
<1>InspectAndBindOldDomain. InspectAndBindOldDomain => EncReset'
  BY <1>b, Binding DEF EncReset
<1>PersistRevokeIntent. PersistRevokeIntent => EncReset'
  BY <1>j, PhaseList DEF PersistRevokeIntent, At, MovesTo, Enters, storeVars, outside, counters, EncReset,
      PlacesOK, Phase
<1>RevokeOldIdentity. RevokeOldIdentity => EncReset'
  BY <1>j, PhaseList DEF RevokeOldIdentity, At, MovesTo, Leaves, Enters, storeVars, counters, EncReset,
      PlacesOK, Phase
<1>PersistSigningReplacementIntent. PersistSigningReplacementIntent => EncReset'
  BY <1>j, PhaseList DEF PersistSigningReplacementIntent, At, MovesTo, Enters, storeVars, outside, counters,
      EncReset, PlacesOK, Phase
<1>CommitSigning. CommitSigning => EncReset'
  BY DEF CommitSigning, MovesTo, EncReset, EncryptionOK, EncPlaces, SignPlaces, ClearPlaces, PlacesOK, Phase,
      storeVars
<1>ReplaceEncryptionIdentity. ReplaceEncryptionIdentity => EncReset'
  BY KeyReplacementBegins
<1>WriteEncryptionItem. EncryptionWrite /\ WriteEncryptionItem => EncReset'
  BY <1>p2, EncryptionWrites DEF EncryptionWrite, MovesTo, Gains, Records, Drops, EncReset, PlacesOK, Phase,
      outside, counters
<1>WriteEncryptionMetadata. EncryptionWrite /\ WriteEncryptionMetadata => EncReset'
  BY <1>p2, EncryptionWrites DEF EncryptionWrite, MovesTo, Gains, Records, Drops, EncReset, PlacesOK, Phase,
      outside, counters
<1>DeletePreviousEncryptionItems. EncryptionWrite /\ DeletePreviousEncryptionItems => EncReset'
  BY <1>p2, EncryptionWrites DEF EncryptionWrite, MovesTo, Drops, EncReset, PlacesOK, Phase, outside, counters
<1>CommitEncryption. CommitEncryption => EncReset'
  BY Entering, <1>j, PhaseList DEF CommitEncryption, MovesTo, Enters, storeVars, outside, counters, EncReset,
      PlacesOK, Phase
<1>FinalizeEncryption. FinalizeEncryption => EncReset'
  BY <1>p1, <1>p2, CompletingKey DEF KeyIsReplaced, MovesTo, SetsKeySentinel, Leaves, EncReset, PlacesOK, Phase,
      outside, counters
<1>CommitCleared. CommitCleared => EncReset'
  BY Entering, <1>j, PhaseList DEF CommitCleared, MovesTo, Enters, storeVars, outside, counters, EncReset,
      EncryptionOK, EncryptionStore, SignPlaces, ClearPlaces
<1>PersistConfig. PersistConfig => EncReset'
  BY PhaseList DEF PersistConfig, At, MovesTo, Leaves, Enters, storeVars, outside, counters, EncReset, PlacesOK,
      Phase
<1>EnrollNewIdentity. EnrollNewIdentity => EncReset'
  BY <1>j, PhaseList DEF EnrollNewIdentity, At, MovesTo, Leaves, Enters, storeVars, counters, EncReset,
      PlacesOK, Phase
<1>SyncServiceMetadata. SyncServiceMetadata => EncReset'
  BY <1>j, PhaseList DEF SyncServiceMetadata, At, MovesTo, Leaves, Enters, storeVars, counters, EncReset,
      PlacesOK, Phase
<1>PersistServiceRestoreIntent. PersistServiceRestoreIntent => EncReset'
  BY PhaseList DEF PersistServiceRestoreIntent, At, MovesTo, Leaves, Enters, storeVars, outside, counters,
      EncReset, PlacesOK, Phase
<1>ConfirmAndRemoveJournal. ConfirmAndRemoveJournal => EncReset'
  BY PhaseList DEF ConfirmAndRemoveJournal, Leaves, storeVars, outside, EncReset, PlacesOK, Phase
<1>unchanged. UNCHANGED <<platform, encryption, journal>> => EncReset'
  BY DEF EncReset, Phase
<1> QED BY <1>LoadEncryption, <1>RecordEncryption, <1>InitialEncryption, <1>CreateJournal,
           <1>AcquireRuntimeOwnership, <1>InspectAndBindOldDomain, <1>PersistRevokeIntent, <1>RevokeOldIdentity,
           <1>PersistSigningReplacementIntent, <1>CommitSigning, <1>ReplaceEncryptionIdentity,
           <1>WriteEncryptionItem, <1>WriteEncryptionMetadata, <1>DeletePreviousEncryptionItems,
           <1>CommitEncryption, <1>FinalizeEncryption, <1>CommitCleared, <1>PersistConfig, <1>EnrollNewIdentity,
           <1>SyncServiceMetadata, <1>PersistServiceRestoreIntent, <1>ConfirmAndRemoveJournal, <1>unchanged,
           Changes

\* Every step keeps EncryptionOK: the encryption key in each phase: the bound one until it is
\* replaced, and another one after.
LEMMA EncryptionOKPreserved ==
  ASSUME TypeOK, PlacesOK, LocksOK, JournalOK, Done, LinuxSigning, MacSigning, Initialising, EncReset,
           EncryptionOK, DaemonOK, CandidateOK, OwnOK, [Next]_vars
  PROVE  EncryptionOK'
<1>j. cli.at \in {"acquire", "run", "enc-commit", "clear-commit", "sign-commit"} => journal # None
  BY DEF PlacesOK, Phase, SignPlaces, EncPlaces, ClearPlaces
<1>b. InspectAndBindOldDomain \/ CommitSigning \/ AdoptOrReplaceSigningIdentity => journal # None
  BY DEF InspectAndBindOldDomain, CommitSigning, AdoptOrReplaceSigningIdentity, At, PlacesOK, SignPlaces, Phase
<1>p0. platform \in {"linux","darwin"} /\ None \notin Hosts /\ encryption \in EncryptionStore
  BY Kinds, NoneIsNothing
<1>p1. (cli.at \in Working => boot.at \in {"off","spawned","guarded"}) /\ (Phase \in ReplacedPhases => ~Inside)
  BY DEF LocksOK, DaemonOK, CandidateOK, Candidate, Done, Inside
<1>p2. Phase \in ReplacedPhases => journal.new # None
  BY DEF Done
<1>p4. (journal # None => journal.oldKey \in KeyIds \cup {0}) /\ (0 \notin KeyIds)
  BY Kinds DEF Journals, KeyIds
<1>SpawnDaemon. SpawnDaemon => EncryptionOK'
  BY DEF SpawnDaemon, Off, storeVars, outside, counters, EncReset, EncryptionOK, EncryptionStore, PlacesOK,
      Phase
<1>GuardStart. GuardStart => EncryptionOK'
  BY DEF GuardStart, Off, storeVars, outside, counters, EncReset, EncryptionOK, EncryptionStore, PlacesOK, Phase
<1>AcquireRuntimeLock. AcquireRuntimeLock => EncryptionOK'
  BY <1>p1, <1>p2, <1>p4, Booting, <1>j, PhaseList DEF AcquireRuntimeLock, Die, Off, BootsTo, storeVars,
      outside, counters, EncReset, EncryptionOK, EncryptionStore, SignPlaces, ClearPlaces, PlacesOK, Phase
<1>ValidateIdentity. ValidateIdentity => EncryptionOK'
  BY Booting, Loading DEF ValidateIdentity, Die, Off, BootsTo, SetsCreating, EncReset, EncryptionOK,
      EncryptionStore, PlacesOK, Phase, outside, counters
<1>PreflightRuntime. RuntimeStep /\ PreflightRuntime => EncryptionOK'
  BY <1>p1, <1>p2, <1>p4, Preflighting, Verdicts DEF RuntimeStep, EncReset, EncryptionOK, Phase, storeVars,
      outside, counters
<1>BeginResetKey. RuntimeStep /\ BeginResetKey => EncryptionOK'
  BY <1>p4, ResetKeyWrites DEF RuntimeStep, SetsItem, SetsKey, BootsTo, EncReset, EncryptionOK, Phase,
      storeVars, outside, counters
<1>BeginRuntimeReset. RuntimeStep /\ BeginRuntimeReset => EncryptionOK'
  BY <1>p2, <1>p4, PreflightWrites DEF RuntimeStep, SetsFloor, BootsTo, EncReset, EncryptionOK, Phase,
      storeVars, outside, counters
<1>ReplaceSpool. RuntimeStep /\ ReplaceSpool => EncryptionOK'
  BY <1>p2, <1>p4, PreflightWrites DEF RuntimeStep, SetsFloor, BootsTo, EncReset, EncryptionOK, Phase,
      storeVars, outside, counters
<1>ReplaceState. RuntimeStep /\ ReplaceState => EncryptionOK'
  BY <1>p2, <1>p4, PreflightWrites DEF RuntimeStep, SetsFloor, BootsTo, EncReset, EncryptionOK, Phase,
      storeVars, outside, counters
<1>RemoveResetIntent. RuntimeStep /\ RemoveResetIntent => EncryptionOK'
  BY <1>p2, <1>p4, PreflightWrites DEF RuntimeStep, SetsFloor, BootsTo, EncReset, EncryptionOK, Phase,
      storeVars, outside, counters
<1>BeginRuntimeMigration. RuntimeStep /\ BeginRuntimeMigration => EncryptionOK'
  BY <1>p2, <1>p4, PreflightWrites DEF RuntimeStep, SetsFloor, BootsTo, EncReset, EncryptionOK, Phase,
      storeVars, outside, counters
<1>MigrateSpool. RuntimeStep /\ MigrateSpool => EncryptionOK'
  BY <1>p2, <1>p4, PreflightWrites DEF RuntimeStep, SetsFloor, BootsTo, EncReset, EncryptionOK, Phase,
      storeVars, outside, counters
<1>MigrateState. RuntimeStep /\ MigrateState => EncryptionOK'
  BY <1>p2, <1>p4, PreflightWrites DEF RuntimeStep, SetsFloor, BootsTo, EncReset, EncryptionOK, Phase,
      storeVars, outside, counters
<1>MigrateFloor. RuntimeStep /\ MigrateFloor => EncryptionOK'
  BY <1>p2, <1>p4, PreflightWrites DEF RuntimeStep, SetsFloor, BootsTo, EncReset, EncryptionOK, Phase,
      storeVars, outside, counters
<1>RemoveMigrationIntent. RuntimeStep /\ RemoveMigrationIntent => EncryptionOK'
  BY <1>p2, <1>p4, PreflightWrites DEF RuntimeStep, SetsFloor, BootsTo, EncReset, EncryptionOK, Phase,
      storeVars, outside, counters
<1>EstablishFloor. RuntimeStep /\ EstablishFloor => EncryptionOK'
  BY <1>p2, <1>p4, PreflightWrites DEF RuntimeStep, SetsFloor, BootsTo, EncReset, EncryptionOK, Phase,
      storeVars, outside, counters
<1>OpenSpool. RuntimeStep /\ OpenSpool => EncryptionOK'
  BY Booting, <1>j, PhaseList DEF OpenSpool, RuntimeStep, BootsTo, storeVars, outside, counters, EncReset,
      EncryptionOK, EncryptionStore, PlacesOK, Phase
<1>LoadEncryption. LoadEncryption => EncryptionOK'
  BY <1>p4, DaemonKeys, FreshKeyLemma DEF BootsTo, Gains, Records, EncReset, EncryptionOK, EncryptionStore,
      EncryptionResets, Inside, Working, Done, Initialising, DaemonOK, ReplacedPhases, InitPlaces, EncPlaces,
      SignPlaces, ClearPlaces, PlacesOK, Phase, outside, counters
<1>RecordEncryption. RecordEncryption => EncryptionOK'
  BY <1>p0, <1>p1, <1>p2, <1>p4, Booting, KeyWrites, <1>j, PhaseList DEF RecordEncryption, BootsTo, Gains,
      Records, outside, counters, EncReset, EncryptionOK, EncryptionStore, EncryptionResets, Inside, Working,
      Candidate, DaemonOK, ReplacedPhases, AfterEncryption, AfterClearing, AfterConfig, BoundPhases, InitPlaces,
      EncPlaces, SignPlaces, ClearPlaces, PlacesOK, Phase
<1>StopDaemon. StopDaemon => EncryptionOK'
  BY <1>p4, <1>j, PhaseList DEF StopDaemon, Die, Off, storeVars, outside, counters, EncReset, EncryptionOK,
      EncryptionStore, PlacesOK, Phase
<1>CrashDaemon. CrashDaemon => EncryptionOK'
  BY DEF CrashDaemon, Die, Off, storeVars, outside, EncReset, EncryptionOK, EncryptionStore, PlacesOK, Phase
<1>CrashCli. CrashCli => EncryptionOK'
  BY <1>p2, <1>p4, Leaving, <1>j, PhaseList DEF CrashCli, Leaves, storeVars, outside, EncReset, EncryptionOK,
      EncryptionStore, SignPlaces, ClearPlaces, PlacesOK, Phase
<1>Initialize. Initialize => EncryptionOK'
  BY Moving, <1>j, PhaseList DEF Initialize, MovesTo, storeVars, outside, counters, EncReset, EncryptionOK,
      PlacesOK, Phase
<1>CreateSigningIdentity. CreateSigningIdentity => EncryptionOK'
  BY <1>p2, <1>p4, FirstRun, FreshHosts DEF MovesTo, SetsMeta, SetsCreating, EncReset, EncryptionOK,
      EncryptionStore, EncryptionResets, Inside, InitPlaces, EncPlaces, PlacesOK, Phase, outside, counters
<1>SaveInitialConfig. SaveInitialConfig => EncryptionOK'
  BY <1>p4, Moving, <1>j, PhaseList DEF SaveInitialConfig, MovesTo, storeVars, outside, counters, EncReset,
      EncryptionOK, EncryptionStore, SignPlaces, ClearPlaces, PlacesOK, Phase
<1>InitialEncryption. InitialEncryption => EncryptionOK'
  BY <1>p0, <1>p1, <1>p2, <1>p4, InitialKeys, FreshKeyLemma DEF MovesTo, Leaves, Gains, Records, EncReset,
      EncryptionOK, EncryptionStore, EncryptionResets, Inside, Done, Initialising, DaemonOK, ReplacedPhases,
      AfterEncryption, AfterClearing, AfterConfig, BoundPhases, InitPlaces, EncPlaces, SignPlaces, ClearPlaces,
      PlacesOK, Phase, outside, counters
<1>CreateFirstRunItem. SigningWrite /\ CreateFirstRunItem => EncryptionOK'
  BY <1>p4, SigningWrites DEF SigningWrite, MovesTo, EncryptionOK, EncryptionStore, EncryptionResets, Inside,
      InitPlaces, EncPlaces, SignPlaces, ClearPlaces, PlacesOK, Phase, outside, counters
<1>CreateFirstRunIndex. SigningWrite /\ CreateFirstRunIndex => EncryptionOK'
  BY <1>p4, SigningWrites DEF SigningWrite, MovesTo, EncryptionOK, EncryptionStore, EncryptionResets, Inside,
      InitPlaces, EncPlaces, SignPlaces, ClearPlaces, PlacesOK, Phase, outside, counters
<1>CreateFirstRunMetadata. SigningWrite /\ CreateFirstRunMetadata => EncryptionOK'
  BY <1>p4, SigningWrites DEF SigningWrite, MovesTo, EncryptionOK, EncryptionStore, EncryptionResets, Inside,
      InitPlaces, EncPlaces, SignPlaces, ClearPlaces, PlacesOK, Phase, outside, counters
<1>CreateFirstRunRollback. SigningWrite /\ CreateFirstRunRollback => EncryptionOK'
  BY <1>p4, SigningWrites DEF SigningWrite, MovesTo, EncryptionOK, EncryptionStore, EncryptionResets, Inside,
      InitPlaces, EncPlaces, SignPlaces, ClearPlaces, PlacesOK, Phase, outside, counters
<1>DeleteCreationSentinel. SigningWrite /\ DeleteCreationSentinel => EncryptionOK'
  BY <1>p4, SigningWrites DEF SigningWrite, MovesTo, EncryptionOK, EncryptionStore, EncryptionResets, Inside,
      InitPlaces, EncPlaces, SignPlaces, ClearPlaces, PlacesOK, Phase, outside, counters
<1>WriteCandidateItem. SigningWrite /\ WriteCandidateItem => EncryptionOK'
  BY <1>p4, SigningWrites DEF SigningWrite, MovesTo, EncryptionOK, EncryptionStore, EncryptionResets, Inside,
      InitPlaces, EncPlaces, SignPlaces, ClearPlaces, PlacesOK, Phase, outside, counters
<1>WriteIndexItem. SigningWrite /\ WriteIndexItem => EncryptionOK'
  BY <1>p4, SigningWrites DEF SigningWrite, MovesTo, EncryptionOK, EncryptionStore, EncryptionResets, Inside,
      InitPlaces, EncPlaces, SignPlaces, ClearPlaces, PlacesOK, Phase, outside, counters
<1>WriteProfileMetadata. SigningWrite /\ WriteProfileMetadata => EncryptionOK'
  BY <1>p4, SigningWrites DEF SigningWrite, MovesTo, EncryptionOK, EncryptionStore, EncryptionResets, Inside,
      InitPlaces, EncPlaces, SignPlaces, ClearPlaces, PlacesOK, Phase, outside, counters
<1>DeletePreviousItem. SigningWrite /\ DeletePreviousItem => EncryptionOK'
  BY <1>p4, SigningWrites DEF SigningWrite, MovesTo, EncryptionOK, EncryptionStore, EncryptionResets, Inside,
      InitPlaces, EncPlaces, SignPlaces, ClearPlaces, PlacesOK, Phase, outside, counters
<1>DeleteInterruptedItem. SigningWrite /\ DeleteInterruptedItem => EncryptionOK'
  BY <1>p4, SigningWrites DEF SigningWrite, MovesTo, EncryptionOK, EncryptionStore, EncryptionResets, Inside,
      InitPlaces, EncPlaces, SignPlaces, ClearPlaces, PlacesOK, Phase, outside, counters
<1>ClearCreationSentinel. SigningWrite /\ ClearCreationSentinel => EncryptionOK'
  BY <1>p4, SigningWrites DEF SigningWrite, MovesTo, EncryptionOK, EncryptionStore, EncryptionResets, Inside,
      InitPlaces, EncPlaces, SignPlaces, ClearPlaces, PlacesOK, Phase, outside, counters
<1>CreateJournal. CreateJournal => EncryptionOK'
  BY <1>p4, Creating DEF CreateJournal, EncReset, EncryptionOK, EncryptionStore, EncryptionResets, Inside,
      AfterEncryption, AfterClearing, AfterConfig, BoundPhases, PlacesOK, Phase, storeVars, outside
<1>ResumeReset. ResumeReset => EncryptionOK'
  BY PhaseList DEF ResumeReset, storeVars, outside, counters, EncReset, EncryptionOK, EncryptionStore,
      SignPlaces, ClearPlaces, PlacesOK, Phase
<1>StopAndConfirm. StopAndConfirm => EncryptionOK'
  BY Moving, <1>j, PhaseList DEF StopAndConfirm, Die, Off, MovesTo, storeVars, counters, EncReset, EncryptionOK,
      EncryptionStore, SignPlaces, ClearPlaces, PlacesOK, Phase
<1>AcquireRuntimeOwnership. AcquireRuntimeOwnership => EncryptionOK'
  BY <1>p0, <1>p1, <1>p2, <1>p4, Moving, Leaving, Entering, <1>j, PhaseList DEF AcquireRuntimeOwnership,
      MovesTo, Leaves, Enters, storeVars, outside, counters, EncReset, EncryptionOK, EncryptionStore, DaemonOK,
      ReplacedPhases, AfterEncryption, AfterClearing, AfterConfig, BoundPhases, InitPlaces, EncPlaces,
      SignPlaces, ClearPlaces, PlacesOK, Phase
<1>InspectAndBindOldDomain. InspectAndBindOldDomain => EncryptionOK'
  BY <1>p0, <1>p1, <1>p2, <1>p4, <1>b, Binding, Loading DEF SetsCreating, Binds, MovesTo, Leaves, EncReset,
      EncryptionOK, EncryptionStore, EncryptionResets, Inside, Working, AfterEncryption, AfterClearing,
      AfterConfig, BoundPhases, PlacesOK, Phase, outside, counters
<1>PersistRevokeIntent. PersistRevokeIntent => EncryptionOK'
  BY <1>p0, <1>p1, <1>p2, <1>p4, Entering, <1>j, PhaseList DEF PersistRevokeIntent, At, MovesTo, Enters,
      storeVars, outside, counters, EncReset, EncryptionOK, EncryptionStore, DaemonOK, ReplacedPhases,
      AfterEncryption, AfterClearing, AfterConfig, BoundPhases, InitPlaces, EncPlaces, SignPlaces, ClearPlaces,
      PlacesOK, Phase
<1>RevokeOldIdentity. RevokeOldIdentity => EncryptionOK'
  BY <1>p0, <1>p1, <1>p2, <1>p4, Leaving, Entering, <1>j, PhaseList DEF RevokeOldIdentity, At, MovesTo, Leaves,
      Enters, storeVars, counters, EncReset, EncryptionOK, EncryptionStore, DaemonOK, ReplacedPhases,
      AfterEncryption, AfterClearing, AfterConfig, BoundPhases, InitPlaces, EncPlaces, SignPlaces, ClearPlaces,
      PlacesOK, Phase
<1>PersistSigningReplacementIntent. PersistSigningReplacementIntent => EncryptionOK'
  BY <1>p0, <1>p1, <1>p2, <1>p4, Entering, <1>j, PhaseList DEF PersistSigningReplacementIntent, At, MovesTo,
      Enters, storeVars, outside, counters, EncReset, EncryptionOK, EncryptionStore, DaemonOK, ReplacedPhases,
      AfterEncryption, AfterClearing, AfterConfig, BoundPhases, InitPlaces, EncPlaces, SignPlaces, ClearPlaces,
      PlacesOK, Phase
<1>AdoptOrReplaceSigningIdentity. AdoptOrReplaceSigningIdentity => EncryptionOK'
  BY <1>p0, <1>p1, <1>p2, <1>p4, <1>b, AdoptingOrReplacing, FreshHosts DEF MovesTo, SetsMeta, SetsSentinel,
      Leaves, EncReset, EncryptionOK, EncryptionStore, EncryptionResets, Inside, Working, Candidate,
      CandidateOK, EncryptionStatus, Mixed, Done, Initialising, DaemonOK, ReplacedPhases, AfterEncryption,
      AfterClearing, AfterConfig, BoundPhases, UnfilledPhases, InitPlaces, EncPlaces, SignPlaces, ClearPlaces,
      PlacesOK, At, Phase, storeVars, outside, counters
<1>CommitSigning. CommitSigning => EncryptionOK'
  BY <1>p2, <1>p4, <1>b, Adopting DEF CommitSigning, MovesTo, EncReset, EncryptionOK, Candidate, CandidateOK,
      Mixed, Done, Initialising, DaemonOK, ReplacedPhases, AfterEncryption, AfterClearing, AfterConfig,
      BoundPhases, InitPlaces, EncPlaces, SignPlaces, ClearPlaces, PlacesOK, Phase, storeVars, outside, counters
<1>FinalizeSigning. FinalizeSigning => EncryptionOK'
  BY <1>p1, <1>p2, <1>p4, Completing DEF MovesTo, SetsSentinel, Leaves, EncReset, EncryptionOK, EncryptionStore,
      EncryptionResets, Inside, InitPlaces, EncPlaces, SignPlaces, ClearPlaces, PlacesOK, Phase, outside,
      counters
<1>ReplaceEncryptionIdentity. ReplaceEncryptionIdentity => EncryptionOK'
  BY KeyReplacementBegins
<1>WriteEncryptionItem. EncryptionWrite /\ WriteEncryptionItem => EncryptionOK'
  BY <1>p0, <1>p1, <1>p2, <1>p4, EncryptionWrites DEF EncryptionWrite, MovesTo, Gains, Records, Drops, EncReset,
      EncryptionOK, EncryptionStore, EncryptionResets, Inside, InitPlaces, EncPlaces, SignPlaces, ClearPlaces,
      PlacesOK, Phase, outside, counters
<1>WriteEncryptionMetadata. EncryptionWrite /\ WriteEncryptionMetadata => EncryptionOK'
  BY <1>p0, <1>p1, <1>p2, <1>p4, EncryptionWrites DEF EncryptionWrite, MovesTo, Gains, Records, Drops, EncReset,
      EncryptionOK, EncryptionStore, EncryptionResets, Inside, AfterEncryption, AfterClearing, AfterConfig,
      BoundPhases, InitPlaces, EncPlaces, SignPlaces, ClearPlaces, PlacesOK, Phase, outside, counters
<1>DeletePreviousEncryptionItems. EncryptionWrite /\ DeletePreviousEncryptionItems => EncryptionOK'
  BY <1>p0, <1>p1, <1>p2, <1>p4, EncryptionWrites DEF EncryptionWrite, MovesTo, Gains, Records, Drops, EncReset,
      EncryptionOK, EncryptionStore, EncryptionResets, Inside, Working, Candidate, CandidateOK, Mixed,
      InitPlaces, EncPlaces, SignPlaces, ClearPlaces, PlacesOK, Phase, outside, counters
<1>CommitEncryption. CommitEncryption => EncryptionOK'
  BY Entering, <1>j, PhaseList DEF CommitEncryption, MovesTo, Enters, storeVars, outside, counters, EncReset,
      EncryptionOK, EncryptionStore, DaemonOK, ReplacedPhases, AfterEncryption, AfterClearing, AfterConfig,
      BoundPhases, InitPlaces, EncPlaces, SignPlaces, ClearPlaces, PlacesOK, Phase
<1>FinalizeEncryption. FinalizeEncryption => EncryptionOK'
  BY <1>p4, CompletingKey DEF KeyIsReplaced, MovesTo, SetsKeySentinel, Leaves, EncReset, EncryptionOK,
      SignPlaces, ClearPlaces, PlacesOK, Phase, outside, counters
<1>ClearArtifacts. ClearArtifacts => EncryptionOK'
  BY <1>p4, Clearing DEF SetsState, SetsSpool, SetsReset, MovesTo, EncReset, EncryptionOK, ClearPlaces,
      PlacesOK, Phase, storeVars, outside, counters
<1>ClearSpoolKey. ClearSpoolKey => EncryptionOK'
  BY <1>p4, ClearingKey DEF MovesTo, Leaves, SetsKey, SetsItem, EncReset, EncryptionOK, ClearPlaces, PlacesOK,
      Phase, storeVars, outside, counters
<1>CommitCleared. CommitCleared => EncryptionOK'
  BY Entering, <1>j, PhaseList DEF CommitCleared, MovesTo, Enters, storeVars, outside, counters, EncReset,
      EncryptionOK, EncryptionStore, DaemonOK, ReplacedPhases, AfterEncryption, AfterClearing, AfterConfig,
      BoundPhases, InitPlaces, EncPlaces, SignPlaces, ClearPlaces, PlacesOK, Phase
<1>PersistConfig. PersistConfig => EncryptionOK'
  BY <1>p0, <1>p1, <1>p2, <1>p4, Leaving, Entering, <1>j, PhaseList DEF PersistConfig, At, MovesTo, Leaves,
      Enters, storeVars, outside, counters, EncReset, EncryptionOK, EncryptionStore, DaemonOK, ReplacedPhases,
      AfterEncryption, AfterClearing, AfterConfig, BoundPhases, InitPlaces, EncPlaces, SignPlaces, ClearPlaces,
      PlacesOK, Phase
<1>EnrollNewIdentity. EnrollNewIdentity => EncryptionOK'
  BY <1>p0, <1>p1, <1>p2, <1>p4, Leaving, Entering, <1>j, PhaseList DEF EnrollNewIdentity, At, MovesTo, Leaves,
      Enters, storeVars, counters, EncReset, EncryptionOK, EncryptionStore, DaemonOK, ReplacedPhases,
      AfterEncryption, AfterClearing, AfterConfig, BoundPhases, InitPlaces, EncPlaces, SignPlaces, ClearPlaces,
      PlacesOK, Phase
<1>SyncServiceMetadata. SyncServiceMetadata => EncryptionOK'
  BY <1>p0, <1>p1, <1>p2, <1>p4, Leaving, Entering, <1>j, PhaseList DEF SyncServiceMetadata, At, MovesTo,
      Leaves, Enters, storeVars, counters, EncReset, EncryptionOK, EncryptionStore, DaemonOK, ReplacedPhases,
      AfterEncryption, AfterClearing, AfterConfig, BoundPhases, InitPlaces, EncPlaces, SignPlaces, ClearPlaces,
      PlacesOK, Phase
<1>PersistServiceRestoreIntent. PersistServiceRestoreIntent => EncryptionOK'
  BY <1>p0, <1>p1, <1>p2, <1>p4, Leaving, Entering, <1>j, PhaseList DEF PersistServiceRestoreIntent, At,
      MovesTo, Leaves, Enters, storeVars, outside, counters, EncReset, EncryptionOK, EncryptionStore, DaemonOK,
      ReplacedPhases, AfterEncryption, AfterClearing, AfterConfig, BoundPhases, InitPlaces, EncPlaces,
      SignPlaces, ClearPlaces, PlacesOK, Phase
<1>VerifyReplacement. VerifyReplacement => EncryptionOK'
  BY <1>p4, Moving, Leaving, <1>j, PhaseList DEF VerifyReplacement, At, MovesTo, Leaves, storeVars, outside,
      counters, EncReset, EncryptionOK, EncryptionStore, EncryptionResets, SignPlaces, ClearPlaces, PlacesOK,
      Phase
<1>RestoreService. RestoreService => EncryptionOK'
  BY Restoring DEF MovesTo, Leaves, EncReset, EncryptionOK, EncryptionStore, PlacesOK, Phase, storeVars,
      counters
<1>ConfirmAndRemoveJournal. ConfirmAndRemoveJournal => EncryptionOK'
  BY <1>p2, <1>p4, Leaving, <1>j, PhaseList DEF ConfirmAndRemoveJournal, Leaves, storeVars, outside, EncReset,
      EncryptionOK, EncryptionStore, DaemonOK, ReplacedPhases, AfterEncryption, AfterClearing, AfterConfig,
      BoundPhases, InitPlaces, EncPlaces, SignPlaces, ClearPlaces, PlacesOK, Phase
<1>unchanged. UNCHANGED <<platform, boot, encryption, cli, journal>> => EncryptionOK'
  BY DEF EncryptionOK, Phase
<1> QED BY <1>SpawnDaemon, <1>GuardStart, <1>AcquireRuntimeLock, <1>ValidateIdentity, <1>PreflightRuntime,
           <1>BeginResetKey, <1>BeginRuntimeReset, <1>ReplaceSpool, <1>ReplaceState, <1>RemoveResetIntent,
           <1>BeginRuntimeMigration, <1>MigrateSpool, <1>MigrateState, <1>MigrateFloor,
           <1>RemoveMigrationIntent, <1>EstablishFloor, <1>OpenSpool, <1>LoadEncryption, <1>RecordEncryption,
           <1>StopDaemon, <1>CrashDaemon, <1>CrashCli, <1>Initialize, <1>CreateSigningIdentity,
           <1>SaveInitialConfig, <1>InitialEncryption, <1>CreateFirstRunItem, <1>CreateFirstRunIndex,
           <1>CreateFirstRunMetadata, <1>CreateFirstRunRollback, <1>DeleteCreationSentinel,
           <1>WriteCandidateItem, <1>WriteIndexItem, <1>WriteProfileMetadata, <1>DeletePreviousItem,
           <1>DeleteInterruptedItem, <1>ClearCreationSentinel, <1>CreateJournal, <1>ResumeReset,
           <1>StopAndConfirm, <1>AcquireRuntimeOwnership, <1>InspectAndBindOldDomain, <1>PersistRevokeIntent,
           <1>RevokeOldIdentity, <1>PersistSigningReplacementIntent, <1>AdoptOrReplaceSigningIdentity,
           <1>CommitSigning, <1>FinalizeSigning, <1>ReplaceEncryptionIdentity, <1>WriteEncryptionItem,
           <1>WriteEncryptionMetadata, <1>DeletePreviousEncryptionItems, <1>CommitEncryption,
           <1>FinalizeEncryption, <1>ClearArtifacts, <1>ClearSpoolKey, <1>CommitCleared, <1>PersistConfig,
           <1>EnrollNewIdentity, <1>SyncServiceMetadata, <1>PersistServiceRestoreIntent, <1>VerifyReplacement,
           <1>RestoreService, <1>ConfirmAndRemoveJournal, <1>unchanged, Changes

\* Every step keeps DaemonOK: a daemon that works, works for the Host of the signing record and of
\* the configuration.
LEMMA DaemonOKPreserved ==
  ASSUME TypeOK, PlacesOK, LocksOK, JournalOK, Done, LinuxSigning, MacSigning, Initialising, Replacing,
           EncReset, EncryptionOK, DaemonOK, CandidateOK, OwnOK, StartOK, ClearOK, [Next]_vars
  PROVE  DaemonOK'
<1>j. cli.at \in {"acquire", "run", "enc-commit", "clear-commit", "sign-commit"} => journal # None
  BY DEF PlacesOK, Phase, SignPlaces, EncPlaces, ClearPlaces
<1>b. InspectAndBindOldDomain \/ CommitSigning \/ AdoptOrReplaceSigningIdentity => journal # None
  BY DEF InspectAndBindOldDomain, CommitSigning, AdoptOrReplaceSigningIdentity, At, PlacesOK, SignPlaces, Phase
<1>p0. platform \in {"linux","darwin"} /\ None \notin Hosts /\ boot \in Boot /\ config \in MaybeHost /\
         signing.meta \in MaybeHost /\ signing.creating \in MaybeHost
  BY Kinds, NoneIsNothing DEF SigningStore
<1>p1. (cli.at \in Working => ~Inside) /\ (Phase \in ReplacedPhases => ~Inside)
  BY DEF LocksOK, DaemonOK, CandidateOK, Candidate, Done, Inside
<1>p2. (Phase \in ReplacedPhases => journal.new # None) /\ SigningStatus(signing) = "ready" => signing.meta # None
  BY DEF SigningStatus
<1>p3. journal = None => {config, encryption.host, keyring} \subseteq {None, signing.meta} /\ Candidate = None
  BY DEF OwnOK, Mixed, Candidate, Phase, ReplacedPhases, AfterEncryption, AfterClearing, AfterConfig
<1>p4. signing \in SigningStore /\ (SigningStatus(signing) = "absent" => signing.meta = None) /\
         (SigningStatus(signing) = "ready" => signing.meta # None)
  BY Kinds DEF SigningStatus
<1>SpawnDaemon. SpawnDaemon => DaemonOK'
  BY PhaseList DEF SpawnDaemon, EncryptionOK, Inside, CandidateOK, DaemonOK
<1>GuardStart. GuardStart => DaemonOK'
  BY PhaseList DEF GuardStart, Off, storeVars, EncryptionOK, Inside, CandidateOK, DaemonOK
<1>AcquireRuntimeLock. AcquireRuntimeLock => DaemonOK'
  BY Booting, <1>j, PhaseList DEF AcquireRuntimeLock, Die, Off, BootsTo, storeVars, outside, counters,
      EncryptionOK, Inside, CandidateOK, DaemonOK
<1>ValidateIdentity. ValidateIdentity => DaemonOK'
  BY <1>p4, Booting, Loading DEF ValidateIdentity, Die, Off, BootsTo, SetsCreating, EncryptionOK, Inside,
      CandidateOK, DaemonOK
<1>PreflightRuntime. RuntimeStep /\ PreflightRuntime => DaemonOK'
  BY Preflighting, Verdicts DEF RuntimeStep, EncryptionOK, Inside, Working, Candidate, CandidateOK, DaemonOK,
      Mixed, Phase, storeVars
<1>BeginResetKey. RuntimeStep /\ BeginResetKey => DaemonOK'
  BY <1>p3, <1>p4, ResetKeyWrites DEF RuntimeStep, SetsItem, SetsKey, BootsTo, EncryptionOK, Inside, Working,
      Candidate, CandidateOK, DaemonOK, Mixed, Done, Initialising, Phase, storeVars
<1>BeginRuntimeReset. RuntimeStep /\ BeginRuntimeReset => DaemonOK'
  BY <1>p2, <1>p3, <1>p4, PreflightWrites DEF RuntimeStep, SetsReset, SetsSpool, SetsState, SetsMigration,
      SetsFloor, BootsTo, EncryptionOK, Inside, Working, Candidate, CandidateOK, DaemonOK, Mixed, Done,
      Initialising, Phase, storeVars, outside, counters
<1>ReplaceSpool. RuntimeStep /\ ReplaceSpool => DaemonOK'
  BY <1>p2, <1>p3, <1>p4, PreflightWrites DEF RuntimeStep, SetsReset, SetsSpool, SetsState, SetsMigration,
      SetsFloor, BootsTo, EncryptionOK, Inside, Working, Candidate, CandidateOK, DaemonOK, Mixed, Done,
      Initialising, Phase, storeVars, outside, counters
<1>ReplaceState. RuntimeStep /\ ReplaceState => DaemonOK'
  BY <1>p2, <1>p3, <1>p4, PreflightWrites DEF RuntimeStep, SetsReset, SetsSpool, SetsState, SetsMigration,
      SetsFloor, BootsTo, EncryptionOK, Inside, Working, Candidate, CandidateOK, DaemonOK, Mixed, Done,
      Initialising, Phase, storeVars, outside, counters
<1>RemoveResetIntent. RuntimeStep /\ RemoveResetIntent => DaemonOK'
  BY <1>p2, <1>p3, <1>p4, PreflightWrites DEF RuntimeStep, SetsReset, SetsSpool, SetsState, SetsMigration,
      SetsFloor, BootsTo, EncryptionOK, Inside, Working, Candidate, CandidateOK, DaemonOK, Mixed, Done,
      Initialising, Phase, storeVars, outside, counters
<1>BeginRuntimeMigration. RuntimeStep /\ BeginRuntimeMigration => DaemonOK'
  BY <1>p2, <1>p3, <1>p4, PreflightWrites DEF RuntimeStep, SetsReset, SetsSpool, SetsState, SetsMigration,
      SetsFloor, BootsTo, EncryptionOK, Inside, Working, Candidate, CandidateOK, DaemonOK, Mixed, Done,
      Initialising, Phase, storeVars, outside, counters
<1>MigrateSpool. RuntimeStep /\ MigrateSpool => DaemonOK'
  BY <1>p2, <1>p3, <1>p4, PreflightWrites DEF RuntimeStep, SetsReset, SetsSpool, SetsState, SetsMigration,
      SetsFloor, BootsTo, EncryptionOK, Inside, Working, Candidate, CandidateOK, DaemonOK, Mixed, Done,
      Initialising, Phase, storeVars, outside, counters
<1>MigrateState. RuntimeStep /\ MigrateState => DaemonOK'
  BY <1>p2, <1>p3, <1>p4, PreflightWrites DEF RuntimeStep, SetsReset, SetsSpool, SetsState, SetsMigration,
      SetsFloor, BootsTo, EncryptionOK, Inside, Working, Candidate, CandidateOK, DaemonOK, Mixed, Done,
      Initialising, Phase, storeVars, outside, counters
<1>MigrateFloor. RuntimeStep /\ MigrateFloor => DaemonOK'
  BY <1>p2, <1>p3, <1>p4, PreflightWrites DEF RuntimeStep, SetsReset, SetsSpool, SetsState, SetsMigration,
      SetsFloor, BootsTo, EncryptionOK, Inside, Working, Candidate, CandidateOK, DaemonOK, Mixed, Done,
      Initialising, Phase, storeVars, outside, counters
<1>RemoveMigrationIntent. RuntimeStep /\ RemoveMigrationIntent => DaemonOK'
  BY <1>p2, <1>p3, <1>p4, PreflightWrites DEF RuntimeStep, SetsReset, SetsSpool, SetsState, SetsMigration,
      SetsFloor, BootsTo, EncryptionOK, Inside, Working, Candidate, CandidateOK, DaemonOK, Mixed, Done,
      Initialising, Phase, storeVars, outside, counters
<1>EstablishFloor. RuntimeStep /\ EstablishFloor => DaemonOK'
  BY <1>p2, <1>p3, <1>p4, PreflightWrites DEF RuntimeStep, SetsReset, SetsSpool, SetsState, SetsMigration,
      SetsFloor, BootsTo, EncryptionOK, Inside, Working, Candidate, CandidateOK, DaemonOK, Mixed, Done,
      Initialising, Phase, storeVars, outside, counters
<1>OpenSpool. RuntimeStep /\ OpenSpool => DaemonOK'
  BY <1>p4, Booting, <1>j, PhaseList DEF OpenSpool, RuntimeStep, BootsTo, storeVars, outside, counters,
      EncryptionOK, Inside, CandidateOK, DaemonOK
<1>LoadEncryption. LoadEncryption => DaemonOK'
  BY <1>p2, <1>p3, <1>p4, DaemonKeys, FreshKeyLemma DEF BootsTo, Gains, Records, EncryptionOK, Inside,
      CandidateOK, DaemonOK
<1>RecordEncryption. RecordEncryption => DaemonOK'
  BY Booting, KeyWrites, <1>j, PhaseList DEF RecordEncryption, BootsTo, Gains, Records, outside, counters,
      EncryptionOK, Inside, CandidateOK, DaemonOK
<1>StopDaemon. StopDaemon => DaemonOK'
  BY DEF StopDaemon, Die, Off, storeVars, EncryptionOK, Inside, CandidateOK, DaemonOK
<1>CrashDaemon. CrashDaemon => DaemonOK'
  BY PhaseList DEF CrashDaemon, Die, Off, EncryptionOK, Inside, CandidateOK, DaemonOK
<1>CreateSigningIdentity. CreateSigningIdentity => DaemonOK'
  BY <1>p2, <1>p3, <1>p4, FirstRun, FreshHosts DEF MovesTo, SetsMeta, SetsCreating, EncryptionOK, Inside,
      Working, Candidate, CandidateOK, DaemonOK, Initialising, Replacing
<1>SaveInitialConfig. SaveInitialConfig => DaemonOK'
  BY PhaseList DEF SaveInitialConfig, MovesTo, storeVars, EncryptionOK, Inside, CandidateOK, DaemonOK
<1>InitialEncryption. InitialEncryption => DaemonOK'
  BY <1>p3, <1>p4, InitialKeys, FreshKeyLemma DEF EncryptionOK, Inside, CandidateOK, DaemonOK
<1>CreateFirstRunItem. SigningWrite /\ CreateFirstRunItem => DaemonOK'
  BY <1>p3, <1>p4, SigningWrites DEF SigningWrite, MovesTo, SetsItems, SetsMeta, SetsCreating, EncryptionOK,
      Inside, CandidateOK, DaemonOK
<1>CreateFirstRunIndex. SigningWrite /\ CreateFirstRunIndex => DaemonOK'
  BY <1>p3, <1>p4, SigningWrites DEF SigningWrite, MovesTo, SetsItems, SetsMeta, SetsCreating, EncryptionOK,
      Inside, CandidateOK, DaemonOK
<1>CreateFirstRunMetadata. SigningWrite /\ CreateFirstRunMetadata => DaemonOK'
  BY <1>p3, <1>p4, SigningWrites DEF SigningWrite, MovesTo, SetsItems, SetsMeta, SetsCreating, EncryptionOK,
      Inside, Working, Candidate, CandidateOK, DaemonOK, Initialising, Replacing
<1>CreateFirstRunRollback. SigningWrite /\ CreateFirstRunRollback => DaemonOK'
  BY <1>p3, <1>p4, SigningWrites DEF SigningWrite, MovesTo, SetsItems, SetsMeta, SetsCreating, EncryptionOK,
      Inside, CandidateOK, DaemonOK
<1>DeleteCreationSentinel. SigningWrite /\ DeleteCreationSentinel => DaemonOK'
  BY <1>p3, <1>p4, SigningWrites DEF SigningWrite, MovesTo, SetsItems, SetsMeta, SetsCreating, EncryptionOK,
      Inside, CandidateOK, DaemonOK
<1>WriteCandidateItem. SigningWrite /\ WriteCandidateItem => DaemonOK'
  BY <1>p3, <1>p4, SigningWrites DEF SigningWrite, MovesTo, SetsItems, SetsMeta, SetsCreating, EncryptionOK,
      Inside, CandidateOK, DaemonOK
<1>WriteIndexItem. SigningWrite /\ WriteIndexItem => DaemonOK'
  BY <1>p3, <1>p4, SigningWrites DEF SigningWrite, MovesTo, SetsItems, SetsMeta, SetsCreating, EncryptionOK,
      Inside, CandidateOK, DaemonOK
<1>WriteProfileMetadata. SigningWrite /\ WriteProfileMetadata => DaemonOK'
  BY <1>p0, <1>p1, <1>p2, <1>p3, <1>p4, SigningWrites DEF SigningWrite, MovesTo, SetsItems, SetsMeta,
      SetsCreating, EncryptionOK, Inside, Working, Candidate, CandidateOK, DaemonOK, Mixed, Done, Initialising,
      Replacing, Chosen, LinuxSigning, MacSigning, SigningStore, SigningResets, ReplacedPhases, InitPlaces,
      EncPlaces, SignPlaces, ClearPlaces, PlacesOK, Phase, outside, counters
<1>DeletePreviousItem. SigningWrite /\ DeletePreviousItem => DaemonOK'
  BY <1>p3, <1>p4, SigningWrites DEF SigningWrite, MovesTo, SetsItems, SetsMeta, SetsCreating, EncryptionOK,
      Inside, CandidateOK, DaemonOK
<1>DeleteInterruptedItem. SigningWrite /\ DeleteInterruptedItem => DaemonOK'
  BY <1>p3, <1>p4, SigningWrites DEF SigningWrite, MovesTo, SetsItems, SetsMeta, SetsCreating, EncryptionOK,
      Inside, CandidateOK, DaemonOK
<1>ClearCreationSentinel. SigningWrite /\ ClearCreationSentinel => DaemonOK'
  BY <1>p3, <1>p4, SigningWrites DEF SigningWrite, MovesTo, SetsItems, SetsMeta, SetsCreating, EncryptionOK,
      Inside, CandidateOK, DaemonOK
<1>StopAndConfirm. StopAndConfirm => DaemonOK'
  BY DEF StopAndConfirm, Die, Off, MovesTo, storeVars, counters, EncryptionOK, Inside, CandidateOK, DaemonOK
<1>InspectAndBindOldDomain. InspectAndBindOldDomain => DaemonOK'
  BY <1>p4, <1>b, Binding, Loading DEF SetsCreating, Binds, MovesTo, Leaves, EncryptionOK, Inside, CandidateOK,
      DaemonOK
<1>AdoptOrReplaceSigningIdentity. AdoptOrReplaceSigningIdentity => DaemonOK'
  BY Choosing, FreshHosts, <1>p0, <1>p1 DEF EncryptionOK, Inside, Working, Candidate, CandidateOK, DaemonOK
<1>FinalizeSigning. FinalizeSigning => DaemonOK'
  BY Completing DEF MovesTo, SetsSentinel, Leaves, EncryptionOK, Inside, CandidateOK, DaemonOK
<1>ReplaceEncryptionIdentity. ReplaceEncryptionIdentity => DaemonOK'
  BY ReplacingKeyFrame, <1>p0, <1>p1, <1>p2, <1>p3, <1>p4 DEF Inside, Working, DaemonOK, Mixed, ReplacedPhases,
      AfterEncryption
<1>WriteEncryptionItem. EncryptionWrite /\ WriteEncryptionItem => DaemonOK'
  BY <1>p3, <1>p4, EncryptionWrites DEF EncryptionWrite, MovesTo, Gains, Records, Drops, EncryptionOK, Inside,
      CandidateOK, DaemonOK
<1>WriteEncryptionMetadata. EncryptionWrite /\ WriteEncryptionMetadata => DaemonOK'
  BY <1>p0, <1>p1, <1>p2, <1>p3, <1>p4, EncryptionWrites DEF EncryptionWrite, EncryptionOK, Inside, Working,
      Candidate, CandidateOK, DaemonOK, Mixed, Done, InitPlaces, EncPlaces
<1>DeletePreviousEncryptionItems. EncryptionWrite /\ DeletePreviousEncryptionItems => DaemonOK'
  BY <1>p3, <1>p4, EncryptionWrites DEF EncryptionWrite, MovesTo, Gains, Records, Drops, EncryptionOK, Inside,
      CandidateOK, DaemonOK
<1>FinalizeEncryption. FinalizeEncryption => DaemonOK'
  BY <1>p0, <1>p1, <1>p2, <1>p3, <1>p4, CompletingKey DEF EncryptionOK, Inside, Working, Candidate, CandidateOK,
      DaemonOK
<1>PersistConfig. PersistConfig => DaemonOK'
  BY <1>p3, <1>p4, Leaving, Entering, <1>j, PhaseList DEF PersistConfig, At, MovesTo, Leaves, Enters, storeVars,
      outside, counters, EncryptionOK, Inside, Working, Candidate, CandidateOK, DaemonOK, Mixed, Done,
      Initialising, Replacing, SigningResets, ReplacedPhases, AfterEncryption, AfterClearing, SignPlaces,
      ClearPlaces, PlacesOK, Phase
<1>RestoreService. RestoreService => DaemonOK'
  BY <1>p4, Restoring DEF MovesTo, Leaves, EncryptionOK, Inside, Working, Candidate, CandidateOK, DaemonOK,
      storeVars, counters
<1>unchanged. UNCHANGED <<boot, signing, encryption, config>> => DaemonOK'
  BY DEF Inside, DaemonOK
<1> QED BY <1>SpawnDaemon, <1>GuardStart, <1>AcquireRuntimeLock, <1>ValidateIdentity, <1>PreflightRuntime,
           <1>BeginResetKey, <1>BeginRuntimeReset, <1>ReplaceSpool, <1>ReplaceState, <1>RemoveResetIntent,
           <1>BeginRuntimeMigration, <1>MigrateSpool, <1>MigrateState, <1>MigrateFloor,
           <1>RemoveMigrationIntent, <1>EstablishFloor, <1>OpenSpool, <1>LoadEncryption, <1>RecordEncryption,
           <1>StopDaemon, <1>CrashDaemon, <1>CreateSigningIdentity, <1>SaveInitialConfig, <1>InitialEncryption,
           <1>CreateFirstRunItem, <1>CreateFirstRunIndex, <1>CreateFirstRunMetadata, <1>CreateFirstRunRollback,
           <1>DeleteCreationSentinel, <1>WriteCandidateItem, <1>WriteIndexItem, <1>WriteProfileMetadata,
           <1>DeletePreviousItem, <1>DeleteInterruptedItem, <1>ClearCreationSentinel, <1>StopAndConfirm,
           <1>InspectAndBindOldDomain, <1>AdoptOrReplaceSigningIdentity, <1>FinalizeSigning,
           <1>ReplaceEncryptionIdentity, <1>WriteEncryptionItem, <1>WriteEncryptionMetadata,
           <1>DeletePreviousEncryptionItems, <1>FinalizeEncryption, <1>PersistConfig, <1>RestoreService,
           <1>unchanged, Changes

\* Every step keeps CandidateOK: no process, and no file a reset leaves alone, names the
\* replacement yet.
LEMMA CandidateOKPreserved ==
  ASSUME TypeOK, PlacesOK, LocksOK, JournalOK, Done, LinuxSigning, MacSigning, Initialising, Replacing,
           EncReset, EncryptionOK, DaemonOK, CandidateOK, OwnOK, StartOK, ClearOK, [Next]_vars
  PROVE  CandidateOK'
<1>j. cli.at \in {"acquire", "run", "enc-commit", "clear-commit", "sign-commit"} => journal # None
  BY DEF PlacesOK, Phase, SignPlaces, EncPlaces, ClearPlaces
<1>b. InspectAndBindOldDomain \/ CommitSigning \/ AdoptOrReplaceSigningIdentity => journal # None
  BY DEF InspectAndBindOldDomain, CommitSigning, AdoptOrReplaceSigningIdentity, At, PlacesOK, SignPlaces, Phase
<1>p0. platform \in {"linux","darwin"} /\ None \notin Hosts /\ boot \in Boot /\ config \in MaybeHost /\
         signing.meta \in MaybeHost /\ signing.creating \in MaybeHost
  BY Kinds, NoneIsNothing DEF SigningStore
<1>p1. (cli.at \in Working => ~Inside) /\ (Phase \in ReplacedPhases => ~Inside)
  BY DEF LocksOK, DaemonOK, CandidateOK, Candidate, Done, Inside
<1>p2. (Phase \in ReplacedPhases => journal.new # None) /\ SigningStatus(signing) = "ready" => signing.meta # None
  BY DEF SigningStatus
<1>p3. journal = None => {config, encryption.host, keyring} \subseteq {None, signing.meta} /\ Candidate = None
  BY DEF OwnOK, Mixed, Candidate, Phase, ReplacedPhases, AfterEncryption, AfterClearing, AfterConfig
<1>p4. signing \in SigningStore /\ (SigningStatus(signing) = "absent" => signing.meta = None) /\
         (SigningStatus(signing) = "ready" => signing.meta # None)
  BY Kinds DEF SigningStatus
<1>SpawnDaemon. SpawnDaemon => CandidateOK'
  BY <1>p4, <1>j, PhaseList DEF SpawnDaemon, Off, storeVars, outside, counters, Candidate, CandidateOK,
      PlacesOK, Phase
<1>GuardStart. GuardStart => CandidateOK'
  BY <1>p0, <1>p1, <1>p2, <1>p3, <1>p4, <1>j, PhaseList DEF GuardStart, Off, storeVars, outside, counters,
      Candidate, CandidateOK, PlacesOK, Phase
<1>AcquireRuntimeLock. AcquireRuntimeLock => CandidateOK'
  BY <1>p3, <1>p4, Booting, <1>j, PhaseList DEF AcquireRuntimeLock, Die, Off, BootsTo, storeVars, outside,
      counters, Inside, Working, Candidate, CandidateOK, PlacesOK, Phase
<1>ValidateIdentity. ValidateIdentity => CandidateOK'
  BY <1>p2, <1>p3, <1>p4, Booting, Loading DEF ValidateIdentity, Die, Off, BootsTo, SetsCreating, Inside,
      Working, Candidate, CandidateOK, PlacesOK, Phase
<1>PreflightRuntime. RuntimeStep /\ PreflightRuntime => CandidateOK'
  BY <1>p3, <1>p4, Preflighting, Verdicts DEF RuntimeStep, Inside, Working, Candidate, CandidateOK, DaemonOK,
      Phase, storeVars
<1>BeginResetKey. RuntimeStep /\ BeginResetKey => CandidateOK'
  BY ResetKeyWrites DEF RuntimeStep, SetsItem, SetsKey, BootsTo, Inside, Working, Candidate, CandidateOK,
      DaemonOK, Phase, storeVars
<1>BeginRuntimeReset. RuntimeStep /\ BeginRuntimeReset => CandidateOK'
  BY PreflightWrites DEF RuntimeStep, SetsReset, SetsSpool, SetsState, SetsMigration, SetsFloor, BootsTo,
      Inside, Working, Candidate, CandidateOK, Phase, storeVars
<1>ReplaceSpool. RuntimeStep /\ ReplaceSpool => CandidateOK'
  BY PreflightWrites DEF RuntimeStep, SetsReset, SetsSpool, SetsState, SetsMigration, SetsFloor, BootsTo,
      Inside, Working, Candidate, CandidateOK, Phase, storeVars
<1>ReplaceState. RuntimeStep /\ ReplaceState => CandidateOK'
  BY PreflightWrites DEF RuntimeStep, SetsReset, SetsSpool, SetsState, SetsMigration, SetsFloor, BootsTo,
      Inside, Working, Candidate, CandidateOK, Phase, storeVars
<1>RemoveResetIntent. RuntimeStep /\ RemoveResetIntent => CandidateOK'
  BY PreflightWrites DEF RuntimeStep, SetsReset, SetsSpool, SetsState, SetsMigration, SetsFloor, BootsTo,
      Inside, Working, Candidate, CandidateOK, Phase, storeVars
<1>BeginRuntimeMigration. RuntimeStep /\ BeginRuntimeMigration => CandidateOK'
  BY PreflightWrites DEF RuntimeStep, SetsReset, SetsSpool, SetsState, SetsMigration, SetsFloor, BootsTo,
      Inside, Working, Candidate, CandidateOK, LinuxSigning, MacSigning, NewMigration, ReplacedPhases, Phase,
      storeVars
<1>MigrateSpool. RuntimeStep /\ MigrateSpool => CandidateOK'
  BY PreflightWrites DEF RuntimeStep, SetsReset, SetsSpool, SetsState, SetsMigration, SetsFloor, BootsTo,
      Inside, Working, Candidate, CandidateOK, Phase, storeVars
<1>MigrateState. RuntimeStep /\ MigrateState => CandidateOK'
  BY PreflightWrites DEF RuntimeStep, SetsReset, SetsSpool, SetsState, SetsMigration, SetsFloor, BootsTo,
      Inside, Working, Candidate, CandidateOK, Phase, storeVars
<1>MigrateFloor. RuntimeStep /\ MigrateFloor => CandidateOK'
  BY PreflightWrites DEF RuntimeStep, SetsReset, SetsSpool, SetsState, SetsMigration, SetsFloor, BootsTo,
      Inside, Working, Candidate, CandidateOK, Phase, storeVars
<1>RemoveMigrationIntent. RuntimeStep /\ RemoveMigrationIntent => CandidateOK'
  BY PreflightWrites DEF RuntimeStep, SetsReset, SetsSpool, SetsState, SetsMigration, SetsFloor, BootsTo,
      Inside, Working, Candidate, CandidateOK, Phase, storeVars
<1>EstablishFloor. RuntimeStep /\ EstablishFloor => CandidateOK'
  BY PreflightWrites DEF RuntimeStep, SetsReset, SetsSpool, SetsState, SetsMigration, SetsFloor, BootsTo,
      Inside, Working, Candidate, CandidateOK, Phase, storeVars
<1>OpenSpool. RuntimeStep /\ OpenSpool => CandidateOK'
  BY <1>p2, <1>p3, <1>p4, Booting, <1>j, PhaseList DEF OpenSpool, RuntimeStep, BootsTo, storeVars, outside,
      counters, Inside, Working, Candidate, CandidateOK, PlacesOK, Phase
<1>Work. RuntimeStep /\ Work => CandidateOK'
  BY PreflightWrites DEF RuntimeStep, SetsReset, SetsSpool, SetsState, SetsMigration, SetsFloor, BootsTo,
      Inside, Working, Candidate, CandidateOK, Phase, storeVars
<1>LoadEncryption. LoadEncryption => CandidateOK'
  BY <1>p4, DaemonKeys, FreshKeyLemma DEF BootsTo, Gains, Records, Inside, Working, Candidate, CandidateOK,
      PlacesOK, Phase
<1>RecordEncryption. RecordEncryption => CandidateOK'
  BY <1>p3, <1>p4, Booting, KeyWrites, <1>j, PhaseList DEF RecordEncryption, BootsTo, Gains, Records, outside,
      counters, Inside, Working, Candidate, CandidateOK, PlacesOK, Phase
<1>StopDaemon. StopDaemon => CandidateOK'
  BY <1>j, PhaseList DEF StopDaemon, Die, Off, storeVars, outside, counters, Inside, Working, Candidate,
      CandidateOK, PlacesOK, Phase
<1>CrashDaemon. CrashDaemon => CandidateOK'
  BY <1>p4, <1>j, PhaseList DEF CrashDaemon, Die, Off, storeVars, outside, Candidate, CandidateOK, PlacesOK,
      Phase
<1>CreateSigningIdentity. CreateSigningIdentity => CandidateOK'
  BY <1>p4, FirstRun, FreshHosts DEF MovesTo, SetsMeta, SetsCreating, Inside, Working, Candidate, CandidateOK,
      PlacesOK, Phase
<1>SaveInitialConfig. SaveInitialConfig => CandidateOK'
  BY Moving, <1>j, PhaseList DEF SaveInitialConfig, Inside, Working, Candidate, CandidateOK, AfterClearing,
      AfterConfig, InitPlaces, EncPlaces, PlacesOK, Phase
<1>InitialEncryption. InitialEncryption => CandidateOK'
  BY InitialKeys, FreshKeyLemma DEF MovesTo, Leaves, Candidate, CandidateOK, DaemonOK, Mixed, InitPlaces,
      EncPlaces, PlacesOK, Phase
<1>CreateFirstRunItem. SigningWrite /\ CreateFirstRunItem => CandidateOK'
  BY SigningWrites DEF SigningWrite, MovesTo, SetsItems, Candidate, CandidateOK, PlacesOK, Phase
<1>CreateFirstRunIndex. SigningWrite /\ CreateFirstRunIndex => CandidateOK'
  BY SigningWrites DEF SigningWrite, MovesTo, SetsItems, Candidate, CandidateOK, PlacesOK, Phase
<1>CreateFirstRunMetadata. SigningWrite /\ CreateFirstRunMetadata => CandidateOK'
  BY SigningWrites DEF SigningWrite, MovesTo, SetsItems, Candidate, CandidateOK, DaemonOK, Mixed, InitPlaces,
      EncPlaces, PlacesOK, Phase
<1>CreateFirstRunRollback. SigningWrite /\ CreateFirstRunRollback => CandidateOK'
  BY SigningWrites DEF SigningWrite, MovesTo, SetsItems, Candidate, CandidateOK, PlacesOK, Phase
<1>DeleteCreationSentinel. SigningWrite /\ DeleteCreationSentinel => CandidateOK'
  BY SigningWrites DEF SigningWrite, MovesTo, SetsItems, SetsMeta, SetsCreating, Inside, Working, Candidate,
      CandidateOK, PlacesOK, Phase
<1>WriteCandidateItem. SigningWrite /\ WriteCandidateItem => CandidateOK'
  BY SigningWrites DEF SigningWrite, MovesTo, SetsItems, Candidate, CandidateOK, PlacesOK, Phase
<1>WriteIndexItem. SigningWrite /\ WriteIndexItem => CandidateOK'
  BY SigningWrites DEF SigningWrite, MovesTo, SetsItems, Candidate, CandidateOK, PlacesOK, Phase
<1>WriteProfileMetadata. SigningWrite /\ WriteProfileMetadata => CandidateOK'
  BY <1>p0, SigningWrites DEF SigningWrite, MovesTo, SetsItems, SetsMeta, SetsCreating, Inside, Working,
      Candidate, CandidateOK, DaemonOK, Mixed, Done, Initialising, LinuxSigning, MacSigning, PlacesOK, Phase,
      outside, counters
<1>DeletePreviousItem. SigningWrite /\ DeletePreviousItem => CandidateOK'
  BY SigningWrites DEF SigningWrite, MovesTo, SetsItems, Candidate, CandidateOK, PlacesOK, Phase
<1>DeleteInterruptedItem. SigningWrite /\ DeleteInterruptedItem => CandidateOK'
  BY SigningWrites DEF SigningWrite, MovesTo, SetsItems, Candidate, CandidateOK, PlacesOK, Phase
<1>ClearCreationSentinel. SigningWrite /\ ClearCreationSentinel => CandidateOK'
  BY SigningWrites DEF SigningWrite, MovesTo, SetsItems, SetsMeta, SetsCreating, Inside, Working, Candidate,
      CandidateOK, PlacesOK, Phase
<1>CreateJournal. CreateJournal => CandidateOK'
  BY Creating DEF CreateJournal, Candidate, CandidateOK, PlacesOK, Phase
<1>StopAndConfirm. StopAndConfirm => CandidateOK'
  BY <1>j, PhaseList DEF StopAndConfirm, Die, Off, MovesTo, storeVars, counters, Inside, Working, Candidate,
      CandidateOK, PlacesOK, Phase
<1>AcquireRuntimeOwnership. AcquireRuntimeOwnership => CandidateOK'
  BY Moving, Leaving, Entering, <1>j, PhaseList DEF AcquireRuntimeOwnership, MovesTo, Leaves, Enters, storeVars,
      outside, counters, Inside, Working, Candidate, CandidateOK, LinuxSigning, MacSigning, ReplacedPhases,
      AfterEncryption, AfterClearing, AfterConfig, InitPlaces, EncPlaces, SignPlaces, ClearPlaces, PlacesOK,
      Phase
<1>InspectAndBindOldDomain. InspectAndBindOldDomain => CandidateOK'
  BY <1>p2, <1>p3, <1>p4, <1>b, Binding, Loading DEF SetsCreating, Binds, Candidate, CandidateOK, DaemonOK,
      Mixed, ReplacedPhases, AfterEncryption, AfterClearing, AfterConfig, PlacesOK, Phase
<1>PersistRevokeIntent. PersistRevokeIntent => CandidateOK'
  BY <1>p3, <1>p4, Entering, <1>j, PhaseList DEF PersistRevokeIntent, At, MovesTo, Enters, storeVars, outside,
      counters, Inside, Working, Candidate, CandidateOK, LinuxSigning, MacSigning, ReplacedPhases,
      AfterEncryption, AfterClearing, AfterConfig, InitPlaces, EncPlaces, SignPlaces, ClearPlaces, PlacesOK,
      Phase
<1>RevokeOldIdentity. RevokeOldIdentity => CandidateOK'
  BY <1>p4, Leaving, Entering, <1>j, PhaseList DEF RevokeOldIdentity, At, MovesTo, Leaves, Enters, storeVars,
      counters, Inside, Working, Candidate, CandidateOK, LinuxSigning, MacSigning, ReplacedPhases,
      AfterEncryption, AfterClearing, AfterConfig, InitPlaces, EncPlaces, SignPlaces, ClearPlaces, PlacesOK,
      Phase
<1>PersistSigningReplacementIntent. PersistSigningReplacementIntent => CandidateOK'
  BY <1>p0, <1>p1, <1>p2, <1>p3, <1>p4, Entering, <1>j, PhaseList DEF PersistSigningReplacementIntent, At,
      MovesTo, Enters, storeVars, outside, counters, Inside, Working, Candidate, CandidateOK, LinuxSigning,
      MacSigning, ReplacedPhases, AfterEncryption, AfterClearing, AfterConfig, InitPlaces, EncPlaces,
      SignPlaces, ClearPlaces, PlacesOK, Phase
<1>AdoptOrReplaceSigningIdentity. AdoptOrReplaceSigningIdentity => CandidateOK'
  BY Choosing, FreshHosts DEF Candidate, CandidateOK, PlacesOK, Phase
<1>CommitSigning. CommitSigning => CandidateOK'
  BY <1>p4, <1>b, Adopting DEF CommitSigning, MovesTo, Inside, Working, Candidate, CandidateOK, DaemonOK, Mixed,
      Done, Phase, storeVars
<1>FinalizeSigning. FinalizeSigning => CandidateOK'
  BY <1>p3, <1>p4, Completing DEF MovesTo, Candidate, CandidateOK, PlacesOK, Phase
<1>ReplaceEncryptionIdentity. ReplaceEncryptionIdentity => CandidateOK'
  BY ReplacingKeyFrame DEF Candidate, CandidateOK
<1>WriteEncryptionItem. EncryptionWrite /\ WriteEncryptionItem => CandidateOK'
  BY EncryptionWrites DEF EncryptionWrite, MovesTo, Gains, Candidate, CandidateOK, PlacesOK, Phase
<1>WriteEncryptionMetadata. EncryptionWrite /\ WriteEncryptionMetadata => CandidateOK'
  BY EncryptionWrites DEF EncryptionWrite, MovesTo, Gains, Candidate, CandidateOK, DaemonOK, Mixed, InitPlaces,
      EncPlaces, PlacesOK, Phase
<1>DeletePreviousEncryptionItems. EncryptionWrite /\ DeletePreviousEncryptionItems => CandidateOK'
  BY EncryptionWrites DEF EncryptionWrite, MovesTo, Gains, Records, Drops, Inside, Working, Candidate,
      CandidateOK, PlacesOK, Phase
<1>CommitEncryption. CommitEncryption => CandidateOK'
  BY <1>p2, <1>p3, <1>p4, Entering, <1>j, PhaseList DEF CommitEncryption, MovesTo, Enters, storeVars, outside,
      counters, Inside, Working, Candidate, CandidateOK, LinuxSigning, MacSigning, ReplacedPhases,
      AfterEncryption, AfterClearing, AfterConfig, InitPlaces, EncPlaces, SignPlaces, ClearPlaces, PlacesOK,
      Phase
<1>FinalizeEncryption. FinalizeEncryption => CandidateOK'
  BY <1>p4, CompletingKey DEF KeyIsReplaced, MovesTo, Candidate, CandidateOK, PlacesOK, Phase
<1>ClearArtifacts. ClearArtifacts => CandidateOK'
  BY Clearing DEF SetsState, SetsSpool, SetsReset, MovesTo, Inside, Working, Candidate, CandidateOK, DaemonOK,
      Phase, storeVars
<1>ClearSpoolKey. ClearSpoolKey => CandidateOK'
  BY ClearingKey DEF MovesTo, Leaves, SetsKey, SetsItem, Inside, Working, Candidate, CandidateOK, DaemonOK,
      Phase, storeVars
<1>CommitCleared. CommitCleared => CandidateOK'
  BY <1>p2, <1>p3, <1>p4, Entering, <1>j, PhaseList DEF CommitCleared, MovesTo, Enters, storeVars, outside,
      counters, Inside, Working, Candidate, CandidateOK, LinuxSigning, MacSigning, ReplacedPhases,
      AfterEncryption, SignPlaces, ClearPlaces, PlacesOK, Phase
<1>PersistConfig. PersistConfig => CandidateOK'
  BY Leaving, Entering, <1>j, PhaseList DEF PersistConfig, At, MovesTo, Leaves, Enters, storeVars, outside,
      counters, Inside, Working, Candidate, CandidateOK, LinuxSigning, MacSigning, ReplacedPhases,
      AfterEncryption, AfterClearing, AfterConfig, InitPlaces, EncPlaces, SignPlaces, ClearPlaces, PlacesOK,
      Phase
<1>EnrollNewIdentity. EnrollNewIdentity => CandidateOK'
  BY <1>p4, Leaving, Entering, <1>j, PhaseList DEF EnrollNewIdentity, At, MovesTo, Leaves, Enters, storeVars,
      counters, Inside, Working, Candidate, CandidateOK, LinuxSigning, MacSigning, ReplacedPhases,
      AfterEncryption, AfterClearing, AfterConfig, InitPlaces, EncPlaces, SignPlaces, ClearPlaces, PlacesOK,
      Phase
<1>SyncServiceMetadata. SyncServiceMetadata => CandidateOK'
  BY <1>p4, Leaving, Entering, <1>j, PhaseList DEF SyncServiceMetadata, At, MovesTo, Leaves, Enters, storeVars,
      counters, Inside, Working, Candidate, CandidateOK, LinuxSigning, MacSigning, ReplacedPhases,
      AfterEncryption, AfterClearing, AfterConfig, InitPlaces, EncPlaces, SignPlaces, ClearPlaces, PlacesOK,
      Phase
<1>PersistServiceRestoreIntent. PersistServiceRestoreIntent => CandidateOK'
  BY Leaving, Entering, <1>j, PhaseList DEF PersistServiceRestoreIntent, At, MovesTo, Leaves, Enters, storeVars,
      outside, counters, Inside, Working, Candidate, CandidateOK, LinuxSigning, MacSigning, ReplacedPhases,
      AfterEncryption, AfterClearing, AfterConfig, InitPlaces, EncPlaces, SignPlaces, ClearPlaces, PlacesOK,
      Phase
<1>RestoreService. RestoreService => CandidateOK'
  BY <1>p2, <1>p3, <1>p4, Restoring DEF Candidate, CandidateOK, PlacesOK, Phase
<1>ConfirmAndRemoveJournal. ConfirmAndRemoveJournal => CandidateOK'
  BY DEF ConfirmAndRemoveJournal, Leaves, storeVars, outside, Inside, Working, Candidate, CandidateOK,
      LinuxSigning, MacSigning, ReplacedPhases, AfterEncryption, AfterClearing, AfterConfig, PlacesOK, Phase
<1>unchanged. UNCHANGED <<disk, boot, signing, encryption, journal, config>> => CandidateOK'
  BY DEF Phase, Candidate, CandidateOK
<1> QED BY <1>SpawnDaemon, <1>GuardStart, <1>AcquireRuntimeLock, <1>ValidateIdentity, <1>PreflightRuntime,
           <1>BeginResetKey, <1>BeginRuntimeReset, <1>ReplaceSpool, <1>ReplaceState, <1>RemoveResetIntent,
           <1>BeginRuntimeMigration, <1>MigrateSpool, <1>MigrateState, <1>MigrateFloor,
           <1>RemoveMigrationIntent, <1>EstablishFloor, <1>OpenSpool, <1>Work, <1>LoadEncryption,
           <1>RecordEncryption, <1>StopDaemon, <1>CrashDaemon, <1>CreateSigningIdentity, <1>SaveInitialConfig,
           <1>InitialEncryption, <1>CreateFirstRunItem, <1>CreateFirstRunIndex, <1>CreateFirstRunMetadata,
           <1>CreateFirstRunRollback, <1>DeleteCreationSentinel, <1>WriteCandidateItem, <1>WriteIndexItem,
           <1>WriteProfileMetadata, <1>DeletePreviousItem, <1>DeleteInterruptedItem, <1>ClearCreationSentinel,
           <1>CreateJournal, <1>StopAndConfirm, <1>AcquireRuntimeOwnership, <1>InspectAndBindOldDomain,
           <1>PersistRevokeIntent, <1>RevokeOldIdentity, <1>PersistSigningReplacementIntent,
           <1>AdoptOrReplaceSigningIdentity, <1>CommitSigning, <1>FinalizeSigning, <1>ReplaceEncryptionIdentity,
           <1>WriteEncryptionItem, <1>WriteEncryptionMetadata, <1>DeletePreviousEncryptionItems,
           <1>CommitEncryption, <1>FinalizeEncryption, <1>ClearArtifacts, <1>ClearSpoolKey, <1>CommitCleared,
           <1>PersistConfig, <1>EnrollNewIdentity, <1>SyncServiceMetadata, <1>PersistServiceRestoreIntent,
           <1>RestoreService, <1>ConfirmAndRemoveJournal, <1>unchanged, Changes

\* Every step keeps OwnOK: outside an exchange the configuration, the key and the keyring are those
\* of the signing Host.
LEMMA OwnOKPreserved ==
  ASSUME TypeOK, PlacesOK, LocksOK, JournalOK, Done, LinuxSigning, MacSigning, Initialising, Replacing,
           EncReset, EncryptionOK, DaemonOK, CandidateOK, OwnOK, StartOK, ClearOK, [Next]_vars
  PROVE  OwnOK'
<1>j. cli.at \in {"acquire", "run", "enc-commit", "clear-commit", "sign-commit"} => journal # None
  BY DEF PlacesOK, Phase, SignPlaces, EncPlaces, ClearPlaces
<1>b. InspectAndBindOldDomain \/ CommitSigning \/ AdoptOrReplaceSigningIdentity => journal # None
  BY DEF InspectAndBindOldDomain, CommitSigning, AdoptOrReplaceSigningIdentity, At, PlacesOK, SignPlaces, Phase
<1>p0. platform \in {"linux","darwin"} /\ None \notin Hosts /\ boot \in Boot /\ config \in MaybeHost /\
         signing.meta \in MaybeHost /\ signing.creating \in MaybeHost
  BY Kinds, NoneIsNothing DEF SigningStore
<1>p1. (cli.at \in Working => ~Inside) /\ (Phase \in ReplacedPhases => ~Inside)
  BY DEF LocksOK, DaemonOK, CandidateOK, Candidate, Done, Inside
<1>p2. (Phase \in ReplacedPhases => journal.new # None) /\ SigningStatus(signing) = "ready" => signing.meta # None
  BY DEF SigningStatus
<1>p3. journal = None => {config, encryption.host, keyring} \subseteq {None, signing.meta} /\ Candidate = None
  BY DEF OwnOK, Mixed, Candidate, Phase, ReplacedPhases, AfterEncryption, AfterClearing, AfterConfig
<1>p4. signing \in SigningStore /\ (SigningStatus(signing) = "absent" => signing.meta = None) /\
         (SigningStatus(signing) = "ready" => signing.meta # None)
  BY Kinds DEF SigningStatus
<1>ValidateIdentity. ValidateIdentity => OwnOK'
  BY <1>p4, Booting, Loading DEF ValidateIdentity, Die, Off, BootsTo, SetsCreating, Inside, Working, Candidate,
      CandidateOK, DaemonOK, Mixed, Done, Initialising, OwnOK, LinuxSigning, MacSigning, SigningStore, PlacesOK,
      Phase
<1>LoadEncryption. LoadEncryption => OwnOK'
  BY <1>p2, <1>p3, <1>p4, DaemonKeys, FreshKeyLemma DEF BootsTo, Gains, Records, Inside, Working, Candidate,
      CandidateOK, DaemonOK, Mixed, Done, Initialising, OwnOK, LinuxSigning, MacSigning, SigningStore, PlacesOK,
      Phase
<1>RecordEncryption. RecordEncryption => OwnOK'
  BY Booting, KeyWrites, <1>j, PhaseList DEF RecordEncryption, BootsTo, Gains, Records, outside, counters,
      Inside, Working, Candidate, CandidateOK, DaemonOK, Mixed, Done, Initialising, OwnOK, LinuxSigning,
      SignPlaces, ClearPlaces, PlacesOK, Phase
<1>Serve. Serve => OwnOK'
  BY <1>p4, <1>j, PhaseList DEF Serve, storeVars, counters, Inside, Working, Candidate, CandidateOK, DaemonOK,
      Mixed, Done, Initialising, OwnOK, LinuxSigning, PlacesOK, Phase
<1>CreateSigningIdentity. CreateSigningIdentity => OwnOK'
  BY <1>p2, <1>p3, <1>p4, FirstRun DEF DaemonOK, Mixed, Done, Initialising, OwnOK, LinuxSigning, PlacesOK, Phase
<1>SaveInitialConfig. SaveInitialConfig => OwnOK'
  BY PhaseList DEF SaveInitialConfig, MovesTo, storeVars, Candidate, CandidateOK, DaemonOK, Mixed, Done,
      Initialising, OwnOK, LinuxSigning, AfterConfig, BoundPhases, InitPlaces, EncPlaces, PlacesOK, Phase
<1>InitialEncryption. InitialEncryption => OwnOK'
  BY <1>p3, <1>p4, InitialKeys, FreshKeyLemma DEF MovesTo, Leaves, Gains, Records, Inside, Working, Candidate,
      CandidateOK, DaemonOK, Mixed, Done, Initialising, OwnOK, LinuxSigning, MacSigning, SigningStore, PlacesOK,
      Phase
<1>CreateFirstRunItem. SigningWrite /\ CreateFirstRunItem => OwnOK'
  BY <1>p3, <1>p4, SigningWrites DEF SigningWrite, DaemonOK, Mixed, Done, Initialising, OwnOK, LinuxSigning,
      PlacesOK, Phase
<1>CreateFirstRunIndex. SigningWrite /\ CreateFirstRunIndex => OwnOK'
  BY <1>p3, <1>p4, SigningWrites DEF SigningWrite, DaemonOK, Mixed, Done, Initialising, OwnOK, LinuxSigning,
      PlacesOK, Phase
<1>CreateFirstRunMetadata. SigningWrite /\ CreateFirstRunMetadata => OwnOK'
  BY <1>p3, <1>p4, SigningWrites DEF SigningWrite, DaemonOK, Mixed, Done, Initialising, OwnOK, LinuxSigning,
      PlacesOK, Phase
<1>CreateFirstRunRollback. SigningWrite /\ CreateFirstRunRollback => OwnOK'
  BY <1>p3, <1>p4, SigningWrites DEF SigningWrite, DaemonOK, Mixed, Done, Initialising, OwnOK, LinuxSigning,
      PlacesOK, Phase
<1>DeleteCreationSentinel. SigningWrite /\ DeleteCreationSentinel => OwnOK'
  BY <1>p3, <1>p4, SigningWrites DEF SigningWrite, MovesTo, SetsItems, SetsMeta, SetsCreating, Inside, Working,
      Candidate, CandidateOK, DaemonOK, Mixed, Done, Initialising, OwnOK, LinuxSigning, MacSigning,
      SigningStore, PlacesOK, Phase
<1>WriteCandidateItem. SigningWrite /\ WriteCandidateItem => OwnOK'
  BY <1>p3, <1>p4, SigningWrites DEF SigningWrite, MovesTo, SetsItems, SetsMeta, SetsCreating, Inside, Working,
      Candidate, CandidateOK, DaemonOK, Mixed, Done, Initialising, OwnOK, LinuxSigning, MacSigning,
      SigningStore, PlacesOK, Phase
<1>WriteIndexItem. SigningWrite /\ WriteIndexItem => OwnOK'
  BY <1>p3, <1>p4, SigningWrites DEF SigningWrite, MovesTo, SetsItems, SetsMeta, SetsCreating, Inside, Working,
      Candidate, CandidateOK, DaemonOK, Mixed, Done, Initialising, OwnOK, LinuxSigning, MacSigning,
      SigningStore, PlacesOK, Phase
<1>WriteProfileMetadata. SigningWrite /\ WriteProfileMetadata => OwnOK'
  BY <1>p0, <1>p1, <1>p2, <1>p3, <1>p4, SigningWrites DEF SigningWrite, MovesTo, SetsItems, SetsMeta,
      SetsCreating, Inside, Working, Candidate, CandidateOK, DaemonOK, Mixed, Done, Initialising, OwnOK,
      LinuxSigning, MacSigning, SigningStore, SigningResets, ClearOK, EncryptionOK, ReplacedPhases, InitPlaces,
      EncPlaces, SignPlaces, ClearPlaces, PlacesOK, Phase, outside, counters
<1>DeletePreviousItem. SigningWrite /\ DeletePreviousItem => OwnOK'
  BY <1>p3, <1>p4, SigningWrites DEF SigningWrite, MovesTo, SetsItems, SetsMeta, SetsCreating, Inside, Working,
      Candidate, CandidateOK, DaemonOK, Mixed, Done, Initialising, OwnOK, LinuxSigning, MacSigning,
      SigningStore, PlacesOK, Phase
<1>DeleteInterruptedItem. SigningWrite /\ DeleteInterruptedItem => OwnOK'
  BY <1>p3, <1>p4, SigningWrites DEF SigningWrite, MovesTo, SetsItems, SetsMeta, SetsCreating, Inside, Working,
      Candidate, CandidateOK, DaemonOK, Mixed, Done, Initialising, OwnOK, LinuxSigning, MacSigning,
      SigningStore, PlacesOK, Phase
<1>ClearCreationSentinel. SigningWrite /\ ClearCreationSentinel => OwnOK'
  BY <1>p3, <1>p4, SigningWrites DEF SigningWrite, MovesTo, SetsItems, SetsMeta, SetsCreating, Inside, Working,
      Candidate, CandidateOK, DaemonOK, Mixed, Done, Initialising, OwnOK, LinuxSigning, MacSigning,
      SigningStore, PlacesOK, Phase
<1>CreateJournal. CreateJournal => OwnOK'
  BY <1>p3, <1>p4, Creating DEF CreateJournal, OwnOK, LinuxSigning, MacSigning, SigningStore, AfterEncryption,
      AfterClearing, AfterConfig, BoundPhases, PlacesOK, Phase, storeVars, outside
<1>AcquireRuntimeOwnership. AcquireRuntimeOwnership => OwnOK'
  BY <1>p3, <1>p4, Moving, Leaving, Entering, <1>j, PhaseList DEF AcquireRuntimeOwnership, MovesTo, Leaves,
      Enters, storeVars, Candidate, CandidateOK, DaemonOK, Mixed, Done, Initialising, OwnOK, LinuxSigning,
      EncryptionOK, ReplacedPhases, AfterEncryption, AfterClearing, AfterConfig, BoundPhases, InitPlaces,
      EncPlaces, SignPlaces, ClearPlaces, PlacesOK, Phase
<1>InspectAndBindOldDomain. InspectAndBindOldDomain => OwnOK'
  BY <1>p0, <1>p1, <1>p2, <1>p3, <1>p4, <1>b, Binding, Loading DEF SetsCreating, Binds, MovesTo, Leaves, Inside,
      Working, Candidate, CandidateOK, DaemonOK, Mixed, Done, Initialising, OwnOK, LinuxSigning, MacSigning,
      SigningStore, SigningResets, ClearOK, EncryptionOK, ReplacedPhases, AfterEncryption, AfterClearing,
      AfterConfig, BoundPhases, PlacesOK, Phase, outside, counters
<1>PersistRevokeIntent. PersistRevokeIntent => OwnOK'
  BY <1>p1, <1>p2, <1>p3, <1>p4, Entering, <1>j, PhaseList DEF PersistRevokeIntent, At, MovesTo, Enters,
      storeVars, Candidate, CandidateOK, DaemonOK, Mixed, Done, Initialising, OwnOK, LinuxSigning, EncryptionOK,
      ReplacedPhases, AfterEncryption, AfterClearing, AfterConfig, BoundPhases, InitPlaces, EncPlaces,
      SignPlaces, ClearPlaces, PlacesOK, Phase
<1>RevokeOldIdentity. RevokeOldIdentity => OwnOK'
  BY <1>p2, <1>p3, <1>p4, Leaving, Entering, <1>j, PhaseList DEF RevokeOldIdentity, At, MovesTo, Leaves, Enters,
      storeVars, counters, Inside, Working, Candidate, CandidateOK, DaemonOK, Mixed, Done, Initialising, OwnOK,
      LinuxSigning, EncryptionOK, ReplacedPhases, AfterEncryption, AfterClearing, AfterConfig, BoundPhases,
      InitPlaces, EncPlaces, SignPlaces, ClearPlaces, PlacesOK, Phase
<1>PersistSigningReplacementIntent. PersistSigningReplacementIntent => OwnOK'
  BY <1>p1, <1>p2, <1>p3, <1>p4, Entering, <1>j, PhaseList DEF PersistSigningReplacementIntent, At, MovesTo,
      Enters, storeVars, Candidate, CandidateOK, DaemonOK, Mixed, Done, Initialising, OwnOK, LinuxSigning,
      EncryptionOK, ReplacedPhases, AfterEncryption, AfterClearing, AfterConfig, BoundPhases, InitPlaces,
      EncPlaces, SignPlaces, ClearPlaces, PlacesOK, Phase
<1>AdoptOrReplaceSigningIdentity. AdoptOrReplaceSigningIdentity => OwnOK'
  BY Choosing, FreshHosts DEF Inside, Working, Candidate, CandidateOK, DaemonOK, Mixed, Done, Initialising,
      OwnOK, LinuxSigning, MacSigning, ClearOK, PlacesOK, Phase
<1>CommitSigning. CommitSigning => OwnOK'
  BY Adopting DEF CommitSigning, MovesTo, Inside, Working, Candidate, CandidateOK, DaemonOK, Mixed, Done,
      Initialising, OwnOK, ClearOK, EncryptionOK, ReplacedPhases, AfterEncryption, AfterClearing, AfterConfig,
      BoundPhases, InitPlaces, Phase, storeVars
<1>FinalizeSigning. FinalizeSigning => OwnOK'
  BY Completing DEF MovesTo, SetsSentinel, Leaves, Inside, Working, Candidate, CandidateOK, DaemonOK, Mixed,
      Done, Initialising, OwnOK, LinuxSigning, PlacesOK, Phase
<1>ReplaceEncryptionIdentity. ReplaceEncryptionIdentity => OwnOK'
  BY ReplacingKeyFrame, <1>p0, <1>p1, <1>p2 DEF Candidate, CandidateOK, DaemonOK, Mixed, OwnOK, LinuxSigning,
      ReplacedPhases, AfterEncryption
<1>WriteEncryptionItem. EncryptionWrite /\ WriteEncryptionItem => OwnOK'
  BY <1>p3, <1>p4, EncryptionWrites DEF EncryptionWrite, MovesTo, Gains, Records, Drops, Inside, Working,
      Candidate, CandidateOK, DaemonOK, Mixed, Done, Initialising, OwnOK, LinuxSigning, MacSigning,
      SigningStore, PlacesOK, Phase
<1>WriteEncryptionMetadata. EncryptionWrite /\ WriteEncryptionMetadata => OwnOK'
  BY <1>p0, <1>p1, <1>p2, <1>p3, <1>p4, EncryptionWrites DEF EncryptionWrite, Inside, Working, Candidate,
      CandidateOK, DaemonOK, Mixed, Done, Initialising, OwnOK, LinuxSigning, MacSigning, SigningStore,
      SigningResets, ClearOK, EncryptionOK, ReplacedPhases, InitPlaces, EncPlaces, SignPlaces, ClearPlaces,
      PlacesOK, Phase, outside, counters
<1>DeletePreviousEncryptionItems. EncryptionWrite /\ DeletePreviousEncryptionItems => OwnOK'
  BY <1>p3, <1>p4, EncryptionWrites DEF EncryptionWrite, MovesTo, Gains, Records, Drops, Inside, Working,
      Candidate, CandidateOK, DaemonOK, Mixed, Done, Initialising, OwnOK, LinuxSigning, MacSigning,
      SigningStore, PlacesOK, Phase
<1>CommitEncryption. CommitEncryption => OwnOK'
  BY <1>p0, <1>p1, <1>p2, <1>p3, <1>p4, Entering, <1>j, PhaseList DEF CommitEncryption, MovesTo, Enters,
      storeVars, Candidate, CandidateOK, DaemonOK, Mixed, Done, Initialising, OwnOK, LinuxSigning, EncryptionOK,
      ReplacedPhases, AfterEncryption, AfterClearing, AfterConfig, BoundPhases, InitPlaces, EncPlaces,
      SignPlaces, ClearPlaces, PlacesOK, Phase
<1>FinalizeEncryption. FinalizeEncryption => OwnOK'
  BY <1>p2, <1>p3, <1>p4, CompletingKey DEF KeyIsReplaced, MovesTo, SetsKeySentinel, Leaves, Inside, Working,
      Candidate, CandidateOK, DaemonOK, Mixed, Done, Initialising, OwnOK, LinuxSigning, MacSigning,
      SigningStore, PlacesOK, Phase
<1>ClearArtifacts. ClearArtifacts => OwnOK'
  BY <1>p3, <1>p4, Clearing DEF SetsState, Working, Candidate, CandidateOK, DaemonOK, Mixed, Done, Initialising,
      OwnOK, Phase, storeVars
<1>CommitCleared. CommitCleared => OwnOK'
  BY <1>p0, <1>p1, <1>p2, <1>p3, <1>p4, Entering, <1>j, PhaseList DEF CommitCleared, MovesTo, Enters, storeVars,
      Candidate, CandidateOK, DaemonOK, Mixed, Done, Initialising, OwnOK, LinuxSigning, EncryptionOK,
      ReplacedPhases, AfterEncryption, AfterClearing, AfterConfig, BoundPhases, InitPlaces, EncPlaces,
      SignPlaces, ClearPlaces, PlacesOK, Phase
<1>PersistConfig. PersistConfig => OwnOK'
  BY <1>p3, <1>p4, Leaving, Entering, <1>j, PhaseList DEF PersistConfig, At, MovesTo, Leaves, Enters, storeVars,
      Candidate, CandidateOK, DaemonOK, Mixed, Done, Initialising, OwnOK, LinuxSigning, MacSigning,
      SigningStore, SigningResets, ClearOK, EncryptionOK, ReplacedPhases, AfterEncryption, AfterClearing,
      SignPlaces, ClearPlaces, PlacesOK, Phase
<1>EnrollNewIdentity. EnrollNewIdentity => OwnOK'
  BY <1>p2, <1>p3, <1>p4, Leaving, Entering, <1>j, PhaseList DEF EnrollNewIdentity, At, MovesTo, Leaves, Enters,
      storeVars, counters, Inside, Working, Candidate, CandidateOK, DaemonOK, Mixed, Done, Initialising, OwnOK,
      LinuxSigning, MacSigning, SigningStore, SigningResets, ClearOK, EncryptionOK, ReplacedPhases,
      AfterEncryption, AfterClearing, SignPlaces, ClearPlaces, PlacesOK, Phase
<1>SyncServiceMetadata. SyncServiceMetadata => OwnOK'
  BY <1>p2, <1>p3, <1>p4, Leaving, Entering, <1>j, PhaseList DEF SyncServiceMetadata, At, MovesTo, Leaves,
      Enters, storeVars, counters, Inside, Working, Candidate, CandidateOK, DaemonOK, Mixed, Done, Initialising,
      OwnOK, LinuxSigning, EncryptionOK, ReplacedPhases, AfterEncryption, AfterClearing, AfterConfig,
      BoundPhases, InitPlaces, EncPlaces, SignPlaces, ClearPlaces, PlacesOK, Phase
<1>PersistServiceRestoreIntent. PersistServiceRestoreIntent => OwnOK'
  BY <1>p3, <1>p4, Leaving, Entering, <1>j, PhaseList DEF PersistServiceRestoreIntent, At, MovesTo, Leaves,
      Enters, storeVars, Candidate, CandidateOK, DaemonOK, Mixed, Done, Initialising, OwnOK, LinuxSigning,
      EncryptionOK, ReplacedPhases, AfterEncryption, AfterClearing, AfterConfig, BoundPhases, InitPlaces,
      EncPlaces, SignPlaces, ClearPlaces, PlacesOK, Phase
<1>ConfirmAndRemoveJournal. ConfirmAndRemoveJournal => OwnOK'
  BY <1>j, PhaseList DEF ConfirmAndRemoveJournal, Leaves, storeVars, outside, Inside, Working, Done,
      Initialising, OwnOK, LinuxSigning, MacSigning, SigningStore, SigningResets, ClearOK, EncryptionOK,
      ReplacedPhases, AfterEncryption, AfterClearing, AfterConfig, BoundPhases, InitPlaces, EncPlaces,
      SignPlaces, ClearPlaces, PlacesOK, Phase
<1>unchanged. UNCHANGED <<signing, encryption, journal, config, keyring>> => OwnOK'
  BY DEF Phase, Mixed, OwnOK, Candidate
<1> QED BY <1>ValidateIdentity, <1>LoadEncryption, <1>RecordEncryption, <1>Serve, <1>CreateSigningIdentity,
           <1>SaveInitialConfig, <1>InitialEncryption, <1>CreateFirstRunItem, <1>CreateFirstRunIndex,
           <1>CreateFirstRunMetadata, <1>CreateFirstRunRollback, <1>DeleteCreationSentinel,
           <1>WriteCandidateItem, <1>WriteIndexItem, <1>WriteProfileMetadata, <1>DeletePreviousItem,
           <1>DeleteInterruptedItem, <1>ClearCreationSentinel, <1>CreateJournal, <1>AcquireRuntimeOwnership,
           <1>InspectAndBindOldDomain, <1>PersistRevokeIntent, <1>RevokeOldIdentity,
           <1>PersistSigningReplacementIntent, <1>AdoptOrReplaceSigningIdentity, <1>CommitSigning,
           <1>FinalizeSigning, <1>ReplaceEncryptionIdentity, <1>WriteEncryptionItem, <1>WriteEncryptionMetadata,
           <1>DeletePreviousEncryptionItems, <1>CommitEncryption, <1>FinalizeEncryption, <1>ClearArtifacts,
           <1>CommitCleared, <1>PersistConfig, <1>EnrollNewIdentity, <1>SyncServiceMetadata,
           <1>PersistServiceRestoreIntent, <1>ConfirmAndRemoveJournal, <1>unchanged, Changes

\* Every step keeps OldKeyOK: during a reset the spool key is that of the Host the reset retires.
LEMMA OldKeyOKPreserved ==
  ASSUME TypeOK, PlacesOK, LocksOK, JournalOK, Done, LinuxSigning, MacSigning, Initialising, Replacing, Bound,
           EncReset, EncryptionOK, DaemonOK, CandidateOK, OwnOK, DiskOK, StartOK, ClearOK, OldKeyOK, ServiceOK,
           OnlyAnOldFloorRefuses, NoRefusal, [Next]_vars
  PROVE  OldKeyOK'
<1>j. cli.at \in {"acquire", "run", "enc-commit", "clear-commit", "sign-commit"} => journal # None
  BY DEF PlacesOK, Phase, SignPlaces, EncPlaces, ClearPlaces
<1>b. InspectAndBindOldDomain \/ CommitSigning \/ AdoptOrReplaceSigningIdentity => journal # None
  BY DEF InspectAndBindOldDomain, CommitSigning, AdoptOrReplaceSigningIdentity, At, PlacesOK, SignPlaces, Phase
<1>p0. platform \in {"linux","darwin"} /\ boot \in Boot
  BY Kinds
<1>p1. Inside => boot.host = signing.meta /\ Phase \notin ReplacedPhases /\
         (Phase \in BoundPhases /\ ~journal.unreadable => journal.old = boot.host)
  BY DaemonOwnsFiles
<1>p2. RuntimeStep => Inside
  BY RuntimeIsInside
<1>p3. journal # None /\ Phase = "quarantined" => (disk.key # None => disk.key.host = signing.meta)
  BY DEF DiskOK, KeyOK, KeyReady, Mixed, Candidate, ReplacedPhases, AfterEncryption, AfterClearing, AfterConfig
<1>p4. SigningStatus(signing) = "ready" => signing.meta # None
  BY DEF SigningStatus
<1>p5. AfterLoad(signing).meta = signing.meta
  BY DEF AfterLoad
<1>BeginResetKey. RuntimeStep /\ BeginResetKey => OldKeyOK'
  BY <1>p0, <1>p1, <1>p2, <1>p3, <1>p4, <1>p5, ResetKeyWrites DEF RuntimeStep, SetsItem, SetsKey, BootsTo,
      OldKeyOK, Phase, storeVars
<1>BeginRuntimeReset. RuntimeStep /\ BeginRuntimeReset => OldKeyOK'
  BY <1>p5, PreflightWrites DEF RuntimeStep, SetsReset, BootsTo, OldKeyOK, Phase, storeVars
<1>ReplaceSpool. RuntimeStep /\ ReplaceSpool => OldKeyOK'
  BY <1>p5, PreflightWrites DEF RuntimeStep, SetsReset, SetsSpool, SetsState, SetsMigration, SetsFloor, BootsTo,
      OldKeyOK, Phase, storeVars
<1>ReplaceState. RuntimeStep /\ ReplaceState => OldKeyOK'
  BY <1>p5, PreflightWrites DEF RuntimeStep, SetsReset, SetsSpool, SetsState, SetsMigration, SetsFloor, BootsTo,
      OldKeyOK, Phase, storeVars
<1>RemoveResetIntent. RuntimeStep /\ RemoveResetIntent => OldKeyOK'
  BY <1>p5, PreflightWrites DEF RuntimeStep, SetsReset, BootsTo, OldKeyOK, Phase, storeVars
<1>BeginRuntimeMigration. RuntimeStep /\ BeginRuntimeMigration => OldKeyOK'
  BY <1>p5, PreflightWrites DEF RuntimeStep, SetsReset, SetsSpool, SetsState, SetsMigration, SetsFloor, BootsTo,
      OldKeyOK, Phase, storeVars
<1>MigrateSpool. RuntimeStep /\ MigrateSpool => OldKeyOK'
  BY <1>p5, PreflightWrites DEF RuntimeStep, SetsReset, SetsSpool, SetsState, SetsMigration, SetsFloor, BootsTo,
      OldKeyOK, Phase, storeVars
<1>MigrateState. RuntimeStep /\ MigrateState => OldKeyOK'
  BY <1>p5, PreflightWrites DEF RuntimeStep, SetsReset, SetsSpool, SetsState, SetsMigration, SetsFloor, BootsTo,
      OldKeyOK, Phase, storeVars
<1>MigrateFloor. RuntimeStep /\ MigrateFloor => OldKeyOK'
  BY <1>p5, PreflightWrites DEF RuntimeStep, SetsReset, SetsSpool, SetsState, SetsMigration, SetsFloor, BootsTo,
      OldKeyOK, Phase, storeVars
<1>RemoveMigrationIntent. RuntimeStep /\ RemoveMigrationIntent => OldKeyOK'
  BY <1>p5, PreflightWrites DEF RuntimeStep, SetsReset, SetsSpool, SetsState, SetsMigration, SetsFloor, BootsTo,
      OldKeyOK, Phase, storeVars
<1>EstablishFloor. RuntimeStep /\ EstablishFloor => OldKeyOK'
  BY <1>p5, PreflightWrites DEF RuntimeStep, SetsReset, SetsSpool, SetsState, SetsMigration, SetsFloor, BootsTo,
      OldKeyOK, Phase, storeVars
<1>Work. RuntimeStep /\ Work => OldKeyOK'
  BY <1>p5, PreflightWrites DEF RuntimeStep, SetsReset, SetsSpool, SetsState, SetsMigration, SetsFloor, BootsTo,
      OldKeyOK, Phase, storeVars
<1>CreateJournal. CreateJournal => OldKeyOK'
  BY Creating DEF CreateJournal, OldKeyOK, ReplacedPhases, AfterEncryption, AfterClearing, AfterConfig,
      BoundPhases, PlacesOK, Phase
<1>AcquireRuntimeOwnership. AcquireRuntimeOwnership => OldKeyOK'
  BY Moving, Leaving, Entering, <1>j, PhaseList DEF AcquireRuntimeOwnership, MovesTo, Leaves, Enters, storeVars,
      outside, counters, OldKeyOK, ReplacedPhases, AfterEncryption, AfterClearing, AfterConfig, BoundPhases,
      PlacesOK, Phase
<1>InspectAndBindOldDomain. InspectAndBindOldDomain => OldKeyOK'
  BY <1>p0, <1>p1, <1>p2, <1>p3, <1>p4, <1>p5, <1>b, Binding, Loading DEF SetsCreating, Binds, MovesTo, Leaves,
      OldKeyOK, ReplacedPhases, AfterEncryption, AfterClearing, AfterConfig, BoundPhases, UnfilledPhases,
      InitPlaces, EncPlaces, SignPlaces, ClearPlaces, PlacesOK, At, Phase, storeVars, outside, counters,
      Evidence
<1>PersistRevokeIntent. PersistRevokeIntent => OldKeyOK'
  BY <1>p4, <1>p5, Entering, <1>j, PhaseList DEF PersistRevokeIntent, At, MovesTo, Enters, storeVars, outside,
      counters, OldKeyOK, ReplacedPhases, AfterEncryption, AfterClearing, AfterConfig, BoundPhases, PlacesOK,
      Phase
<1>RevokeOldIdentity. RevokeOldIdentity => OldKeyOK'
  BY <1>p5, Leaving, Entering, <1>j, PhaseList DEF RevokeOldIdentity, At, MovesTo, Leaves, Enters, storeVars,
      counters, OldKeyOK, ReplacedPhases, AfterEncryption, AfterClearing, AfterConfig, BoundPhases, PlacesOK,
      Phase
<1>PersistSigningReplacementIntent. PersistSigningReplacementIntent => OldKeyOK'
  BY <1>p4, <1>p5, Entering, <1>j, PhaseList DEF PersistSigningReplacementIntent, At, MovesTo, Enters,
      storeVars, outside, counters, OldKeyOK, ReplacedPhases, AfterEncryption, AfterClearing, AfterConfig,
      BoundPhases, PlacesOK, Phase
<1>CommitSigning. CommitSigning => OldKeyOK'
  BY <1>p5, <1>b, Adopting DEF CommitSigning, MovesTo, OldKeyOK, ReplacedPhases, AfterEncryption, BoundPhases,
      InitPlaces, EncPlaces, SignPlaces, ClearPlaces, PlacesOK
<1>CommitEncryption. CommitEncryption => OldKeyOK'
  BY <1>p3, <1>p4, <1>p5, Entering, <1>j, PhaseList DEF CommitEncryption, MovesTo, Enters, storeVars, outside,
      counters, OldKeyOK, ReplacedPhases, AfterEncryption, AfterClearing, InitPlaces, EncPlaces, PlacesOK, Phase
<1>ClearArtifacts. ClearArtifacts => OldKeyOK'
  BY Clearing DEF SetsState, SetsSpool, SetsReset, MovesTo, OldKeyOK, ReplacedPhases, AfterEncryption,
      ClearPlaces, PlacesOK
<1>ClearSpoolKey. ClearSpoolKey => OldKeyOK'
  BY ClearingKey DEF MovesTo, Leaves, SetsKey, SetsItem, OldKeyOK, ReplacedPhases, AfterEncryption, ClearPlaces,
      PlacesOK
<1>CommitCleared. CommitCleared => OldKeyOK'
  BY <1>p3, <1>p4, <1>p5, Entering, <1>j, PhaseList DEF CommitCleared, MovesTo, Enters, storeVars, outside,
      counters, OldKeyOK, ReplacedPhases, AfterEncryption, AfterClearing, SignPlaces, ClearPlaces, PlacesOK,
      Phase
<1>PersistConfig. PersistConfig => OldKeyOK'
  BY Leaving, Entering, <1>j, PhaseList DEF PersistConfig, At, MovesTo, Leaves, Enters, storeVars, outside,
      counters, OldKeyOK, ReplacedPhases, AfterEncryption, AfterClearing, PlacesOK, Phase
<1>EnrollNewIdentity. EnrollNewIdentity => OldKeyOK'
  BY <1>p5, Leaving, Entering, <1>j, PhaseList DEF EnrollNewIdentity, At, MovesTo, Leaves, Enters, storeVars,
      counters, OldKeyOK, ReplacedPhases, AfterEncryption, AfterClearing, AfterConfig, BoundPhases, PlacesOK,
      Phase
<1>SyncServiceMetadata. SyncServiceMetadata => OldKeyOK'
  BY <1>p5, Leaving, Entering, <1>j, PhaseList DEF SyncServiceMetadata, At, MovesTo, Leaves, Enters, storeVars,
      counters, OldKeyOK, ReplacedPhases, AfterEncryption, AfterClearing, AfterConfig, BoundPhases, PlacesOK,
      Phase
<1>PersistServiceRestoreIntent. PersistServiceRestoreIntent => OldKeyOK'
  BY Leaving, Entering, <1>j, PhaseList DEF PersistServiceRestoreIntent, At, MovesTo, Leaves, Enters, storeVars,
      outside, counters, OldKeyOK, ReplacedPhases, AfterEncryption, AfterClearing, AfterConfig, BoundPhases,
      PlacesOK, Phase
<1>ConfirmAndRemoveJournal. ConfirmAndRemoveJournal => OldKeyOK'
  BY DEF ConfirmAndRemoveJournal, Leaves, storeVars, outside, OldKeyOK, ReplacedPhases, AfterEncryption,
      AfterClearing, AfterConfig, BoundPhases, PlacesOK, Phase
<1>unchanged. UNCHANGED <<disk, journal>> => OldKeyOK'
  BY DEF Phase, OldKeyOK
<1> QED BY <1>BeginResetKey, <1>BeginRuntimeReset, <1>ReplaceSpool, <1>ReplaceState, <1>RemoveResetIntent,
           <1>BeginRuntimeMigration, <1>MigrateSpool, <1>MigrateState, <1>MigrateFloor,
           <1>RemoveMigrationIntent, <1>EstablishFloor, <1>Work, <1>CreateJournal, <1>AcquireRuntimeOwnership,
           <1>InspectAndBindOldDomain, <1>PersistRevokeIntent, <1>RevokeOldIdentity,
           <1>PersistSigningReplacementIntent, <1>CommitSigning, <1>CommitEncryption, <1>ClearArtifacts,
           <1>ClearSpoolKey, <1>CommitCleared, <1>PersistConfig, <1>EnrollNewIdentity, <1>SyncServiceMetadata,
           <1>PersistServiceRestoreIntent, <1>ConfirmAndRemoveJournal, <1>unchanged, Changes

\* Every step keeps ClearOK: what the clearing has removed by the time the process stands behind
\* each removal.
LEMMA ClearOKPreserved ==
  ASSUME TypeOK, PlacesOK, LocksOK, ClearOK, EncryptionOK, OldKeyOK, Done, DaemonOK, CandidateOK, [Next]_vars
  PROVE  ClearOK'
<1>j. cli.at \in {"acquire", "run", "enc-commit", "clear-commit", "sign-commit"} => journal # None
  BY DEF PlacesOK, Phase, SignPlaces, EncPlaces, ClearPlaces
<1>b. InspectAndBindOldDomain \/ CommitSigning \/ AdoptOrReplaceSigningIdentity => journal # None
  BY DEF InspectAndBindOldDomain, CommitSigning, AdoptOrReplaceSigningIdentity, At, PlacesOK, SignPlaces, Phase
<1>p0. disk \in Disk
  BY Kinds
<1>p1. (cli.at \in Working => boot.at \in {"off","spawned","guarded"}) /\ (Phase \in AfterClearing => ~Inside)
  BY DEF LocksOK, DaemonOK, CandidateOK, Candidate, Done, ReplacedPhases, AfterEncryption, Inside
<1>BeginResetKey. RuntimeStep /\ BeginResetKey => ClearOK'
  BY <1>p1, ResetKeyWrites DEF RuntimeStep, SetsItem, ClearOK, Phase, Working, SignPlaces, EncPlaces,
      ClearPlaces, Inside
<1>BeginRuntimeReset. RuntimeStep /\ BeginRuntimeReset => ClearOK'
  BY <1>p0, <1>p1, PreflightWrites DEF RuntimeStep, ClearOK, Phase, Working, SignPlaces, EncPlaces, ClearPlaces,
      Inside, AfterClearing
<1>ReplaceSpool. RuntimeStep /\ ReplaceSpool => ClearOK'
  BY <1>p0, <1>p1, PreflightWrites DEF RuntimeStep, ClearOK, Phase, Working, SignPlaces, EncPlaces, ClearPlaces,
      Inside, AfterClearing
<1>ReplaceState. RuntimeStep /\ ReplaceState => ClearOK'
  BY <1>p0, <1>p1, PreflightWrites DEF RuntimeStep, ClearOK, Phase, Working, SignPlaces, EncPlaces, ClearPlaces,
      Inside, AfterClearing
<1>RemoveResetIntent. RuntimeStep /\ RemoveResetIntent => ClearOK'
  BY PreflightWrites DEF RuntimeStep, SetsReset, ClearOK, Phase
<1>BeginRuntimeMigration. RuntimeStep /\ BeginRuntimeMigration => ClearOK'
  BY PreflightWrites DEF RuntimeStep, SetsState, SetsMigration, ClearOK, Phase
<1>MigrateSpool. RuntimeStep /\ MigrateSpool => ClearOK'
  BY <1>p0, <1>p1, PreflightWrites DEF RuntimeStep, ClearOK, Phase, Working, SignPlaces, EncPlaces, ClearPlaces,
      Inside, AfterClearing
<1>MigrateState. RuntimeStep /\ MigrateState => ClearOK'
  BY <1>p0, <1>p1, PreflightWrites DEF RuntimeStep, ClearOK, Phase, Working, SignPlaces, EncPlaces, ClearPlaces,
      Inside, AfterClearing
<1>MigrateFloor. RuntimeStep /\ MigrateFloor => ClearOK'
  BY PreflightWrites DEF RuntimeStep, SetsFloor, BootsTo, ClearOK, Phase
<1>RemoveMigrationIntent. RuntimeStep /\ RemoveMigrationIntent => ClearOK'
  BY PreflightWrites DEF RuntimeStep, SetsState, SetsMigration, ClearOK, Phase
<1>EstablishFloor. RuntimeStep /\ EstablishFloor => ClearOK'
  BY PreflightWrites DEF RuntimeStep, SetsFloor, BootsTo, ClearOK, Phase
<1>Work. RuntimeStep /\ Work => ClearOK'
  BY <1>p0, <1>p1, PreflightWrites DEF RuntimeStep, ClearOK, Phase, Working, SignPlaces, EncPlaces, ClearPlaces,
      Inside, AfterClearing
<1>Serve. Serve => ClearOK'
  BY <1>p0, <1>p1 DEF Serve, storeVars, counters, ClearOK, Phase, Working, Inside
<1>CrashCli. CrashCli => ClearOK'
  BY Leaving, <1>j, PhaseList DEF CrashCli, Leaves, storeVars, outside, ClearOK, Phase, Working, ClearPlaces
<1>Initialize. Initialize => ClearOK'
  BY <1>p0, <1>p1, Moving DEF Initialize, MovesTo, counters, ClearOK, Phase, Working, ClearPlaces, Inside
<1>CreateSigningIdentity. CreateSigningIdentity => ClearOK'
  BY FirstRun, FreshHosts DEF MovesTo, SetsMeta, SetsCreating, ClearOK, Phase, ClearPlaces
<1>SaveInitialConfig. SaveInitialConfig => ClearOK'
  BY <1>p0, <1>p1, Moving DEF SaveInitialConfig, MovesTo, counters, ClearOK, Phase, Working, ClearPlaces, Inside
<1>InitialEncryption. InitialEncryption => ClearOK'
  BY <1>p1, InitialKeys, FreshKeyLemma DEF MovesTo, Leaves, Gains, Records, ClearOK, Phase, Working, ClearPlaces
<1>CreateFirstRunItem. SigningWrite /\ CreateFirstRunItem => ClearOK'
  BY <1>p1, SigningWrites DEF SigningWrite, MovesTo, SetsCreating, ClearOK, Phase, Working, ClearPlaces
<1>CreateFirstRunIndex. SigningWrite /\ CreateFirstRunIndex => ClearOK'
  BY <1>p1, SigningWrites DEF SigningWrite, MovesTo, SetsCreating, ClearOK, Phase, Working, ClearPlaces
<1>CreateFirstRunMetadata. SigningWrite /\ CreateFirstRunMetadata => ClearOK'
  BY <1>p1, SigningWrites DEF SigningWrite, MovesTo, SetsCreating, ClearOK, Phase, Working, ClearPlaces
<1>CreateFirstRunRollback. SigningWrite /\ CreateFirstRunRollback => ClearOK'
  BY <1>p1, SigningWrites DEF SigningWrite, MovesTo, SetsCreating, ClearOK, Phase, Working, ClearPlaces
<1>DeleteCreationSentinel. SigningWrite /\ DeleteCreationSentinel => ClearOK'
  BY <1>p1, SigningWrites DEF SigningWrite, MovesTo, SetsCreating, ClearOK, Phase, Working, ClearPlaces
<1>WriteCandidateItem. SigningWrite /\ WriteCandidateItem => ClearOK'
  BY <1>p1, SigningWrites DEF SigningWrite, MovesTo, SetsCreating, ClearOK, Phase, Working, ClearPlaces
<1>WriteIndexItem. SigningWrite /\ WriteIndexItem => ClearOK'
  BY <1>p1, SigningWrites DEF SigningWrite, MovesTo, SetsCreating, ClearOK, Phase, Working, ClearPlaces
<1>WriteProfileMetadata. SigningWrite /\ WriteProfileMetadata => ClearOK'
  BY <1>p1, SigningWrites DEF SigningWrite, MovesTo, SetsCreating, ClearOK, Phase, Working, ClearPlaces
<1>DeletePreviousItem. SigningWrite /\ DeletePreviousItem => ClearOK'
  BY <1>p1, SigningWrites DEF SigningWrite, MovesTo, SetsCreating, ClearOK, Phase, Working, ClearPlaces
<1>DeleteInterruptedItem. SigningWrite /\ DeleteInterruptedItem => ClearOK'
  BY <1>p1, SigningWrites DEF SigningWrite, MovesTo, SetsCreating, ClearOK, Phase, Working, ClearPlaces
<1>ClearCreationSentinel. SigningWrite /\ ClearCreationSentinel => ClearOK'
  BY <1>p1, SigningWrites DEF SigningWrite, MovesTo, SetsCreating, ClearOK, Phase, Working, ClearPlaces
<1>CreateJournal. CreateJournal => ClearOK'
  BY DEF CreateJournal, ClearOK, Phase, Working, ClearPlaces, AfterClearing, AfterConfig
<1>ResumeReset. ResumeReset => ClearOK'
  BY PhaseList DEF ResumeReset, counters, ClearOK, Phase, Working, ClearPlaces
<1>StopAndConfirm. StopAndConfirm => ClearOK'
  BY <1>p0, <1>p1, Moving, <1>j, PhaseList DEF StopAndConfirm, MovesTo, storeVars, counters, ClearOK, Phase,
      Working, ClearPlaces, Inside
<1>AcquireRuntimeOwnership. AcquireRuntimeOwnership => ClearOK'
  BY <1>p0, <1>p1, Moving, Leaving, Entering, <1>j, PhaseList DEF AcquireRuntimeOwnership, MovesTo, Leaves,
      Enters, storeVars, outside, counters, ClearOK, Phase, Working, ClearPlaces, Inside, AfterClearing,
      AfterConfig
<1>InspectAndBindOldDomain. InspectAndBindOldDomain => ClearOK'
  BY <1>p0, <1>p1, <1>b, Binding DEF Binds, MovesTo, Leaves, ClearOK, Phase, Working, ClearPlaces, Inside,
      AfterClearing, AfterConfig
<1>PersistRevokeIntent. PersistRevokeIntent => ClearOK'
  BY <1>p1, Entering, <1>j, PhaseList DEF PersistRevokeIntent, At, MovesTo, Enters, storeVars, outside,
      counters, ClearOK, Phase, Working, AfterClearing, AfterConfig
<1>RevokeOldIdentity. RevokeOldIdentity => ClearOK'
  BY Leaving, Entering, <1>j, PhaseList DEF RevokeOldIdentity, At, MovesTo, Leaves, Enters, storeVars, counters,
      ClearOK, Phase, Working, ClearPlaces, Inside, AfterClearing, AfterConfig
<1>PersistSigningReplacementIntent. PersistSigningReplacementIntent => ClearOK'
  BY <1>p1, Entering, <1>j, PhaseList DEF PersistSigningReplacementIntent, At, MovesTo, Enters, storeVars,
      outside, counters, ClearOK, Phase, Working, AfterClearing, AfterConfig
<1>AdoptOrReplaceSigningIdentity. AdoptOrReplaceSigningIdentity => ClearOK'
  BY <1>p0, <1>p1, <1>b, AdoptingOrReplacing, FreshHosts DEF MovesTo, SetsMeta, SetsSentinel, Leaves, ClearOK,
      Phase, At, Working, SignPlaces, EncPlaces, ClearPlaces, Inside, ReplacedPhases, AfterEncryption,
      AfterClearing, AfterConfig, BoundPhases, UnfilledPhases, storeVars, outside, counters
<1>CommitSigning. CommitSigning => ClearOK'
  BY <1>b, Adopting DEF CommitSigning, MovesTo, ClearOK, Phase, EncPlaces, ClearPlaces, Inside, AfterClearing,
      AfterConfig
<1>FinalizeSigning. FinalizeSigning => ClearOK'
  BY <1>p1, Completing DEF MovesTo, SetsSentinel, Leaves, ClearOK, Phase, ClearPlaces
<1>ReplaceEncryptionIdentity. ReplaceEncryptionIdentity => ClearOK'
  BY ReplacingKeyFrame DEF ClearOK, ClearPlaces
<1>WriteEncryptionItem. EncryptionWrite /\ WriteEncryptionItem => ClearOK'
  BY <1>p1, EncryptionWrites DEF EncryptionWrite, MovesTo, Drops, ClearOK, Phase, Working, ClearPlaces
<1>WriteEncryptionMetadata. EncryptionWrite /\ WriteEncryptionMetadata => ClearOK'
  BY <1>p1, EncryptionWrites DEF EncryptionWrite, MovesTo, Drops, ClearOK, Phase, Working, ClearPlaces
<1>DeletePreviousEncryptionItems. EncryptionWrite /\ DeletePreviousEncryptionItems => ClearOK'
  BY <1>p1, EncryptionWrites DEF EncryptionWrite, MovesTo, Drops, ClearOK, Phase, Working, ClearPlaces
<1>CommitEncryption. CommitEncryption => ClearOK'
  BY <1>p0, <1>p1, Entering, <1>j, PhaseList DEF CommitEncryption, MovesTo, Enters, counters, ClearOK, Phase,
      Working, ClearPlaces, Inside, AfterClearing, AfterConfig
<1>FinalizeEncryption. FinalizeEncryption => ClearOK'
  BY CompletingKey DEF KeyIsReplaced, MovesTo, SetsKeySentinel, Leaves, ClearOK, Phase, ClearPlaces
<1>ClearArtifacts. ClearArtifacts => ClearOK'
  BY <1>p1, Clearing DEF SetsState, SetsSpool, SetsReset, MovesTo, ClearOK, Phase, EncPlaces, ClearPlaces
<1>ClearSpoolKey. ClearSpoolKey => ClearOK'
  BY <1>p1, ClearingKey DEF MovesTo, Leaves, SetsKey, SetsItem, ClearOK, Phase, EncPlaces, ClearPlaces
<1>CommitCleared. CommitCleared => ClearOK'
  BY PhaseList DEF CommitCleared, counters, ClearOK, ClearPlaces
<1>PersistConfig. PersistConfig => ClearOK'
  BY Entering, <1>j, PhaseList DEF PersistConfig, At, MovesTo, Leaves, Enters, storeVars, outside, counters,
      ClearOK, Phase, Working, AfterClearing, AfterConfig
<1>EnrollNewIdentity. EnrollNewIdentity => ClearOK'
  BY Leaving, Entering, <1>j, PhaseList DEF EnrollNewIdentity, At, MovesTo, Leaves, Enters, storeVars, counters,
      ClearOK, Phase, Working, AfterClearing, AfterConfig
<1>SyncServiceMetadata. SyncServiceMetadata => ClearOK'
  BY Leaving, Entering, <1>j, PhaseList DEF SyncServiceMetadata, At, MovesTo, Leaves, Enters, storeVars,
      counters, ClearOK, Phase, Working, AfterClearing, AfterConfig
<1>PersistServiceRestoreIntent. PersistServiceRestoreIntent => ClearOK'
  BY Entering, <1>j, PhaseList DEF PersistServiceRestoreIntent, At, MovesTo, Leaves, Enters, storeVars, outside,
      counters, ClearOK, Phase, Working, AfterClearing, AfterConfig
<1>VerifyReplacement. VerifyReplacement => ClearOK'
  BY Moving, Leaving, <1>j, PhaseList DEF VerifyReplacement, At, MovesTo, Leaves, storeVars, outside, counters,
      ClearOK, Phase, Working, ClearPlaces, Inside
<1>RestoreService. RestoreService => ClearOK'
  BY Restoring DEF MovesTo, Leaves, ClearOK, Phase, ClearPlaces
<1>ConfirmAndRemoveJournal. ConfirmAndRemoveJournal => ClearOK'
  BY Leaving, <1>j, PhaseList DEF ConfirmAndRemoveJournal, Leaves, storeVars, outside, ClearOK, Phase, Working,
      ClearPlaces, Inside, AfterClearing, AfterConfig
<1>unchanged. UNCHANGED <<disk, cli, journal, keyring>> => ClearOK'
  BY DEF Phase, ClearOK
<1> QED BY <1>BeginResetKey, <1>BeginRuntimeReset, <1>ReplaceSpool, <1>ReplaceState, <1>RemoveResetIntent,
           <1>BeginRuntimeMigration, <1>MigrateSpool, <1>MigrateState, <1>MigrateFloor,
           <1>RemoveMigrationIntent, <1>EstablishFloor, <1>Work, <1>Serve, <1>CrashCli, <1>Initialize,
           <1>CreateSigningIdentity, <1>SaveInitialConfig, <1>InitialEncryption, <1>CreateFirstRunItem,
           <1>CreateFirstRunIndex, <1>CreateFirstRunMetadata, <1>CreateFirstRunRollback,
           <1>DeleteCreationSentinel, <1>WriteCandidateItem, <1>WriteIndexItem, <1>WriteProfileMetadata,
           <1>DeletePreviousItem, <1>DeleteInterruptedItem, <1>ClearCreationSentinel, <1>CreateJournal,
           <1>ResumeReset, <1>StopAndConfirm, <1>AcquireRuntimeOwnership, <1>InspectAndBindOldDomain,
           <1>PersistRevokeIntent, <1>RevokeOldIdentity, <1>PersistSigningReplacementIntent,
           <1>AdoptOrReplaceSigningIdentity, <1>CommitSigning, <1>FinalizeSigning, <1>ReplaceEncryptionIdentity,
           <1>WriteEncryptionItem, <1>WriteEncryptionMetadata, <1>DeletePreviousEncryptionItems,
           <1>CommitEncryption, <1>FinalizeEncryption, <1>ClearArtifacts, <1>ClearSpoolKey, <1>CommitCleared,
           <1>PersistConfig, <1>EnrollNewIdentity, <1>SyncServiceMetadata, <1>PersistServiceRestoreIntent,
           <1>VerifyReplacement, <1>RestoreService, <1>ConfirmAndRemoveJournal, <1>unchanged, Changes

\* Every step keeps ServiceOK: the service definition names the replacement from its
\* synchronisation on.
LEMMA ServiceOKPreserved ==
  ASSUME TypeOK, PlacesOK, ServiceOK, Done, [Next]_vars
  PROVE  ServiceOK'
<1>j. cli.at \in {"acquire", "run", "enc-commit", "clear-commit", "sign-commit"} => journal # None
  BY DEF PlacesOK, Phase, SignPlaces, EncPlaces, ClearPlaces
<1>b. InspectAndBindOldDomain \/ CommitSigning \/ AdoptOrReplaceSigningIdentity => journal # None
  BY DEF InspectAndBindOldDomain, CommitSigning, AdoptOrReplaceSigningIdentity, At, PlacesOK, SignPlaces, Phase
<1>p0. service \in [managed : BOOLEAN, loaded : BOOLEAN, reference : MaybeHost]
  BY Kinds
<1>StartService. StartService => ServiceOK'
  BY DEF StartService, ServiceOK, Phase
<1>CreateJournal. CreateJournal => ServiceOK'
  BY DEF CreateJournal, ServiceOK, Phase
<1>StopAndConfirm. StopAndConfirm => ServiceOK'
  BY <1>p0, PhaseList DEF StopAndConfirm, ServiceOK, Phase
<1>AcquireRuntimeOwnership. AcquireRuntimeOwnership => ServiceOK'
  BY Leaving, Entering, <1>j, PhaseList DEF AcquireRuntimeOwnership, MovesTo, Leaves, Enters, storeVars,
      outside, counters, ServiceOK, Phase
<1>InspectAndBindOldDomain. InspectAndBindOldDomain => ServiceOK'
  BY <1>b, Binding DEF Binds, MovesTo, Leaves, ServiceOK, Phase
<1>PersistRevokeIntent. PersistRevokeIntent => ServiceOK'
  BY <1>p0, Entering, <1>j, PhaseList DEF PersistRevokeIntent, At, MovesTo, Enters, counters, ServiceOK, Phase
<1>RevokeOldIdentity. RevokeOldIdentity => ServiceOK'
  BY Leaving, Entering, <1>j, PhaseList DEF RevokeOldIdentity, At, Enters, storeVars, counters, ServiceOK, Phase
<1>PersistSigningReplacementIntent. PersistSigningReplacementIntent => ServiceOK'
  BY <1>p0, Entering, <1>j, PhaseList DEF PersistSigningReplacementIntent, At, MovesTo, Enters, counters,
      ServiceOK, Phase
<1>CommitSigning. CommitSigning => ServiceOK'
  BY <1>b, Adopting DEF ServiceOK, Phase
<1>CommitEncryption. CommitEncryption => ServiceOK'
  BY Entering, <1>j, PhaseList DEF CommitEncryption, MovesTo, Enters, counters, ServiceOK, Phase
<1>CommitCleared. CommitCleared => ServiceOK'
  BY Entering, <1>j, PhaseList DEF CommitCleared, MovesTo, Enters, counters, ServiceOK, Phase
<1>PersistConfig. PersistConfig => ServiceOK'
  BY Leaving, Entering, <1>j, PhaseList DEF PersistConfig, At, Enters, storeVars, ServiceOK, Phase
<1>EnrollNewIdentity. EnrollNewIdentity => ServiceOK'
  BY Entering, <1>j, PhaseList DEF EnrollNewIdentity, At, MovesTo, Leaves, Enters, ServiceOK, Phase
<1>SyncServiceMetadata. SyncServiceMetadata => ServiceOK'
  BY Entering, <1>j, PhaseList DEF SyncServiceMetadata, At, MovesTo, Leaves, Enters, ServiceOK, Phase, Done,
      Replaced
<1>PersistServiceRestoreIntent. PersistServiceRestoreIntent => ServiceOK'
  BY Leaving, Entering, <1>j, PhaseList DEF PersistServiceRestoreIntent, At, Enters, storeVars, outside,
      counters, ServiceOK, Phase
<1>RestoreService. RestoreService => ServiceOK'
  BY Restoring DEF ServiceOK, Phase
<1>ConfirmAndRemoveJournal. ConfirmAndRemoveJournal => ServiceOK'
  BY DEF ConfirmAndRemoveJournal, outside, ServiceOK, Phase
<1>unchanged. UNCHANGED <<journal, service>> => ServiceOK'
  BY DEF Phase, ServiceOK
<1> QED BY <1>StartService, <1>CreateJournal, <1>StopAndConfirm, <1>AcquireRuntimeOwnership,
           <1>InspectAndBindOldDomain, <1>PersistRevokeIntent, <1>RevokeOldIdentity,
           <1>PersistSigningReplacementIntent, <1>CommitSigning, <1>CommitEncryption, <1>CommitCleared,
           <1>PersistConfig, <1>EnrollNewIdentity, <1>SyncServiceMetadata, <1>PersistServiceRestoreIntent,
           <1>RestoreService, <1>ConfirmAndRemoveJournal, <1>unchanged, Changes

\* Every step keeps NoEnrolledHostIsAbandoned: a Host the Relay accepts can still be revoked, or was reported.
LEMMA NoEnrolledHostIsAbandonedPreserved ==
  ASSUME TypeOK, PlacesOK, JournalOK, Done, LinuxSigning, MacSigning, Bound, Replacing, DaemonOK,
           NoEnrolledHostIsAbandoned, Initialising, [Next]_vars
  PROVE  NoEnrolledHostIsAbandoned'
<1>j. cli.at \in {"acquire", "run", "enc-commit", "clear-commit", "sign-commit"} => journal # None
  BY DEF PlacesOK, Phase, SignPlaces, EncPlaces, ClearPlaces
<1>b. InspectAndBindOldDomain \/ CommitSigning \/ AdoptOrReplaceSigningIdentity => journal # None
  BY DEF InspectAndBindOldDomain, CommitSigning, AdoptOrReplaceSigningIdentity, At, PlacesOK, SignPlaces, Phase
<1>p0. platform \in {"linux","darwin"} /\ None \notin Hosts /\ signing \in SigningStore
  BY Kinds, NoneIsNothing
<1>p1. relay \in [enrolled : SUBSET Hosts, revoked : SUBSET Hosts]
  BY Kinds
<1>ValidateIdentity. ValidateIdentity => NoEnrolledHostIsAbandoned'
  BY Loading DEF ValidateIdentity, BootsTo, SetsCreating, NoEnrolledHostIsAbandoned, Candidate, outside,
      counters
<1>Serve. Serve => NoEnrolledHostIsAbandoned'
  BY PhaseList DEF Serve, storeVars, counters, NoEnrolledHostIsAbandoned, Candidate, Initialising, DaemonOK,
      Inside, SigningStatus
<1>CreateSigningIdentity. CreateSigningIdentity => NoEnrolledHostIsAbandoned'
  BY <1>p0, <1>p1, FirstRun, FreshHosts DEF MovesTo, SetsMeta, SetsCreating, NoEnrolledHostIsAbandoned,
      Candidate, JournalOK, Bound, Initialising, DaemonOK, Inside, SigningStatus, ReplacedPhases,
      AfterEncryption, PlacesOK, Phase, outside, counters
<1>CreateFirstRunItem. SigningWrite /\ CreateFirstRunItem => NoEnrolledHostIsAbandoned'
  BY SigningWrites DEF SigningWrite, MovesTo, SetsItems, NoEnrolledHostIsAbandoned, Candidate, outside, counters
<1>CreateFirstRunIndex. SigningWrite /\ CreateFirstRunIndex => NoEnrolledHostIsAbandoned'
  BY SigningWrites DEF SigningWrite, MovesTo, SetsItems, NoEnrolledHostIsAbandoned, Candidate, outside, counters
<1>CreateFirstRunMetadata. SigningWrite /\ CreateFirstRunMetadata => NoEnrolledHostIsAbandoned'
  BY <1>p0, <1>p1, SigningWrites DEF SigningWrite, MovesTo, SetsItems, SetsMeta, SetsCreating,
      NoEnrolledHostIsAbandoned, Candidate, JournalOK, Bound, Initialising, DaemonOK, outside, counters
<1>CreateFirstRunRollback. SigningWrite /\ CreateFirstRunRollback => NoEnrolledHostIsAbandoned'
  BY SigningWrites DEF SigningWrite, MovesTo, SetsItems, NoEnrolledHostIsAbandoned, Candidate, outside, counters
<1>DeleteCreationSentinel. SigningWrite /\ DeleteCreationSentinel => NoEnrolledHostIsAbandoned'
  BY SigningWrites DEF SigningWrite, SetsMeta, SetsCreating, NoEnrolledHostIsAbandoned, Candidate, outside,
      counters
<1>WriteCandidateItem. SigningWrite /\ WriteCandidateItem => NoEnrolledHostIsAbandoned'
  BY SigningWrites DEF SigningWrite, MovesTo, SetsItems, NoEnrolledHostIsAbandoned, Candidate, outside, counters
<1>WriteIndexItem. SigningWrite /\ WriteIndexItem => NoEnrolledHostIsAbandoned'
  BY SigningWrites DEF SigningWrite, MovesTo, SetsItems, NoEnrolledHostIsAbandoned, Candidate, outside, counters
<1>WriteProfileMetadata. SigningWrite /\ WriteProfileMetadata => NoEnrolledHostIsAbandoned'
  BY <1>p0, <1>p1, SigningWrites DEF SigningWrite, MovesTo, SetsItems, SetsMeta, SetsCreating,
      NoEnrolledHostIsAbandoned, Candidate, LinuxSigning, Done, Replacing, Chosen, JournalOK, Bound,
      Initialising, DaemonOK, InitPlaces, EncPlaces, SignPlaces, ClearPlaces, PlacesOK, Phase, outside, counters
<1>DeletePreviousItem. SigningWrite /\ DeletePreviousItem => NoEnrolledHostIsAbandoned'
  BY SigningWrites DEF SigningWrite, MovesTo, SetsItems, NoEnrolledHostIsAbandoned, Candidate, outside, counters
<1>DeleteInterruptedItem. SigningWrite /\ DeleteInterruptedItem => NoEnrolledHostIsAbandoned'
  BY SigningWrites DEF SigningWrite, MovesTo, SetsItems, NoEnrolledHostIsAbandoned, Candidate, outside, counters
<1>ClearCreationSentinel. SigningWrite /\ ClearCreationSentinel => NoEnrolledHostIsAbandoned'
  BY SigningWrites DEF SigningWrite, SetsMeta, SetsCreating, NoEnrolledHostIsAbandoned, Candidate, outside,
      counters
<1>CreateJournal. CreateJournal => NoEnrolledHostIsAbandoned'
  BY Creating DEF CreateJournal, NoEnrolledHostIsAbandoned, Candidate, storeVars, outside
<1>AcquireRuntimeOwnership. AcquireRuntimeOwnership => NoEnrolledHostIsAbandoned'
  BY Moving, Leaving, Entering, <1>j, PhaseList DEF AcquireRuntimeOwnership, MovesTo, Leaves, Enters, storeVars,
      outside, counters, NoEnrolledHostIsAbandoned, Candidate
<1>InspectAndBindOldDomain. InspectAndBindOldDomain => NoEnrolledHostIsAbandoned'
  BY <1>p0, <1>p1, <1>b, Binding, Loading DEF SetsCreating, Binds, MovesTo, Leaves, NoEnrolledHostIsAbandoned,
      Candidate, JournalOK, Bound, Initialising, DaemonOK, AfterClearing, AfterConfig, BoundPhases,
      UnfilledPhases, PlacesOK, Phase, outside, counters
<1>PersistRevokeIntent. PersistRevokeIntent => NoEnrolledHostIsAbandoned'
  BY PhaseList DEF PersistRevokeIntent, Enters, storeVars, outside, counters, NoEnrolledHostIsAbandoned,
      Candidate
<1>RevokeOldIdentity. RevokeOldIdentity => NoEnrolledHostIsAbandoned'
  BY <1>p1, Leaving, Entering, <1>j, PhaseList DEF RevokeOldIdentity, At, MovesTo, Leaves, Enters, storeVars,
      counters, NoEnrolledHostIsAbandoned, Candidate
<1>PersistSigningReplacementIntent. PersistSigningReplacementIntent => NoEnrolledHostIsAbandoned'
  BY <1>p0, <1>p1, Entering, <1>j, PhaseList DEF PersistSigningReplacementIntent, At, MovesTo, Enters,
      storeVars, outside, counters, NoEnrolledHostIsAbandoned, Candidate
<1>AdoptOrReplaceSigningIdentity. AdoptOrReplaceSigningIdentity => NoEnrolledHostIsAbandoned'
  BY Choosing, FreshHosts, <1>p0, <1>p1 DEF NoEnrolledHostIsAbandoned, Candidate, JournalOK, Bound, BoundPhases,
      UnfilledPhases
<1>CommitSigning. CommitSigning => NoEnrolledHostIsAbandoned'
  BY <1>p1, <1>b, Adopting DEF CommitSigning, MovesTo, NoEnrolledHostIsAbandoned, Phase, storeVars, outside,
      counters
<1>FinalizeSigning. FinalizeSigning => NoEnrolledHostIsAbandoned'
  BY Completing DEF MovesTo, SetsSentinel, Leaves, NoEnrolledHostIsAbandoned, Candidate, outside, counters
<1>CommitEncryption. CommitEncryption => NoEnrolledHostIsAbandoned'
  BY <1>p0, <1>p1, Entering, <1>j, PhaseList DEF CommitEncryption, MovesTo, Enters, storeVars, outside,
      counters, NoEnrolledHostIsAbandoned, Candidate
<1>CommitCleared. CommitCleared => NoEnrolledHostIsAbandoned'
  BY <1>p0, <1>p1, Entering, <1>j, PhaseList DEF CommitCleared, MovesTo, Enters, storeVars, outside, counters,
      NoEnrolledHostIsAbandoned, Candidate
<1>PersistConfig. PersistConfig => NoEnrolledHostIsAbandoned'
  BY Leaving, Entering, <1>j, PhaseList DEF PersistConfig, At, MovesTo, Leaves, Enters, storeVars, outside,
      counters, NoEnrolledHostIsAbandoned, Candidate
<1>EnrollNewIdentity. EnrollNewIdentity => NoEnrolledHostIsAbandoned'
  BY <1>p0, <1>p1, Leaving, Entering, <1>j, PhaseList DEF EnrollNewIdentity, At, MovesTo, Leaves, Enters,
      storeVars, counters, NoEnrolledHostIsAbandoned, Candidate, LinuxSigning, Done, ReplacedPhases,
      AfterEncryption, AfterClearing, AfterConfig, SignPlaces, ClearPlaces, PlacesOK, Phase
<1>SyncServiceMetadata. SyncServiceMetadata => NoEnrolledHostIsAbandoned'
  BY <1>p1, Leaving, Entering, <1>j, PhaseList DEF SyncServiceMetadata, At, MovesTo, Leaves, Enters, storeVars,
      counters, NoEnrolledHostIsAbandoned, Candidate
<1>PersistServiceRestoreIntent. PersistServiceRestoreIntent => NoEnrolledHostIsAbandoned'
  BY Leaving, Entering, <1>j, PhaseList DEF PersistServiceRestoreIntent, At, MovesTo, Leaves, Enters, storeVars,
      outside, counters, NoEnrolledHostIsAbandoned, Candidate
<1>ConfirmAndRemoveJournal. ConfirmAndRemoveJournal => NoEnrolledHostIsAbandoned'
  BY DEF ConfirmAndRemoveJournal, Leaves, storeVars, outside, NoEnrolledHostIsAbandoned
<1>unchanged. UNCHANGED <<signing, journal, relay, warned>> => NoEnrolledHostIsAbandoned'
  BY DEF NoEnrolledHostIsAbandoned
<1> QED BY <1>ValidateIdentity, <1>Serve, <1>CreateSigningIdentity, <1>CreateFirstRunItem,
           <1>CreateFirstRunIndex, <1>CreateFirstRunMetadata, <1>CreateFirstRunRollback,
           <1>DeleteCreationSentinel, <1>WriteCandidateItem, <1>WriteIndexItem, <1>WriteProfileMetadata,
           <1>DeletePreviousItem, <1>DeleteInterruptedItem, <1>ClearCreationSentinel, <1>CreateJournal,
           <1>AcquireRuntimeOwnership, <1>InspectAndBindOldDomain, <1>PersistRevokeIntent, <1>RevokeOldIdentity,
           <1>PersistSigningReplacementIntent, <1>AdoptOrReplaceSigningIdentity, <1>CommitSigning,
           <1>FinalizeSigning, <1>CommitEncryption, <1>CommitCleared, <1>PersistConfig, <1>EnrollNewIdentity,
           <1>SyncServiceMetadata, <1>PersistServiceRestoreIntent, <1>ConfirmAndRemoveJournal, <1>unchanged,
           Changes

\* Every step keeps OnlyAnOldFloorRefuses: a start finds the files of its own Host in shape.
LEMMA OnlyAnOldFloorRefusesPreserved ==
  ASSUME TypeOK, PlacesOK, LocksOK, JournalOK, Done, LinuxSigning, MacSigning, Initialising, Replacing, Bound,
           EncReset, EncryptionOK, DaemonOK, CandidateOK, OwnOK, DiskOK, StartOK, ClearOK, OldKeyOK, ServiceOK,
           OnlyAnOldFloorRefuses, NoRefusal, [Next]_vars
  PROVE  OnlyAnOldFloorRefuses'
<1>j. cli.at \in {"acquire", "run", "enc-commit", "clear-commit", "sign-commit"} => journal # None
  BY DEF PlacesOK, Phase, SignPlaces, EncPlaces, ClearPlaces
<1>p0. platform \in {"linux","darwin"} /\ boot \in Boot
  BY Kinds
<1>SpawnDaemon. SpawnDaemon => OnlyAnOldFloorRefuses'
  BY DEF SpawnDaemon, OnlyAnOldFloorRefuses
<1>GuardStart. GuardStart => OnlyAnOldFloorRefuses'
  BY DEF GuardStart, Off, OnlyAnOldFloorRefuses
<1>AcquireRuntimeLock. AcquireRuntimeLock => OnlyAnOldFloorRefuses'
  BY <1>p0, Booting DEF AcquireRuntimeLock, Die, Off, BootsTo, OnlyAnOldFloorRefuses
<1>ValidateIdentity. ValidateIdentity => OnlyAnOldFloorRefuses'
  BY Booting, Loading DEF ValidateIdentity, Die, Off, BootsTo, OnlyAnOldFloorRefuses
<1>PreflightRuntime. RuntimeStep /\ PreflightRuntime => OnlyAnOldFloorRefuses'
  BY StartIsNotRefused DEF OnlyAnOldFloorRefuses
<1>BeginResetKey. RuntimeStep /\ BeginResetKey => OnlyAnOldFloorRefuses'
  BY StartIsNotRefused DEF OnlyAnOldFloorRefuses
<1>BeginRuntimeReset. RuntimeStep /\ BeginRuntimeReset => OnlyAnOldFloorRefuses'
  BY StartIsNotRefused DEF OnlyAnOldFloorRefuses
<1>ReplaceSpool. RuntimeStep /\ ReplaceSpool => OnlyAnOldFloorRefuses'
  BY StartIsNotRefused DEF OnlyAnOldFloorRefuses
<1>ReplaceState. RuntimeStep /\ ReplaceState => OnlyAnOldFloorRefuses'
  BY StartIsNotRefused DEF OnlyAnOldFloorRefuses
<1>RemoveResetIntent. RuntimeStep /\ RemoveResetIntent => OnlyAnOldFloorRefuses'
  BY StartIsNotRefused DEF OnlyAnOldFloorRefuses
<1>BeginRuntimeMigration. RuntimeStep /\ BeginRuntimeMigration => OnlyAnOldFloorRefuses'
  BY StartIsNotRefused DEF OnlyAnOldFloorRefuses
<1>MigrateSpool. RuntimeStep /\ MigrateSpool => OnlyAnOldFloorRefuses'
  BY StartIsNotRefused DEF OnlyAnOldFloorRefuses
<1>MigrateState. RuntimeStep /\ MigrateState => OnlyAnOldFloorRefuses'
  BY StartIsNotRefused DEF OnlyAnOldFloorRefuses
<1>MigrateFloor. RuntimeStep /\ MigrateFloor => OnlyAnOldFloorRefuses'
  BY StartIsNotRefused DEF OnlyAnOldFloorRefuses
<1>RemoveMigrationIntent. RuntimeStep /\ RemoveMigrationIntent => OnlyAnOldFloorRefuses'
  BY StartIsNotRefused DEF OnlyAnOldFloorRefuses
<1>EstablishFloor. RuntimeStep /\ EstablishFloor => OnlyAnOldFloorRefuses'
  BY StartIsNotRefused DEF OnlyAnOldFloorRefuses
<1>OpenSpool. RuntimeStep /\ OpenSpool => OnlyAnOldFloorRefuses'
  BY StartIsNotRefused DEF OnlyAnOldFloorRefuses
<1>Work. RuntimeStep /\ Work => OnlyAnOldFloorRefuses'
  BY PreflightWrites DEF OnlyAnOldFloorRefuses
<1>LoadEncryption. LoadEncryption => OnlyAnOldFloorRefuses'
  BY StartIsNotRefused DEF OnlyAnOldFloorRefuses
<1>RecordEncryption. RecordEncryption => OnlyAnOldFloorRefuses'
  BY <1>p0, Booting, PhaseList DEF RecordEncryption, BootsTo, Gains, OnlyAnOldFloorRefuses
<1>StopDaemon. StopDaemon => OnlyAnOldFloorRefuses'
  BY PhaseList DEF StopDaemon, Die, Off, OnlyAnOldFloorRefuses
<1>CrashDaemon. CrashDaemon => OnlyAnOldFloorRefuses'
  BY DEF CrashDaemon, Die, Off, OnlyAnOldFloorRefuses
<1>StopAndConfirm. StopAndConfirm => OnlyAnOldFloorRefuses'
  BY PhaseList DEF StopAndConfirm, Die, Off, OnlyAnOldFloorRefuses
<1>ClearArtifacts. ClearArtifacts => OnlyAnOldFloorRefuses'
  BY <1>p0, Clearing DEF SetsState, SetsSpool, SetsReset, OnlyAnOldFloorRefuses
<1>ClearSpoolKey. ClearSpoolKey => OnlyAnOldFloorRefuses'
  BY ClearingKey DEF SetsKey, SetsItem, OnlyAnOldFloorRefuses
<1>RestoreService. RestoreService => OnlyAnOldFloorRefuses'
  BY Restoring DEF OnlyAnOldFloorRefuses
<1>unchanged. UNCHANGED <<disk, boot>> => OnlyAnOldFloorRefuses'
  BY DEF OnlyAnOldFloorRefuses
<1> QED BY <1>SpawnDaemon, <1>GuardStart, <1>AcquireRuntimeLock, <1>ValidateIdentity, <1>PreflightRuntime,
           <1>BeginResetKey, <1>BeginRuntimeReset, <1>ReplaceSpool, <1>ReplaceState, <1>RemoveResetIntent,
           <1>BeginRuntimeMigration, <1>MigrateSpool, <1>MigrateState, <1>MigrateFloor,
           <1>RemoveMigrationIntent, <1>EstablishFloor, <1>OpenSpool, <1>Work, <1>LoadEncryption,
           <1>RecordEncryption, <1>StopDaemon, <1>CrashDaemon, <1>StopAndConfirm, <1>ClearArtifacts,
           <1>ClearSpoolKey, <1>RestoreService, <1>unchanged, Changes

\* Every step keeps NoRefusal: the command never gave up because of what it found in the stores.
LEMMA NoRefusalPreserved ==
  ASSUME TypeOK, PlacesOK, LocksOK, JournalOK, Done, LinuxSigning, MacSigning, Initialising, Replacing, Bound,
           EncReset, EncryptionOK, DaemonOK, CandidateOK, OwnOK, DiskOK, StartOK, ClearOK, OldKeyOK, ServiceOK,
           OnlyAnOldFloorRefuses, NoRefusal, [Next]_vars
  PROVE  NoRefusal'
<1>j. cli.at \in {"acquire", "run", "enc-commit", "clear-commit", "sign-commit"} => journal # None
  BY DEF PlacesOK, Phase, SignPlaces, EncPlaces, ClearPlaces
<1>b. InspectAndBindOldDomain \/ CommitSigning \/ AdoptOrReplaceSigningIdentity => journal # None
  BY DEF InspectAndBindOldDomain, CommitSigning, AdoptOrReplaceSigningIdentity, At, PlacesOK, SignPlaces, Phase
<1>p0. platform \in {"linux","darwin"} /\ boot \in Boot
  BY Kinds
<1>CrashCli. CrashCli => NoRefusal'
  BY Leaving, <1>j, PhaseList DEF CrashCli, Leaves, storeVars, outside, NoRefusal
<1>Initialize. Initialize => NoRefusal'
  BY ReplacementKeyIsReady, Moving DEF Initialize, MovesTo, counters, NoRefusal
<1>CreateSigningIdentity. CreateSigningIdentity => NoRefusal'
  BY FirstRun, FreshHosts DEF MovesTo, NoRefusal
<1>SaveInitialConfig. SaveInitialConfig => NoRefusal'
  BY ReplacementKeyIsReady, Moving DEF SaveInitialConfig, MovesTo, counters, NoRefusal
<1>InitialEncryption. InitialEncryption => NoRefusal'
  BY ReplacementKeyIsReady, InitialKeys, FreshKeyLemma DEF MovesTo, Leaves, NoRefusal
<1>CreateFirstRunItem. SigningWrite /\ CreateFirstRunItem => NoRefusal'
  BY ReplacementKeyIsReady, SigningWrites DEF SigningWrite, MovesTo, NoRefusal
<1>CreateFirstRunIndex. SigningWrite /\ CreateFirstRunIndex => NoRefusal'
  BY ReplacementKeyIsReady, SigningWrites DEF SigningWrite, MovesTo, NoRefusal
<1>CreateFirstRunMetadata. SigningWrite /\ CreateFirstRunMetadata => NoRefusal'
  BY ReplacementKeyIsReady, SigningWrites DEF SigningWrite, MovesTo, NoRefusal
<1>CreateFirstRunRollback. SigningWrite /\ CreateFirstRunRollback => NoRefusal'
  BY ReplacementKeyIsReady, SigningWrites DEF SigningWrite, MovesTo, NoRefusal
<1>DeleteCreationSentinel. SigningWrite /\ DeleteCreationSentinel => NoRefusal'
  BY ReplacementKeyIsReady, SigningWrites DEF SigningWrite, MovesTo, NoRefusal
<1>WriteCandidateItem. SigningWrite /\ WriteCandidateItem => NoRefusal'
  BY ReplacementKeyIsReady, SigningWrites DEF SigningWrite, MovesTo, NoRefusal
<1>WriteIndexItem. SigningWrite /\ WriteIndexItem => NoRefusal'
  BY ReplacementKeyIsReady, SigningWrites DEF SigningWrite, MovesTo, NoRefusal
<1>WriteProfileMetadata. SigningWrite /\ WriteProfileMetadata => NoRefusal'
  BY ReplacementKeyIsReady, SigningWrites DEF SigningWrite, MovesTo, NoRefusal
<1>DeletePreviousItem. SigningWrite /\ DeletePreviousItem => NoRefusal'
  BY ReplacementKeyIsReady, SigningWrites DEF SigningWrite, MovesTo, NoRefusal
<1>DeleteInterruptedItem. SigningWrite /\ DeleteInterruptedItem => NoRefusal'
  BY ReplacementKeyIsReady, SigningWrites DEF SigningWrite, MovesTo, NoRefusal
<1>ClearCreationSentinel. SigningWrite /\ ClearCreationSentinel => NoRefusal'
  BY ReplacementKeyIsReady, SigningWrites DEF SigningWrite, MovesTo, NoRefusal
<1>CreateJournal. CreateJournal => NoRefusal'
  BY DEF CreateJournal, NoRefusal
<1>ResumeReset. ResumeReset => NoRefusal'
  BY DEF ResumeReset, NoRefusal
<1>StopAndConfirm. StopAndConfirm => NoRefusal'
  BY Moving, <1>j, PhaseList DEF StopAndConfirm, MovesTo, storeVars, counters, NoRefusal
<1>AcquireRuntimeOwnership. AcquireRuntimeOwnership => NoRefusal'
  BY ReplacementKeyIsReady, Moving, Leaving, Entering, <1>j, PhaseList DEF AcquireRuntimeOwnership, MovesTo,
      Leaves, Enters, counters, NoRefusal
<1>InspectAndBindOldDomain. InspectAndBindOldDomain => NoRefusal'
  BY <1>p0, Kinds, ReplacementIsReady, ReplacementKeyIsReady, <1>b, Binding, Loading, EvidenceIsReplaceable
      DEF SetsCreating, Binds, MovesTo, Leaves, NoRefusal, ReplacedPhases, AfterEncryption, AfterClearing,
      AfterConfig, BoundPhases, MacSigning, LinuxSigning, EncryptionOK, EncryptionStatus
<1>PersistRevokeIntent. PersistRevokeIntent => NoRefusal'
  BY Kinds, ReplacementIsReady, ReplacementKeyIsReady, Entering, <1>j, PhaseList DEF PersistRevokeIntent, At,
      MovesTo, Enters, counters, NoRefusal
<1>RevokeOldIdentity. RevokeOldIdentity => NoRefusal'
  BY ReplacementKeyIsReady, Leaving, Entering, <1>j, PhaseList DEF RevokeOldIdentity, At, MovesTo, Leaves,
      Enters, storeVars, counters, NoRefusal, ReplacedPhases, AfterEncryption, AfterClearing, AfterConfig,
      BoundPhases, UnfilledPhases, InitPlaces, Phase, Bound, JournalOK, Candidate
<1>PersistSigningReplacementIntent. PersistSigningReplacementIntent => NoRefusal'
  BY Kinds, ReplacementIsReady, ReplacementKeyIsReady, Entering, <1>j, PhaseList
      DEF PersistSigningReplacementIntent, At, MovesTo, Enters, counters, NoRefusal
<1>AdoptOrReplaceSigningIdentity. AdoptOrReplaceSigningIdentity => NoRefusal'
  BY <1>p0, Kinds, ReplacementIsReady, ReplacementKeyIsReady, <1>b, AdoptingOrReplacing, FreshHosts,
      ReplacementIsRecognised DEF MovesTo, SetsMeta, SetsSentinel, Leaves, NoRefusal, ReplacedPhases,
      AfterEncryption, AfterClearing, AfterConfig, BoundPhases, UnfilledPhases, InitPlaces, EncPlaces,
      SignPlaces, ClearPlaces, PlacesOK, At, Phase, storeVars, outside, counters
<1>CommitSigning. CommitSigning => NoRefusal'
  BY <1>b, Adopting DEF CommitSigning, MovesTo, NoRefusal
<1>FinalizeSigning. FinalizeSigning => NoRefusal'
  BY Kinds, ReplacementIsReady, ReplacementKeyIsReady, Completing DEF MovesTo, SetsSentinel, Leaves, NoRefusal,
      ReplacedPhases, AfterEncryption, PlacesOK, Phase
<1>ReplaceEncryptionIdentity. ReplaceEncryptionIdentity => NoRefusal'
  BY ReplacingKeyFrame, ReplacingKey DEF NoRefusal, MovesTo
<1>WriteEncryptionItem. EncryptionWrite /\ WriteEncryptionItem => NoRefusal'
  BY ReplacementKeyIsReady, EncryptionWrites DEF EncryptionWrite, MovesTo, NoRefusal
<1>WriteEncryptionMetadata. EncryptionWrite /\ WriteEncryptionMetadata => NoRefusal'
  BY ReplacementKeyIsReady, EncryptionWrites DEF EncryptionWrite, MovesTo, NoRefusal
<1>DeletePreviousEncryptionItems. EncryptionWrite /\ DeletePreviousEncryptionItems => NoRefusal'
  BY ReplacementKeyIsReady, EncryptionWrites DEF EncryptionWrite, MovesTo, NoRefusal
<1>CommitEncryption. CommitEncryption => NoRefusal'
  BY Entering, <1>j, PhaseList DEF CommitEncryption, MovesTo, Enters, counters, NoRefusal
<1>FinalizeEncryption. FinalizeEncryption => NoRefusal'
  BY ReplacementIsReady, ReplacementKeyIsReady, CompletingKey DEF KeyIsReplaced, MovesTo, SetsKeySentinel,
      Leaves, NoRefusal, ReplacedPhases, AfterEncryption, PlacesOK, Phase
<1>ClearArtifacts. ClearArtifacts => NoRefusal'
  BY ReplacementKeyIsReady, Clearing DEF SetsReset, MovesTo, NoRefusal
<1>ClearSpoolKey. ClearSpoolKey => NoRefusal'
  BY ReplacementKeyIsReady, ClearingKey DEF MovesTo, Leaves, SetsKey, SetsItem, NoRefusal, ReplacedPhases,
      AfterEncryption, AfterClearing, AfterConfig, BoundPhases, InitPlaces, EncPlaces, SignPlaces, ClearPlaces,
      PlacesOK, Phase, counters, OldKeyOK, KeyIsOwned, OldKeyHost
<1>CommitCleared. CommitCleared => NoRefusal'
  BY Entering, <1>j, PhaseList DEF CommitCleared, MovesTo, Enters, counters, NoRefusal
<1>PersistConfig. PersistConfig => NoRefusal'
  BY <1>p0, Kinds, ReplacementIsReady, ReplacementKeyIsReady, Leaving, Entering, <1>j, PhaseList
      DEF PersistConfig, At, MovesTo, counters, NoRefusal, ReplacedPhases, AfterEncryption, AfterClearing,
      AfterConfig, PlacesOK, Phase
<1>EnrollNewIdentity. EnrollNewIdentity => NoRefusal'
  BY <1>p0, Kinds, ReplacementIsReady, ReplacementKeyIsReady, Leaving, Entering, <1>j, PhaseList
      DEF EnrollNewIdentity, At, MovesTo, Leaves, Enters, storeVars, counters, NoRefusal, ReplacedPhases,
      AfterEncryption, AfterClearing, AfterConfig, InitPlaces, Phase, OwnOK
<1>SyncServiceMetadata. SyncServiceMetadata => NoRefusal'
  BY ReplacementIsReady, ReplacementKeyIsReady, Leaving, Entering, <1>j, PhaseList DEF SyncServiceMetadata, At,
      MovesTo, Leaves, Enters, storeVars, counters, NoRefusal, ReplacedPhases, AfterEncryption, AfterClearing,
      AfterConfig, PlacesOK, Phase
<1>PersistServiceRestoreIntent. PersistServiceRestoreIntent => NoRefusal'
  BY <1>p0, Kinds, ReplacementIsReady, ReplacementKeyIsReady, Leaving, Entering, <1>j, PhaseList
      DEF PersistServiceRestoreIntent, At, MovesTo, counters, NoRefusal, ReplacedPhases, AfterEncryption,
      AfterClearing, AfterConfig, PlacesOK, Phase
<1>VerifyReplacement. VerifyReplacement => NoRefusal'
  BY ReplacementIsReady, ReplacementKeyIsReady, Moving, Leaving, <1>j, PhaseList DEF VerifyReplacement, At,
      MovesTo, Leaves, storeVars, outside, counters, NoRefusal, ReplacedPhases, AfterEncryption, AfterClearing,
      AfterConfig, InitPlaces, EncPlaces, SignPlaces, ClearPlaces, PlacesOK, Phase, OwnOK, ClearOK,
      RuntimeIsClean, KeyIsReplaced
<1>RestoreService. RestoreService => NoRefusal'
  BY Kinds, ReplacementIsReady, ReplacementKeyIsReady, Restoring DEF MovesTo, Leaves, NoRefusal, ReplacedPhases,
      ClearPlaces, PlacesOK, counters, ServiceOK
<1>ConfirmAndRemoveJournal. ConfirmAndRemoveJournal => NoRefusal'
  BY Leaving, <1>j, PhaseList DEF ConfirmAndRemoveJournal, Leaves, storeVars, outside, NoRefusal
<1>unchanged. UNCHANGED <<cli>> => NoRefusal'
  BY DEF NoRefusal
<1> QED BY <1>CrashCli, <1>Initialize, <1>CreateSigningIdentity, <1>SaveInitialConfig, <1>InitialEncryption,
           <1>CreateFirstRunItem, <1>CreateFirstRunIndex, <1>CreateFirstRunMetadata, <1>CreateFirstRunRollback,
           <1>DeleteCreationSentinel, <1>WriteCandidateItem, <1>WriteIndexItem, <1>WriteProfileMetadata,
           <1>DeletePreviousItem, <1>DeleteInterruptedItem, <1>ClearCreationSentinel, <1>CreateJournal,
           <1>ResumeReset, <1>StopAndConfirm, <1>AcquireRuntimeOwnership, <1>InspectAndBindOldDomain,
           <1>PersistRevokeIntent, <1>RevokeOldIdentity, <1>PersistSigningReplacementIntent,
           <1>AdoptOrReplaceSigningIdentity, <1>CommitSigning, <1>FinalizeSigning, <1>ReplaceEncryptionIdentity,
           <1>WriteEncryptionItem, <1>WriteEncryptionMetadata, <1>DeletePreviousEncryptionItems,
           <1>CommitEncryption, <1>FinalizeEncryption, <1>ClearArtifacts, <1>ClearSpoolKey, <1>CommitCleared,
           <1>PersistConfig, <1>EnrollNewIdentity, <1>SyncServiceMetadata, <1>PersistServiceRestoreIntent,
           <1>VerifyReplacement, <1>RestoreService, <1>ConfirmAndRemoveJournal, <1>unchanged, Changes

\* Every step keeps StartOK: what a start has found or written by the time it stands behind each
\* step.
LEMMA StartOKPreserved ==
  ASSUME TypeOK, PlacesOK, LocksOK, JournalOK, Done, LinuxSigning, MacSigning, Initialising, Replacing, Bound,
           EncReset, EncryptionOK, DaemonOK, CandidateOK, OwnOK, DiskOK, StartOK, ClearOK, OldKeyOK, ServiceOK,
           OnlyAnOldFloorRefuses, NoRefusal, [Next]_vars
  PROVE  StartOK'
<1>j. cli.at \in {"acquire", "run", "enc-commit", "clear-commit", "sign-commit"} => journal # None
  BY DEF PlacesOK, Phase, SignPlaces, EncPlaces, ClearPlaces
<1>p0. platform \in {"linux","darwin"} /\ None \notin Hosts /\ boot \in Boot /\ signing.meta \in MaybeHost /\
         signing.creating \in MaybeHost
  BY Kinds, NoneIsNothing DEF SigningStore
<1>p1. (cli.at \in Working => ~Inside) /\ (Phase \in ReplacedPhases => ~Inside)
  BY DEF LocksOK, DaemonOK, CandidateOK, Candidate, Done, Inside
<1>p2. (Phase \in ReplacedPhases => journal.new # None) /\ SigningStatus(signing) = "ready" => signing.meta # None
  BY DEF SigningStatus
<1>SpawnDaemon. SpawnDaemon => StartOK'
  BY PhaseList DEF SpawnDaemon, StartOK
<1>GuardStart. GuardStart => StartOK'
  BY PhaseList DEF GuardStart, Off, storeVars, StartOK, Inside
<1>AcquireRuntimeLock. AcquireRuntimeLock => StartOK'
  BY <1>p1, <1>p2, Booting, <1>j, PhaseList DEF AcquireRuntimeLock, Die, Off, BootsTo, storeVars, StartOK,
      Inside
<1>ValidateIdentity. ValidateIdentity => StartOK'
  BY <1>p2, Booting, Loading DEF ValidateIdentity, Die, Off, BootsTo, SetsCreating, StartOK, Inside
<1>LoadEncryption. LoadEncryption => StartOK'
  BY <1>p2, DaemonKeys, FreshKeyLemma DEF BootsTo, StartOK
<1>RecordEncryption. RecordEncryption => StartOK'
  BY <1>p1, <1>p2, Booting, KeyWrites DEF RecordEncryption, BootsTo, StartOK, Inside
<1>StopDaemon. StopDaemon => StartOK'
  BY DEF StopDaemon, Die, Off, storeVars, StartOK, Inside
<1>CrashDaemon. CrashDaemon => StartOK'
  BY PhaseList DEF CrashDaemon, Die, Off, StartOK, Inside
<1>StopAndConfirm. StopAndConfirm => StartOK'
  BY <1>j, PhaseList DEF StopAndConfirm, Die, Off, MovesTo, storeVars, counters, StartOK, Inside, Working,
      OldFiles, Clean, IsSpoolRecordForSchema
<1>ClearArtifacts. ClearArtifacts => StartOK'
  BY <1>p0, <1>p1, <1>p2, Clearing DEF SetsState, SetsSpool, SetsReset, MovesTo, StartOK, Inside, Working,
      ClearPlaces, PlacesOK
<1>ClearSpoolKey. ClearSpoolKey => StartOK'
  BY <1>p0, <1>p1, <1>p2, ClearingKey DEF MovesTo, Leaves, SetsKey, SetsItem, StartOK, Inside, Working,
      ClearPlaces, PlacesOK
<1>RestoreService. RestoreService => StartOK'
  BY <1>p0, <1>p1, <1>p2, Restoring DEF MovesTo, Leaves, StartOK, Inside, Working, OldFiles, Clean,
      IsSpoolRecordForSchema
<1>runtime. RuntimeStep => StartOK'
  BY RuntimePreserves
<1>unchanged. UNCHANGED <<disk, boot>> => StartOK'
  BY DEF StartOK, OldFiles, Clean
<1> QED BY <1>SpawnDaemon, <1>GuardStart, <1>AcquireRuntimeLock, <1>ValidateIdentity, <1>LoadEncryption,
           <1>RecordEncryption, <1>StopDaemon, <1>CrashDaemon, <1>StopAndConfirm, <1>ClearArtifacts,
           <1>ClearSpoolKey, <1>RestoreService, <1>runtime, <1>unchanged, Changes

\* Every step keeps DiskOK: the runtime's files are those of the signing Host.
LEMMA DiskOKPreserved ==
  ASSUME TypeOK, PlacesOK, LocksOK, JournalOK, Done, LinuxSigning, MacSigning, Initialising, Replacing, Bound,
           EncReset, EncryptionOK, DaemonOK, CandidateOK, OwnOK, DiskOK, StartOK, ClearOK, OldKeyOK, ServiceOK,
           OnlyAnOldFloorRefuses, NoRefusal, [Next]_vars
  PROVE  DiskOK'
<1>j. cli.at \in {"acquire", "run", "enc-commit", "clear-commit", "sign-commit"} => journal # None
  BY DEF PlacesOK, Phase, SignPlaces, EncPlaces, ClearPlaces
<1>b. InspectAndBindOldDomain \/ CommitSigning \/ AdoptOrReplaceSigningIdentity => journal # None
  BY DEF InspectAndBindOldDomain, CommitSigning, AdoptOrReplaceSigningIdentity, At, PlacesOK, SignPlaces, Phase
<1>p0. platform \in {"linux","darwin"} /\ None \notin Hosts /\ boot \in Boot /\ signing.meta \in MaybeHost /\
         signing.creating \in MaybeHost
  BY Kinds, NoneIsNothing DEF SigningStore
<1>p1. (cli.at \in Working => ~Inside) /\ (Phase \in ReplacedPhases => ~Inside)
  BY DEF LocksOK, DaemonOK, CandidateOK, Candidate, Done, Inside
<1>p2. (Phase \in ReplacedPhases => journal.new # None) /\ SigningStatus(signing) = "ready" => signing.meta # None
  BY DEF SigningStatus
<1>ValidateIdentity. ValidateIdentity =>
                       (Mixed' \/ (signing'.meta = signing.meta /\ ~Mixed /\ UNCHANGED <<disk, platform>>))
  BY Loading DEF ValidateIdentity, BootsTo, SetsCreating, Candidate, Mixed, PlacesOK, Phase, outside, counters
<1>CreateFirstRunItem. SigningWrite /\ CreateFirstRunItem =>
                         (Mixed' \/ (signing'.meta = signing.meta /\ ~Mixed /\ UNCHANGED <<disk, platform>>))
  BY SigningWrites DEF SigningWrite, MovesTo, SetsItems, Candidate, Mixed, PlacesOK, Phase, outside, counters
<1>CreateFirstRunIndex. SigningWrite /\ CreateFirstRunIndex =>
                          (Mixed' \/ (signing'.meta = signing.meta /\ ~Mixed /\ UNCHANGED <<disk, platform>>))
  BY SigningWrites DEF SigningWrite, MovesTo, SetsItems, Candidate, Mixed, PlacesOK, Phase, outside, counters
<1>CreateFirstRunRollback. SigningWrite /\ CreateFirstRunRollback =>
                             (Mixed' \/ (signing'.meta = signing.meta /\ ~Mixed /\ UNCHANGED <<disk, platform>>))
  BY SigningWrites DEF SigningWrite, MovesTo, SetsItems, Candidate, Mixed, PlacesOK, Phase, outside, counters
<1>DeleteCreationSentinel. SigningWrite /\ DeleteCreationSentinel =>
                             (Mixed' \/ (signing'.meta = signing.meta /\ ~Mixed /\ UNCHANGED <<disk, platform>>))
  BY SigningWrites DEF SigningWrite, SetsMeta, SetsCreating, Candidate, Mixed, PlacesOK, Phase, outside,
      counters
<1>WriteCandidateItem. SigningWrite /\ WriteCandidateItem =>
                         (Mixed' \/ (signing'.meta = signing.meta /\ ~Mixed /\ UNCHANGED <<disk, platform>>))
  BY SigningWrites DEF SigningWrite, MovesTo, SetsItems, Candidate, Mixed, PlacesOK, Phase, outside, counters
<1>WriteIndexItem. SigningWrite /\ WriteIndexItem =>
                     (Mixed' \/ (signing'.meta = signing.meta /\ ~Mixed /\ UNCHANGED <<disk, platform>>))
  BY SigningWrites DEF SigningWrite, MovesTo, SetsItems, Candidate, Mixed, PlacesOK, Phase, outside, counters
<1>WriteProfileMetadata. SigningWrite /\ WriteProfileMetadata =>
                           (Mixed' \/ (signing'.meta = signing.meta /\ ~Mixed /\ UNCHANGED <<disk, platform>>))
  BY MetadataMixes
<1>DeletePreviousItem. SigningWrite /\ DeletePreviousItem =>
                         (Mixed' \/ (signing'.meta = signing.meta /\ ~Mixed /\ UNCHANGED <<disk, platform>>))
  BY SigningWrites DEF SigningWrite, MovesTo, SetsItems, Candidate, Mixed, PlacesOK, Phase, outside, counters
<1>DeleteInterruptedItem. SigningWrite /\ DeleteInterruptedItem =>
                            (Mixed' \/ (signing'.meta = signing.meta /\ ~Mixed /\ UNCHANGED <<disk, platform>>))
  BY SigningWrites DEF SigningWrite, MovesTo, SetsItems, Candidate, Mixed, PlacesOK, Phase, outside, counters
<1>ClearCreationSentinel. SigningWrite /\ ClearCreationSentinel =>
                            (Mixed' \/ (signing'.meta = signing.meta /\ ~Mixed /\ UNCHANGED <<disk, platform>>))
  BY SigningWrites DEF SigningWrite, SetsMeta, SetsCreating, Candidate, Mixed, PlacesOK, Phase, outside,
      counters
<1>CreateJournal. CreateJournal =>
                    (Mixed' \/ (signing'.meta = signing.meta /\ ~Mixed /\ UNCHANGED <<disk, platform>>))
  BY Creating DEF CreateJournal, Candidate, Mixed, ReplacedPhases, AfterEncryption, AfterClearing, AfterConfig,
      PlacesOK, Phase, storeVars, outside
<1>AcquireRuntimeOwnership. AcquireRuntimeOwnership =>
                              (Mixed' \/ (signing'.meta = signing.meta /\ ~Mixed /\ UNCHANGED <<disk, platform>>))
  BY PhaseList DEF AcquireRuntimeOwnership, MovesTo, Leaves, Enters, storeVars, outside, counters, Candidate,
      Mixed, Done, Initialising, LinuxSigning, MacSigning, ReplacedPhases, AfterEncryption, AfterClearing,
      AfterConfig, PlacesOK, Phase
<1>InspectAndBindOldDomain. InspectAndBindOldDomain =>
                              (Mixed' \/ (signing'.meta = signing.meta /\ ~Mixed /\ UNCHANGED <<disk, platform>>))
  BY <1>p0, <1>p1, <1>p2, <1>b, Binding, Loading DEF SetsCreating, Binds, MovesTo, Leaves, Candidate, Mixed,
      ReplacedPhases, AfterEncryption, AfterClearing, AfterConfig, outside, counters
<1>PersistRevokeIntent. PersistRevokeIntent =>
                          (Mixed' \/ (signing'.meta = signing.meta /\ ~Mixed /\ UNCHANGED <<disk, platform>>))
  BY PhaseList DEF PersistRevokeIntent, At, MovesTo, Enters, storeVars, outside, counters, Candidate, Mixed,
      Done, Initialising, LinuxSigning, MacSigning, ReplacedPhases, AfterEncryption, AfterClearing, AfterConfig,
      PlacesOK, Phase
<1>RevokeOldIdentity. RevokeOldIdentity =>
                        (Mixed' \/ (signing'.meta = signing.meta /\ ~Mixed /\ UNCHANGED <<disk, platform>>))
  BY PhaseList DEF RevokeOldIdentity, At, MovesTo, Leaves, Enters, storeVars, counters, Candidate, Mixed, Done,
      Initialising, LinuxSigning, MacSigning, ReplacedPhases, AfterEncryption, AfterClearing, AfterConfig,
      PlacesOK, Phase
<1>PersistSigningReplacementIntent. PersistSigningReplacementIntent =>
                                      (Mixed' \/ (signing'.meta = signing.meta /\ ~Mixed /\ UNCHANGED <<disk, platform>>))
  BY PhaseList DEF PersistSigningReplacementIntent, At, MovesTo, Enters, storeVars, outside, counters,
      Candidate, Mixed, Done, Initialising, LinuxSigning, MacSigning, ReplacedPhases, AfterEncryption,
      AfterClearing, AfterConfig, PlacesOK, Phase
<1>AdoptOrReplaceSigningIdentity. AdoptOrReplaceSigningIdentity =>
                                    (Mixed' \/ (signing'.meta = signing.meta /\ ~Mixed /\ UNCHANGED <<disk, platform>>))
  BY Choosing, FreshHosts, <1>p0 DEF Candidate, Mixed, PlacesOK, Phase
<1>CommitSigning. CommitSigning =>
                    (Mixed' \/ (signing'.meta = signing.meta /\ ~Mixed /\ UNCHANGED <<disk, platform>>))
  BY <1>p2, <1>b, Adopting DEF CommitSigning, MovesTo, Candidate, Mixed, Done, MacSigning, ReplacedPhases,
      Phase, storeVars
<1>FinalizeSigning. FinalizeSigning =>
                      (Mixed' \/ (signing'.meta = signing.meta /\ ~Mixed /\ UNCHANGED <<disk, platform>>))
  BY Completing DEF MovesTo, SetsSentinel, Leaves, Candidate, Mixed, PlacesOK, Phase, outside, counters
<1>CommitEncryption. CommitEncryption =>
                       (Mixed' \/ (signing'.meta = signing.meta /\ ~Mixed /\ UNCHANGED <<disk, platform>>))
  BY <1>p0, <1>p1, <1>p2, Entering, <1>j, PhaseList DEF CommitEncryption, MovesTo, Enters, storeVars, outside,
      counters, Candidate, Mixed, Done, Initialising, LinuxSigning, MacSigning, ReplacedPhases, AfterEncryption,
      AfterClearing, AfterConfig, InitPlaces, EncPlaces, PlacesOK, Phase
<1>ClearArtifacts. ClearArtifacts =>
                     (Mixed' \/ (signing'.meta = signing.meta /\ ~Mixed /\ UNCHANGED <<disk, platform>>))
  BY Clearing DEF SetsState, SetsSpool, SetsReset, MovesTo, Candidate, Mixed, Done, Initialising, LinuxSigning,
      MacSigning, ReplacedPhases, AfterEncryption, AfterClearing, AfterConfig, InitPlaces, ClearPlaces,
      PlacesOK, Phase, storeVars
<1>ClearSpoolKey. ClearSpoolKey =>
                    (Mixed' \/ (signing'.meta = signing.meta /\ ~Mixed /\ UNCHANGED <<disk, platform>>))
  BY ClearingKey DEF MovesTo, Leaves, SetsKey, SetsItem, Candidate, Mixed, Done, Initialising, LinuxSigning,
      MacSigning, ReplacedPhases, AfterEncryption, AfterClearing, AfterConfig, InitPlaces, ClearPlaces,
      PlacesOK, Phase, storeVars
<1>CommitCleared. CommitCleared =>
                    (Mixed' \/ (signing'.meta = signing.meta /\ ~Mixed /\ UNCHANGED <<disk, platform>>))
  BY <1>p0, <1>p1, <1>p2, Entering, <1>j, PhaseList DEF CommitCleared, MovesTo, Enters, storeVars, outside,
      counters, Candidate, Mixed, Done, Initialising, LinuxSigning, MacSigning, ReplacedPhases, AfterEncryption,
      AfterClearing, AfterConfig, SignPlaces, ClearPlaces, PlacesOK, Phase
<1>PersistConfig. PersistConfig =>
                    (Mixed' \/ (signing'.meta = signing.meta /\ ~Mixed /\ UNCHANGED <<disk, platform>>))
  BY Leaving, Entering, <1>j, PhaseList DEF PersistConfig, At, MovesTo, Leaves, Enters, storeVars, outside,
      counters, Candidate, Mixed, Done, Initialising, LinuxSigning, MacSigning, ReplacedPhases, AfterEncryption,
      AfterClearing, AfterConfig, InitPlaces, EncPlaces, PlacesOK, Phase
<1>EnrollNewIdentity. EnrollNewIdentity =>
                        (Mixed' \/ (signing'.meta = signing.meta /\ ~Mixed /\ UNCHANGED <<disk, platform>>))
  BY <1>p2, Leaving, Entering, <1>j, PhaseList DEF EnrollNewIdentity, At, MovesTo, Leaves, Enters, storeVars,
      counters, Candidate, Mixed, Done, Initialising, LinuxSigning, MacSigning, ReplacedPhases, AfterEncryption,
      AfterClearing, AfterConfig, InitPlaces, EncPlaces, PlacesOK, Phase
<1>SyncServiceMetadata. SyncServiceMetadata =>
                          (Mixed' \/ (signing'.meta = signing.meta /\ ~Mixed /\ UNCHANGED <<disk, platform>>))
  BY <1>p2, Leaving, Entering, <1>j, PhaseList DEF SyncServiceMetadata, At, MovesTo, Leaves, Enters, storeVars,
      counters, Candidate, Mixed, Done, Initialising, LinuxSigning, MacSigning, ReplacedPhases, AfterEncryption,
      AfterClearing, AfterConfig, InitPlaces, EncPlaces, PlacesOK, Phase
<1>PersistServiceRestoreIntent. PersistServiceRestoreIntent =>
                                  (Mixed' \/ (signing'.meta = signing.meta /\ ~Mixed /\ UNCHANGED <<disk, platform>>))
  BY Leaving, Entering, <1>j, PhaseList DEF PersistServiceRestoreIntent, At, MovesTo, Leaves, Enters, storeVars,
      outside, counters, Candidate, Mixed, Done, Initialising, LinuxSigning, MacSigning, ReplacedPhases,
      AfterEncryption, AfterClearing, AfterConfig, InitPlaces, EncPlaces, PlacesOK, Phase
<1>runtime. RuntimeStep => DiskOK'
  BY RuntimePreserves
<1>CreateSigningIdentity. CreateSigningIdentity => DiskOK'
  BY DiskOKAtCreation
<1>CreateFirstRunMetadata. SigningWrite /\ CreateFirstRunMetadata => DiskOK'
  BY DiskOKAtCreation
<1>ConfirmAndRemoveJournal. ConfirmAndRemoveJournal => DiskOK'
  BY DiskOKAfterReset
<1>unchanged. UNCHANGED <<platform, disk, signing, journal>> =>
                (Mixed' \/ (signing'.meta = signing.meta /\ ~Mixed /\ UNCHANGED <<disk, platform>>))
  BY DEF Mixed, Candidate, Phase
<1> QED BY <1>ValidateIdentity, <1>CreateFirstRunItem, <1>CreateFirstRunIndex, <1>CreateFirstRunRollback,
           <1>DeleteCreationSentinel, <1>WriteCandidateItem, <1>WriteIndexItem, <1>WriteProfileMetadata,
           <1>DeletePreviousItem, <1>DeleteInterruptedItem, <1>ClearCreationSentinel, <1>CreateJournal,
           <1>AcquireRuntimeOwnership, <1>InspectAndBindOldDomain, <1>PersistRevokeIntent, <1>RevokeOldIdentity,
           <1>PersistSigningReplacementIntent, <1>AdoptOrReplaceSigningIdentity, <1>CommitSigning,
           <1>FinalizeSigning, <1>CommitEncryption, <1>ClearArtifacts, <1>ClearSpoolKey, <1>CommitCleared,
           <1>PersistConfig, <1>EnrollNewIdentity, <1>SyncServiceMetadata, <1>PersistServiceRestoreIntent,
           <1>runtime, <1>CreateSigningIdentity, <1>CreateFirstRunMetadata, <1>ConfirmAndRemoveJournal,
           <1>unchanged, DiskOKKept, Changes

-----------------------------------------------------------------------------
(* Types                                                                   *)

\* The reasons to give up.
Errors == {"none", "active", "evidence", "relay", "restore"}

\* The process stays in its places.
LEMMA GoingOrLeaving ==
  ASSUME TypeOK
  PROVE  (\A place \in CliPlaces : Go(place) => cli' \in CliRecord) /\
           (\A error \in Errors : Exit(error) => cli' \in CliRecord)
  BY Kinds DEF Go, Exit, CliRecord, Errors, CliPlaces

\* The daemon stays in its places.
LEMMA BootingOrDying ==
  ASSUME TypeOK
  PROVE  (\A place \in Places : Goto(place) => boot' \in Boot) /\ Off \in Boot /\ (Die => boot' \in Boot) /\
           [Off EXCEPT !.at = "spawned", !.host = config] \in Boot
<1>1. \A place \in Places : Goto(place) => boot' \in Boot
  BY Kinds DEF Goto, Boot
<1>2. Off \in Boot
  BY DEF Off, Boot, Places
<1>3. [Off EXCEPT !.at = "spawned", !.host = config] \in Boot
  <2>1. PICK r \in Boot : r = Off
    BY <1>2
  <2>2. config \in Hosts \cup {None}
    BY Kinds DEF MaybeHost
  <2>3. [r EXCEPT !.at = "spawned", !.host = config] \in Boot
    BY <2>2 DEF Boot, Places
  <2>4. QED BY <2>1, <2>3
<1>4. QED BY <1>1, <1>2, <1>3 DEF Die

\* A write of a file of the right kind leaves files of the right kind.
LEMMA DiskShapes ==
  ASSUME TypeOK
  PROVE  /\ \A x \in StateFile \cup {None} : disk' = [disk EXCEPT !.state = x] => disk' \in Disk
         /\ \A x \in SpoolFile \cup {None} : disk' = [disk EXCEPT !.spool = x] => disk' \in Disk
         /\ \A x \in Hosts \cup {None} : disk' = [disk EXCEPT !.floor = x] => disk' \in Disk
         /\ \A x \in ResetIntent \cup {None} : disk' = [disk EXCEPT !.reset = x] => disk' \in Disk
         /\ \A x \in MigrationIntent \cup {None} : disk' = [disk EXCEPT !.migration = x] => disk' \in Disk
         /\ \A x \in SpoolKeys \cup {None} : disk' = [disk EXCEPT !.key = x] => disk' \in Disk
         /\ \A h \in Hosts : \A id \in Ids \cup {0} : disk' = [disk EXCEPT !.items[h] = id] => disk' \in Disk
  BY Kinds DEF Disk

\* The CLI process has its shape.
LEMMA CliTyped ==
  ASSUME TypeOK, [Next]_vars
  PROVE  cli' \in CliRecord
<1>CrashCli. CrashCli => cli' \in CliRecord
  BY GoingOrLeaving DEF CrashCli, CliPlaces, Errors
<1>Initialize. Initialize => cli' \in CliRecord
  BY GoingOrLeaving DEF Initialize, CliPlaces, Errors
<1>CreateSigningIdentity. CreateSigningIdentity => cli' \in CliRecord
  BY GoingOrLeaving DEF CreateSigningIdentity, CreateFirstRunLinux, CreateFirstRunSentinel, CliPlaces, Errors
<1>SaveInitialConfig. SaveInitialConfig => cli' \in CliRecord
  BY GoingOrLeaving DEF SaveInitialConfig, CliPlaces, Errors
<1>InitialEncryption. InitialEncryption => cli' \in CliRecord
  BY GoingOrLeaving, Kinds, FreshKeyLemma DEF InitialEncryption, CliPlaces, CliRecord, Errors
<1>CreateFirstRunItem. SigningWrite /\ CreateFirstRunItem => cli' \in CliRecord
  BY GoingOrLeaving DEF CreateFirstRunItem, CliPlaces, SigningWrite, Errors
<1>CreateFirstRunIndex. SigningWrite /\ CreateFirstRunIndex => cli' \in CliRecord
  BY GoingOrLeaving DEF CreateFirstRunIndex, CliPlaces, SigningWrite, Errors
<1>CreateFirstRunMetadata. SigningWrite /\ CreateFirstRunMetadata => cli' \in CliRecord
  BY GoingOrLeaving DEF CreateFirstRunMetadata, CliPlaces, SigningWrite, Errors
<1>CreateFirstRunRollback. SigningWrite /\ CreateFirstRunRollback => cli' \in CliRecord
  BY GoingOrLeaving DEF CreateFirstRunRollback, CliPlaces, SigningWrite, Errors
<1>DeleteCreationSentinel. SigningWrite /\ DeleteCreationSentinel => cli' \in CliRecord
  BY GoingOrLeaving DEF DeleteCreationSentinel, CliPlaces, SigningWrite, Errors
<1>WriteCandidateItem. SigningWrite /\ WriteCandidateItem => cli' \in CliRecord
  BY GoingOrLeaving DEF WriteCandidateItem, CliPlaces, SigningWrite, Errors
<1>WriteIndexItem. SigningWrite /\ WriteIndexItem => cli' \in CliRecord
  BY GoingOrLeaving DEF WriteIndexItem, CliPlaces, SigningWrite, Errors
<1>WriteProfileMetadata. SigningWrite /\ WriteProfileMetadata => cli' \in CliRecord
  BY GoingOrLeaving DEF WriteProfileMetadata, CliPlaces, SigningWrite, Errors
<1>DeletePreviousItem. SigningWrite /\ DeletePreviousItem => cli' \in CliRecord
  BY GoingOrLeaving DEF DeletePreviousItem, CliPlaces, SigningWrite, Errors
<1>DeleteInterruptedItem. SigningWrite /\ DeleteInterruptedItem => cli' \in CliRecord
  BY GoingOrLeaving DEF DeleteInterruptedItem, CliPlaces, SigningWrite, Errors
<1>ClearCreationSentinel. SigningWrite /\ ClearCreationSentinel => cli' \in CliRecord
  BY GoingOrLeaving DEF ClearCreationSentinel, CliPlaces, SigningWrite, Errors
<1>CreateJournal. CreateJournal => cli' \in CliRecord
  BY Kinds DEF CreateJournal, CliPlaces, CliRecord, Errors
<1>ResumeReset. ResumeReset => cli' \in CliRecord
  BY Kinds DEF ResumeReset, CliPlaces, CliRecord, Errors
<1>StopAndConfirm. StopAndConfirm => cli' \in CliRecord
  BY GoingOrLeaving DEF StopAndConfirm, CliPlaces, Errors
<1>AcquireRuntimeOwnership. AcquireRuntimeOwnership => cli' \in CliRecord
  BY GoingOrLeaving DEF AcquireRuntimeOwnership, Advance, Commit, CliPlaces, Errors
<1>InspectAndBindOldDomain. InspectAndBindOldDomain => cli' \in CliRecord
  BY GoingOrLeaving DEF InspectAndBindOldDomain, Commit, CliPlaces, Errors
<1>PersistRevokeIntent. PersistRevokeIntent => cli' \in CliRecord
  BY GoingOrLeaving DEF PersistRevokeIntent, Advance, Commit, CliPlaces, Errors
<1>RevokeOldIdentity. RevokeOldIdentity => cli' \in CliRecord
  BY GoingOrLeaving DEF RevokeOldIdentity, Advance, Commit, CliPlaces, Errors
<1>PersistSigningReplacementIntent. PersistSigningReplacementIntent => cli' \in CliRecord
  BY GoingOrLeaving DEF PersistSigningReplacementIntent, Advance, Commit, CliPlaces, Errors
<1>AdoptOrReplaceSigningIdentity. AdoptOrReplaceSigningIdentity => cli' \in CliRecord
  BY GoingOrLeaving DEF AdoptOrReplaceSigningIdentity, ResetLinuxRecord, WriteResetSentinel, CliPlaces, Errors
<1>CommitSigning. CommitSigning => cli' \in CliRecord
  BY GoingOrLeaving DEF CommitSigning, Commit, CliPlaces, Errors
<1>FinalizeSigning. FinalizeSigning => cli' \in CliRecord
  BY GoingOrLeaving DEF FinalizeSigning, CompleteExplicitReset, CliPlaces, Errors
<1>ReplaceEncryptionIdentity. ReplaceEncryptionIdentity => cli' \in CliRecord
  BY GoingOrLeaving DEF ReplaceEncryptionIdentity, ReplaceEncryptionLinux, WriteEncryptionSentinel, CliPlaces,
      Errors
<1>WriteEncryptionItem. EncryptionWrite /\ WriteEncryptionItem => cli' \in CliRecord
  BY GoingOrLeaving DEF WriteEncryptionItem, CliPlaces, EncryptionWrite, Errors
<1>WriteEncryptionMetadata. EncryptionWrite /\ WriteEncryptionMetadata => cli' \in CliRecord
  BY GoingOrLeaving DEF WriteEncryptionMetadata, CliPlaces, EncryptionWrite, Errors
<1>DeletePreviousEncryptionItems. EncryptionWrite /\ DeletePreviousEncryptionItems => cli' \in CliRecord
  BY GoingOrLeaving DEF DeletePreviousEncryptionItems, CliPlaces, EncryptionWrite, Errors
<1>CommitEncryption. CommitEncryption => cli' \in CliRecord
  BY GoingOrLeaving DEF CommitEncryption, Advance, Commit, CliPlaces, Errors
<1>FinalizeEncryption. FinalizeEncryption => cli' \in CliRecord
  BY GoingOrLeaving DEF FinalizeEncryption, CompleteEncryptionReset, CliPlaces, Errors
<1>ClearArtifacts. ClearArtifacts => cli' \in CliRecord
  BY GoingOrLeaving DEF ClearArtifacts, CliPlaces, Errors
<1>ClearSpoolKey. ClearSpoolKey => cli' \in CliRecord
  BY GoingOrLeaving, Kinds DEF ClearSpoolKey, CliPlaces, Errors
<1>CommitCleared. CommitCleared => cli' \in CliRecord
  BY GoingOrLeaving DEF CommitCleared, Advance, Commit, CliPlaces, Errors
<1>PersistConfig. PersistConfig => cli' \in CliRecord
  BY GoingOrLeaving, Kinds DEF PersistConfig, Advance, Commit, CliPlaces, Errors
<1>EnrollNewIdentity. EnrollNewIdentity => cli' \in CliRecord
  BY GoingOrLeaving DEF EnrollNewIdentity, Advance, Commit, CliPlaces, Errors
<1>SyncServiceMetadata. SyncServiceMetadata => cli' \in CliRecord
  BY GoingOrLeaving DEF SyncServiceMetadata, Advance, Commit, CliPlaces, Errors
<1>PersistServiceRestoreIntent. PersistServiceRestoreIntent => cli' \in CliRecord
  BY GoingOrLeaving DEF PersistServiceRestoreIntent, Advance, Commit, CliPlaces, Errors
<1>VerifyReplacement. VerifyReplacement => cli' \in CliRecord
  BY GoingOrLeaving DEF VerifyReplacement, CliPlaces, Errors
<1>RestoreService. RestoreService => cli' \in CliRecord
  BY GoingOrLeaving DEF RestoreService, CliPlaces, Errors
<1>ConfirmAndRemoveJournal. ConfirmAndRemoveJournal => cli' \in CliRecord
  BY GoingOrLeaving DEF ConfirmAndRemoveJournal, CliPlaces, Errors
<1>unchanged. UNCHANGED cli => cli' \in CliRecord
  BY Kinds
<1> QED BY <1>CrashCli, <1>Initialize, <1>CreateSigningIdentity, <1>SaveInitialConfig, <1>InitialEncryption,
           <1>CreateFirstRunItem, <1>CreateFirstRunIndex, <1>CreateFirstRunMetadata, <1>CreateFirstRunRollback,
           <1>DeleteCreationSentinel, <1>WriteCandidateItem, <1>WriteIndexItem, <1>WriteProfileMetadata,
           <1>DeletePreviousItem, <1>DeleteInterruptedItem, <1>ClearCreationSentinel, <1>CreateJournal,
           <1>ResumeReset, <1>StopAndConfirm, <1>AcquireRuntimeOwnership, <1>InspectAndBindOldDomain,
           <1>PersistRevokeIntent, <1>RevokeOldIdentity, <1>PersistSigningReplacementIntent,
           <1>AdoptOrReplaceSigningIdentity, <1>CommitSigning, <1>FinalizeSigning, <1>ReplaceEncryptionIdentity,
           <1>WriteEncryptionItem, <1>WriteEncryptionMetadata, <1>DeletePreviousEncryptionItems,
           <1>CommitEncryption, <1>FinalizeEncryption, <1>ClearArtifacts, <1>ClearSpoolKey, <1>CommitCleared,
           <1>PersistConfig, <1>EnrollNewIdentity, <1>SyncServiceMetadata, <1>PersistServiceRestoreIntent,
           <1>VerifyReplacement, <1>RestoreService, <1>ConfirmAndRemoveJournal, <1>unchanged, Changes

\* The daemon process has its shape.
LEMMA BootTyped ==
  ASSUME TypeOK, [Next]_vars
  PROVE  boot' \in Boot
<1>l. LoadEncryption => boot' \in Boot
  <2>1. SUFFICES ASSUME LoadEncryption, ~UNCHANGED boot PROVE boot' \in Boot
    BY Kinds
  <2>2. KeysAreLeft
    BY <2>1 DEF LoadEncryption
  <2>3. FreshEncryptionKey \in 0 .. 5
    BY <2>2, FreshKeyLemma DEF KeyIds
  <2>4. boot' = [boot EXCEPT !.at = "encrypt-record", !.key = FreshEncryptionKey] \/ Goto("up") \/ Goto("refused")
    BY <2>1 DEF LoadEncryption
  <2>5. boot' = [boot EXCEPT !.at = "encrypt-record", !.key = FreshEncryptionKey] => boot' \in Boot
    BY <2>3, Kinds DEF Boot, Places
  <2>6. QED BY <2>4, <2>5, BootingOrDying DEF Places
<1>SpawnDaemon. SpawnDaemon => boot' \in Boot
  BY BootingOrDying, Kinds DEF SpawnDaemon
<1>GuardStart. GuardStart => boot' \in Boot
  BY BootingOrDying, Kinds DEF GuardStart, Places, Boot
<1>AcquireRuntimeLock. AcquireRuntimeLock => boot' \in Boot
  BY BootingOrDying, Kinds DEF AcquireRuntimeLock, Off, Places
<1>ValidateIdentity. ValidateIdentity => boot' \in Boot
  BY BootingOrDying, Kinds DEF ValidateIdentity, Off, AfterLoad, Places
<1>PreflightRuntime. RuntimeStep /\ PreflightRuntime => boot' \in Boot
  BY BootingOrDying, Kinds, Verdicts DEF PreflightRuntime, Places, RuntimeStep, Boot, ResetFrom
<1>BeginResetKey. RuntimeStep /\ BeginResetKey => boot' \in Boot
  BY BootingOrDying, Kinds DEF BeginResetKey, CreateSpoolKey, Places, RuntimeStep
<1>BeginRuntimeReset. RuntimeStep /\ BeginRuntimeReset => boot' \in Boot
  BY BootingOrDying, Kinds DEF BeginRuntimeReset, Places, RuntimeStep
<1>ReplaceSpool. RuntimeStep /\ ReplaceSpool => boot' \in Boot
  BY BootingOrDying, Kinds DEF ReplaceSpool, Places, RuntimeStep
<1>ReplaceState. RuntimeStep /\ ReplaceState => boot' \in Boot
  BY BootingOrDying, Kinds DEF ReplaceState, Places, RuntimeStep
<1>RemoveResetIntent. RuntimeStep /\ RemoveResetIntent => boot' \in Boot
  BY BootingOrDying, Kinds DEF RemoveResetIntent, Places, RuntimeStep
<1>BeginRuntimeMigration. RuntimeStep /\ BeginRuntimeMigration => boot' \in Boot
  BY BootingOrDying, Kinds DEF BeginRuntimeMigration, Places, RuntimeStep
<1>MigrateSpool. RuntimeStep /\ MigrateSpool => boot' \in Boot
  BY BootingOrDying, Kinds DEF MigrateSpool, Places, RuntimeStep
<1>MigrateState. RuntimeStep /\ MigrateState => boot' \in Boot
  BY BootingOrDying, Kinds DEF MigrateState, Places, RuntimeStep
<1>MigrateFloor. RuntimeStep /\ MigrateFloor => boot' \in Boot
  BY BootingOrDying, Kinds DEF MigrateFloor, Places, RuntimeStep
<1>RemoveMigrationIntent. RuntimeStep /\ RemoveMigrationIntent => boot' \in Boot
  BY BootingOrDying, Kinds DEF RemoveMigrationIntent, Places, RuntimeStep
<1>EstablishFloor. RuntimeStep /\ EstablishFloor => boot' \in Boot
  BY BootingOrDying, Kinds DEF EstablishFloor, Places, RuntimeStep
<1>OpenSpool. RuntimeStep /\ OpenSpool => boot' \in Boot
  BY BootingOrDying, Kinds DEF OpenSpool, Places, RuntimeStep
<1>LoadEncryption. LoadEncryption => boot' \in Boot
  BY <1>l
<1>RecordEncryption. RecordEncryption => boot' \in Boot
  BY BootingOrDying, Kinds DEF RecordEncryption, CreateEncryptionRecord, Places
<1>StopDaemon. StopDaemon => boot' \in Boot
  BY BootingOrDying, Kinds DEF StopDaemon, Off, Places
<1>CrashDaemon. CrashDaemon => boot' \in Boot
  BY BootingOrDying, Kinds DEF CrashDaemon, Off, Places
<1>StopAndConfirm. StopAndConfirm => boot' \in Boot
  BY BootingOrDying, Kinds DEF StopAndConfirm
<1>RestoreService. RestoreService => boot' \in Boot
  BY BootingOrDying, Kinds DEF RestoreService
<1>unchanged. UNCHANGED boot => boot' \in Boot
  BY Kinds
<1> QED BY <1>SpawnDaemon, <1>GuardStart, <1>AcquireRuntimeLock, <1>ValidateIdentity, <1>PreflightRuntime,
           <1>BeginResetKey, <1>BeginRuntimeReset, <1>ReplaceSpool, <1>ReplaceState, <1>RemoveResetIntent,
           <1>BeginRuntimeMigration, <1>MigrateSpool, <1>MigrateState, <1>MigrateFloor,
           <1>RemoveMigrationIntent, <1>EstablishFloor, <1>OpenSpool, <1>LoadEncryption, <1>RecordEncryption,
           <1>StopDaemon, <1>CrashDaemon, <1>StopAndConfirm, <1>RestoreService, <1>unchanged, Changes

\* The runtime files have theirs.
LEMMA DiskTyped ==
  ASSUME TypeOK, PlacesOK, Done, LinuxSigning, MacSigning, Replacing, Bound, DaemonOK, CandidateOK, DiskOK,
           StartOK, [Next]_vars
  PROVE  disk' \in Disk
<1>i. RuntimeStep => boot.host # None /\ boot.host \in Hosts
  BY RuntimeIsInside, Kinds DEF DaemonOK, Boot
<1>k. RuntimeStep /\ BeginResetKey => disk' \in Disk
  <2>1. SUFFICES ASSUME RuntimeStep, BeginResetKey, disk' # disk PROVE disk' \in Disk
    BY Kinds
  <2>2. CreateSpoolKey(boot.host) /\ IdsAreLeft(disk) /\ boot.host \in Hosts
    BY <2>1, <1>i DEF BeginResetKey, CreateSpoolKey
  <2>3. PICK id : id = IF disk.items[boot.host] = 0 THEN FreshKey(disk) ELSE disk.items[boot.host]
    OBVIOUS
  <2>4. id \in Ids
    BY <2>2, <2>3, FreshSpoolKey, Kinds DEF Disk
  <2>5. [host |-> boot.host, id |-> id] \in SpoolKeys
    BY <2>2, <2>4 DEF SpoolKeys
  <2>6. disk' = [disk EXCEPT !.items[boot.host] = id] \/ disk' = [disk EXCEPT !.key = [host |-> boot.host, id |-> id]]
    BY <2>2, <2>3 DEF CreateSpoolKey
  <2>7. QED BY <2>2, <2>4, <2>5, <2>6, DiskShapes
<1>u. Work => disk.state # None
  <2>1. SUFFICES ASSUME Work PROVE disk.state # None
    OBVIOUS
  <2>2. Inside /\ disk.floor = boot.host /\ disk.migration = None
    BY <2>1 DEF Work, Inside, StartOK
  <2>3. boot.host # None /\ ShapeOK(boot.host)
    BY <2>2, DaemonOwnsFiles, NoneIsNothing DEF Clean
  <2>4. PairOf(disk, Current, boot.host)
    BY <2>2, <2>3 DEF ShapeOK, ResetOK, FilesOK
  <2>5. QED BY <2>4 DEF PairOf, StateOf
<1>BeginResetKey. RuntimeStep /\ BeginResetKey => disk' \in Disk
  BY DiskShapes, Kinds, <1>i, FileShapes, <1>k DEF BeginResetKey, RuntimeStep
<1>BeginRuntimeReset. RuntimeStep /\ BeginRuntimeReset => disk' \in Disk
  BY DiskShapes, Kinds, <1>i, FileShapes, NewIntents DEF BeginRuntimeReset, RuntimeStep, NewReset, NewMigration,
      PairOf, StateOf, IsSpoolRecordForSchema, StartOK
<1>ReplaceSpool. RuntimeStep /\ ReplaceSpool => disk' \in Disk
  BY DiskShapes, Kinds, <1>i, FileShapes DEF ReplaceSpool, RuntimeStep, StartOK
<1>ReplaceState. RuntimeStep /\ ReplaceState => disk' \in Disk
  BY DiskShapes, Kinds, <1>i, FileShapes DEF ReplaceState, RuntimeStep, StartOK
<1>RemoveResetIntent. RuntimeStep /\ RemoveResetIntent => disk' \in Disk
  BY DiskShapes, Kinds, <1>i, FileShapes DEF RemoveResetIntent, RuntimeStep
<1>BeginRuntimeMigration. RuntimeStep /\ BeginRuntimeMigration => disk' \in Disk
  BY DiskShapes, Kinds, <1>i, FileShapes, NewIntents DEF BeginRuntimeMigration, RuntimeStep, NewReset,
      NewMigration, PairOf, StateOf, IsSpoolRecordForSchema, StartOK
<1>MigrateSpool. RuntimeStep /\ MigrateSpool => disk' \in Disk
  BY DiskShapes, Kinds, <1>i, FileShapes DEF MigrateSpool, RuntimeStep, StartOK
<1>MigrateState. RuntimeStep /\ MigrateState => disk' \in Disk
  BY DiskShapes, Kinds, <1>i, FileShapes DEF MigrateState, RuntimeStep, StartOK
<1>MigrateFloor. RuntimeStep /\ MigrateFloor => disk' \in Disk
  BY DiskShapes, Kinds, <1>i, FileShapes DEF MigrateFloor, RuntimeStep
<1>RemoveMigrationIntent. RuntimeStep /\ RemoveMigrationIntent => disk' \in Disk
  BY DiskShapes, Kinds, <1>i, FileShapes DEF RemoveMigrationIntent, RuntimeStep
<1>EstablishFloor. RuntimeStep /\ EstablishFloor => disk' \in Disk
  BY DiskShapes, Kinds, <1>i, FileShapes DEF EstablishFloor, RuntimeStep
<1>Work. RuntimeStep /\ Work => disk' \in Disk
  BY DiskShapes, Kinds, <1>i, FileShapes, <1>u DEF Work, RuntimeStep
<1>ClearArtifacts. ClearArtifacts => disk' \in Disk
  BY DiskShapes, Kinds DEF ClearArtifacts
<1>ClearSpoolKey. ClearSpoolKey => disk' \in Disk
  BY DiskShapes, Kinds DEF ClearSpoolKey, Disk, SpoolKeys
<1>unchanged. UNCHANGED disk => disk' \in Disk
  BY Kinds
<1> QED BY <1>BeginResetKey, <1>BeginRuntimeReset, <1>ReplaceSpool, <1>ReplaceState, <1>RemoveResetIntent,
           <1>BeginRuntimeMigration, <1>MigrateSpool, <1>MigrateState, <1>MigrateFloor,
           <1>RemoveMigrationIntent, <1>EstablishFloor, <1>Work, <1>ClearArtifacts, <1>ClearSpoolKey,
           <1>unchanged, Changes

\* The signing store.
LEMMA SigningTyped ==
  ASSUME TypeOK, PlacesOK, Initialising, Done, [Next]_vars
  PROVE  signing' \in SigningStore
<1>l. AfterLoad(signing) \in SigningStore
  BY Kinds DEF AfterLoad, SigningStore, MaybeHost
<1>AdoptOrReplaceSigningIdentity. AdoptOrReplaceSigningIdentity => signing' \in SigningStore
  <2>1. SUFFICES ASSUME AdoptOrReplaceSigningIdentity, ~UNCHANGED signing PROVE signing' \in SigningStore
    BY Kinds
  <2>2. /\ journal \in Journals /\ FreshHost \in Hosts
        /\ \/ ResetLinuxRecord(journal.op, FreshHost)
           \/ WriteResetSentinel(journal.op, FreshHost, Cleanup)
    BY <2>1, FreshHosts, Kinds DEF AdoptOrReplaceSigningIdentity, Cleanup, NoCleanup, At, PlacesOK
  <2>3. CASE ResetLinuxRecord(journal.op, FreshHost)
    BY <2>2, <2>3, Kinds DEF ResetLinuxRecord, SigningStore, Journals, MaybeHost
  <2>4. CASE WriteResetSentinel(journal.op, FreshHost, Cleanup)
    <3>1. Cleanup.previous \in MaybeHost /\ Cleanup.interrupted \in MaybeHost
      BY <2>2 DEF Cleanup, NoCleanup, Journals, Evidences, MaybeHost
    <3>2. PICK r : r = [op |-> journal.op, candidate |-> FreshHost, previous |-> Cleanup.previous, interrupted |-> Cleanup.interrupted]
      OBVIOUS
    <3>3. r \in SigningResets
      BY <2>2, <3>1, <3>2 DEF SigningResets, Journals
    <3>4. signing' = [signing EXCEPT !.reset = r]
      BY <2>4, <3>2 DEF WriteResetSentinel
    <3>5. QED BY <3>3, <3>4, Kinds DEF SigningStore
  <2>5. QED BY <2>2, <2>3, <2>4
<1>ValidateIdentity. ValidateIdentity => signing' \in SigningStore
  BY Kinds, NoneIsNothing, <1>l DEF ValidateIdentity
<1>CreateSigningIdentity. CreateSigningIdentity => signing' \in SigningStore
  BY Kinds, NoneIsNothing, FreshHosts DEF CreateSigningIdentity, CreateFirstRunLinux, CreateFirstRunSentinel,
      SigningStore, MaybeHost
<1>CreateFirstRunItem. SigningWrite /\ CreateFirstRunItem => signing' \in SigningStore
  BY Kinds, NoneIsNothing DEF CreateFirstRunItem, SigningWrite, SigningStore, MaybeHost, Initialising
<1>CreateFirstRunIndex. SigningWrite /\ CreateFirstRunIndex => signing' \in SigningStore
  BY Kinds, NoneIsNothing DEF CreateFirstRunIndex, SigningWrite, SigningStore, MaybeHost
<1>CreateFirstRunMetadata. SigningWrite /\ CreateFirstRunMetadata => signing' \in SigningStore
  BY Kinds, NoneIsNothing DEF CreateFirstRunMetadata, SigningWrite, SigningStore, MaybeHost
<1>CreateFirstRunRollback. SigningWrite /\ CreateFirstRunRollback => signing' \in SigningStore
  BY Kinds, NoneIsNothing DEF CreateFirstRunRollback, SigningWrite, SigningStore, MaybeHost
<1>DeleteCreationSentinel. SigningWrite /\ DeleteCreationSentinel => signing' \in SigningStore
  BY Kinds, NoneIsNothing DEF DeleteCreationSentinel, SigningWrite, SigningStore, MaybeHost
<1>WriteCandidateItem. SigningWrite /\ WriteCandidateItem => signing' \in SigningStore
  BY Kinds, NoneIsNothing DEF WriteCandidateItem, SigningWrite, SigningStore, MaybeHost, SigningResets, Done
<1>WriteIndexItem. SigningWrite /\ WriteIndexItem => signing' \in SigningStore
  BY Kinds, NoneIsNothing DEF WriteIndexItem, SigningWrite, SigningStore, MaybeHost
<1>WriteProfileMetadata. SigningWrite /\ WriteProfileMetadata => signing' \in SigningStore
  BY Kinds, NoneIsNothing DEF WriteProfileMetadata, SigningWrite, SigningStore, MaybeHost, SigningResets, Done
<1>DeletePreviousItem. SigningWrite /\ DeletePreviousItem => signing' \in SigningStore
  BY Kinds, NoneIsNothing DEF DeletePreviousItem, SigningWrite, SigningStore, MaybeHost
<1>DeleteInterruptedItem. SigningWrite /\ DeleteInterruptedItem => signing' \in SigningStore
  BY Kinds, NoneIsNothing DEF DeleteInterruptedItem, SigningWrite, SigningStore, MaybeHost
<1>ClearCreationSentinel. SigningWrite /\ ClearCreationSentinel => signing' \in SigningStore
  BY Kinds, NoneIsNothing DEF ClearCreationSentinel, SigningWrite, SigningStore, MaybeHost, SigningResets, Done
<1>InspectAndBindOldDomain. InspectAndBindOldDomain => signing' \in SigningStore
  BY Kinds, NoneIsNothing, <1>l DEF InspectAndBindOldDomain
<1>FinalizeSigning. FinalizeSigning => signing' \in SigningStore
  BY Kinds, NoneIsNothing DEF FinalizeSigning, At, CompleteExplicitReset, SigningStore, MaybeHost, storeVars,
      Ops, NoOp
<1>unchanged. UNCHANGED signing => signing' \in SigningStore
  BY Kinds
<1> QED BY <1>ValidateIdentity, <1>CreateSigningIdentity, <1>CreateFirstRunItem, <1>CreateFirstRunIndex,
           <1>CreateFirstRunMetadata, <1>CreateFirstRunRollback, <1>DeleteCreationSentinel,
           <1>WriteCandidateItem, <1>WriteIndexItem, <1>WriteProfileMetadata, <1>DeletePreviousItem,
           <1>DeleteInterruptedItem, <1>ClearCreationSentinel, <1>InspectAndBindOldDomain,
           <1>AdoptOrReplaceSigningIdentity, <1>FinalizeSigning, <1>unchanged, Changes

\* The encryption store.
LEMMA EncryptionTyped ==
  ASSUME TypeOK, PlacesOK, Done, Initialising, EncryptionOK, [Next]_vars
  PROVE  encryption' \in EncryptionStore
<1>w. \A k \in KeyIds : CreateEncryptionItem(k) => encryption' \in EncryptionStore
  BY Kinds DEF CreateEncryptionItem, EncryptionStore
<1>r. \A h \in MaybeHost : \A k \in KeyIds : CreateEncryptionRecord(h, k) => encryption' \in EncryptionStore
  BY Kinds DEF CreateEncryptionRecord, EncryptionStore
<1>f. KeysAreLeft => FreshEncryptionKey \in KeyIds
  BY FreshKeyLemma
<1>i. cli.at = "init-enc-record" => cli.key \in KeyIds /\ platform = "darwin"
  BY Kinds DEF EncryptionOK, EncryptionStore, Initialising
<1>ReplaceEncryptionIdentity. ReplaceEncryptionIdentity => encryption' \in EncryptionStore
  <2>1. SUFFICES ASSUME ReplaceEncryptionIdentity, ~UNCHANGED encryption PROVE encryption' \in EncryptionStore
    BY Kinds
  <2>2. /\ journal \in Journals /\ journal.new \in Hosts /\ FreshEncryptionKey \in KeyIds
    <3>1. journal # None /\ journal.new # None
      BY <2>1, ReplacingKeyFrame
    <3>2. QED BY <2>1, <3>1, FreshKeyLemma, Kinds DEF ReplaceEncryptionIdentity, Journals, MaybeHost
  <2>3. CASE ReplaceEncryptionLinux(journal.new)
    BY <2>2, <2>3, Kinds DEF ReplaceEncryptionLinux, EncryptionStore, MaybeHost
  <2>4. CASE WriteEncryptionSentinel(journal.op, journal.new)
    <3>2. PICK r : r = [op |-> journal.op, host |-> journal.new, key |-> FreshEncryptionKey, previous |-> {encryption.key} \ {0}]
      OBVIOUS
    <3>3. r \in EncryptionResets
      BY <2>2, <3>2, Kinds DEF EncryptionResets, Journals, EncryptionStore
    <3>4. encryption' = [encryption EXCEPT !.reset = r]
      BY <2>4, <3>2 DEF WriteEncryptionSentinel
    <3>5. QED BY <3>3, <3>4, Kinds DEF EncryptionStore
  <2>5. QED BY <2>1, <2>2, <2>3, <2>4 DEF ReplaceEncryptionIdentity
<1>LoadEncryption. LoadEncryption => encryption' \in EncryptionStore
  BY <1>w, <1>r, <1>f, Kinds DEF LoadEncryption, Boot, CliRecord, SigningStore, MaybeHost
<1>RecordEncryption. RecordEncryption => encryption' \in EncryptionStore
  BY Kinds, NoneIsNothing DEF RecordEncryption, CreateEncryptionRecord, EncryptionStore, MaybeHost,
      EncryptionOK, Boot
<1>InitialEncryption. InitialEncryption => encryption' \in EncryptionStore
  BY <1>w, <1>r, <1>f, Kinds, <1>i DEF InitialEncryption, Boot, CliRecord, SigningStore, MaybeHost
<1>WriteEncryptionItem. EncryptionWrite /\ WriteEncryptionItem => encryption' \in EncryptionStore
  BY Kinds, NoneIsNothing DEF WriteEncryptionItem, EncryptionWrite, EncryptionStore, MaybeHost, EncryptionOK,
      EncryptionResets
<1>WriteEncryptionMetadata. EncryptionWrite /\ WriteEncryptionMetadata => encryption' \in EncryptionStore
  BY Kinds, NoneIsNothing DEF WriteEncryptionMetadata, EncryptionWrite, EncryptionStore, MaybeHost,
      EncryptionOK, EncryptionResets
<1>DeletePreviousEncryptionItems. EncryptionWrite /\ DeletePreviousEncryptionItems => encryption' \in EncryptionStore
  BY Kinds, NoneIsNothing DEF DeletePreviousEncryptionItems, EncryptionWrite, EncryptionStore, MaybeHost,
      EncryptionOK, EncryptionResets
<1>FinalizeEncryption. FinalizeEncryption => encryption' \in EncryptionStore
  BY Kinds, NoneIsNothing DEF FinalizeEncryption, At, CompleteEncryptionReset, EncryptionStore, MaybeHost,
      storeVars
<1>unchanged. UNCHANGED encryption => encryption' \in EncryptionStore
  BY Kinds
<1> QED BY <1>LoadEncryption, <1>RecordEncryption, <1>InitialEncryption, <1>ReplaceEncryptionIdentity,
           <1>WriteEncryptionItem, <1>WriteEncryptionMetadata, <1>DeletePreviousEncryptionItems,
           <1>FinalizeEncryption, <1>unchanged, Changes

\* The journal.
LEMMA JournalTyped ==
  ASSUME TypeOK, PlacesOK, [Next]_vars
  PROVE  journal' \in Journals \cup {None}
<1>CreateJournal. CreateJournal => journal' \in Journals \cup {None}
  BY Creating
<1>AcquireRuntimeOwnership. AcquireRuntimeOwnership => journal' \in Journals \cup {None}
  BY Entering, PhaseList, Kinds DEF AcquireRuntimeOwnership, PlacesOK, Phase, EncPlaces, ClearPlaces
<1>InspectAndBindOldDomain. InspectAndBindOldDomain => journal' \in Journals \cup {None}
  BY Binding, Kinds DEF InspectAndBindOldDomain, At, PlacesOK
<1>PersistRevokeIntent. PersistRevokeIntent => journal' \in Journals \cup {None}
  BY Entering, PhaseList, Kinds DEF PersistRevokeIntent, At, PlacesOK, Phase, EncPlaces, ClearPlaces
<1>RevokeOldIdentity. RevokeOldIdentity => journal' \in Journals \cup {None}
  BY Entering, PhaseList, Kinds DEF RevokeOldIdentity, At, PlacesOK, Phase, EncPlaces, ClearPlaces
<1>PersistSigningReplacementIntent. PersistSigningReplacementIntent => journal' \in Journals \cup {None}
  BY Entering, PhaseList, Kinds DEF PersistSigningReplacementIntent, At, PlacesOK, Phase, EncPlaces, ClearPlaces
<1>CommitSigning. CommitSigning => journal' \in Journals \cup {None}
  BY Adopting DEF CommitSigning, PlacesOK, SignPlaces, Phase
<1>CommitEncryption. CommitEncryption => journal' \in Journals \cup {None}
  BY Entering, PhaseList, Kinds DEF CommitEncryption, PlacesOK, Phase, EncPlaces, ClearPlaces
<1>CommitCleared. CommitCleared => journal' \in Journals \cup {None}
  BY Entering, PhaseList, Kinds DEF CommitCleared, PlacesOK, Phase, EncPlaces, ClearPlaces
<1>PersistConfig. PersistConfig => journal' \in Journals \cup {None}
  BY Entering, PhaseList, Kinds DEF PersistConfig, At, PlacesOK, Phase, EncPlaces, ClearPlaces
<1>EnrollNewIdentity. EnrollNewIdentity => journal' \in Journals \cup {None}
  BY Entering, PhaseList, Kinds DEF EnrollNewIdentity, At, PlacesOK, Phase, EncPlaces, ClearPlaces
<1>SyncServiceMetadata. SyncServiceMetadata => journal' \in Journals \cup {None}
  BY Entering, PhaseList, Kinds DEF SyncServiceMetadata, At, PlacesOK, Phase, EncPlaces, ClearPlaces
<1>PersistServiceRestoreIntent. PersistServiceRestoreIntent => journal' \in Journals \cup {None}
  BY Entering, PhaseList, Kinds DEF PersistServiceRestoreIntent, At, PlacesOK, Phase, EncPlaces, ClearPlaces
<1>ConfirmAndRemoveJournal. ConfirmAndRemoveJournal => journal' \in Journals \cup {None}
  BY PhaseList, Kinds DEF ConfirmAndRemoveJournal, PlacesOK, Phase, EncPlaces, ClearPlaces
<1>unchanged. UNCHANGED journal => journal' \in Journals \cup {None}
  BY Kinds DEF TypeOK
<1> QED BY <1>CreateJournal, <1>AcquireRuntimeOwnership, <1>InspectAndBindOldDomain, <1>PersistRevokeIntent,
           <1>RevokeOldIdentity, <1>PersistSigningReplacementIntent, <1>CommitSigning, <1>CommitEncryption,
           <1>CommitCleared, <1>PersistConfig, <1>EnrollNewIdentity, <1>SyncServiceMetadata,
           <1>PersistServiceRestoreIntent, <1>ConfirmAndRemoveJournal, <1>unchanged, Changes

\* The holder of the lock.
LEMMA LockTyped ==
  ASSUME TypeOK, [Next]_vars
  PROVE  lock' \in {"free", "cli", "daemon"}
<1>AcquireRuntimeLock. AcquireRuntimeLock => lock' \in {"free", "cli", "daemon"}
  BY Kinds DEF AcquireRuntimeLock, Die
<1>ValidateIdentity. ValidateIdentity => lock' \in {"free", "cli", "daemon"}
  BY Kinds DEF ValidateIdentity, Die
<1>StopDaemon. StopDaemon => lock' \in {"free", "cli", "daemon"}
  BY Kinds DEF StopDaemon, Die
<1>CrashDaemon. CrashDaemon => lock' \in {"free", "cli", "daemon"}
  BY Kinds DEF CrashDaemon, Die
<1>CrashCli. CrashCli => lock' \in {"free", "cli", "daemon"}
  BY Kinds DEF CrashCli, Exit
<1>InitialEncryption. InitialEncryption => lock' \in {"free", "cli", "daemon"}
  BY Kinds DEF InitialEncryption, Exit
<1>StopAndConfirm. StopAndConfirm => lock' \in {"free", "cli", "daemon"}
  BY Kinds DEF StopAndConfirm, Die
<1>AcquireRuntimeOwnership. AcquireRuntimeOwnership => lock' \in {"free", "cli", "daemon"}
  BY Kinds DEF AcquireRuntimeOwnership, Exit
<1>InspectAndBindOldDomain. InspectAndBindOldDomain => lock' \in {"free", "cli", "daemon"}
  BY Kinds DEF InspectAndBindOldDomain, Exit
<1>RevokeOldIdentity. RevokeOldIdentity => lock' \in {"free", "cli", "daemon"}
  BY Kinds DEF RevokeOldIdentity, Exit
<1>AdoptOrReplaceSigningIdentity. AdoptOrReplaceSigningIdentity => lock' \in {"free", "cli", "daemon"}
  BY Kinds DEF AdoptOrReplaceSigningIdentity, Exit
<1>FinalizeSigning. FinalizeSigning => lock' \in {"free", "cli", "daemon"}
  BY Kinds DEF FinalizeSigning, Exit
<1>FinalizeEncryption. FinalizeEncryption => lock' \in {"free", "cli", "daemon"}
  BY Kinds DEF FinalizeEncryption, Exit
<1>ClearSpoolKey. ClearSpoolKey => lock' \in {"free", "cli", "daemon"}
  BY Kinds DEF ClearSpoolKey, Exit
<1>PersistConfig. PersistConfig => lock' \in {"free", "cli", "daemon"}
  BY Kinds DEF PersistConfig, Exit
<1>EnrollNewIdentity. EnrollNewIdentity => lock' \in {"free", "cli", "daemon"}
  BY Kinds DEF EnrollNewIdentity, Exit
<1>SyncServiceMetadata. SyncServiceMetadata => lock' \in {"free", "cli", "daemon"}
  BY Kinds DEF SyncServiceMetadata, Exit
<1>PersistServiceRestoreIntent. PersistServiceRestoreIntent => lock' \in {"free", "cli", "daemon"}
  BY Kinds DEF PersistServiceRestoreIntent, Exit
<1>VerifyReplacement. VerifyReplacement => lock' \in {"free", "cli", "daemon"}
  BY Kinds DEF VerifyReplacement, Exit
<1>RestoreService. RestoreService => lock' \in {"free", "cli", "daemon"}
  BY Kinds DEF RestoreService, Exit
<1>ConfirmAndRemoveJournal. ConfirmAndRemoveJournal => lock' \in {"free", "cli", "daemon"}
  BY Kinds DEF ConfirmAndRemoveJournal, Exit
<1>unchanged. UNCHANGED lock => lock' \in {"free", "cli", "daemon"}
  BY Kinds
<1> QED BY <1>AcquireRuntimeLock, <1>ValidateIdentity, <1>StopDaemon, <1>CrashDaemon, <1>CrashCli,
           <1>InitialEncryption, <1>StopAndConfirm, <1>AcquireRuntimeOwnership, <1>InspectAndBindOldDomain,
           <1>RevokeOldIdentity, <1>AdoptOrReplaceSigningIdentity, <1>FinalizeSigning, <1>FinalizeEncryption,
           <1>ClearSpoolKey, <1>PersistConfig, <1>EnrollNewIdentity, <1>SyncServiceMetadata,
           <1>PersistServiceRestoreIntent, <1>VerifyReplacement, <1>RestoreService, <1>ConfirmAndRemoveJournal,
           <1>unchanged, Changes

\* The service.
LEMMA ServiceTyped ==
  ASSUME TypeOK, [Next]_vars
  PROVE  service' \in [managed : BOOLEAN, loaded : BOOLEAN, reference : MaybeHost]
<1>StartService. StartService => service' \in [managed : BOOLEAN, loaded : BOOLEAN, reference : MaybeHost]
  BY Kinds DEF StartService, SigningStore
<1>StopAndConfirm. StopAndConfirm => service' \in [managed : BOOLEAN, loaded : BOOLEAN, reference : MaybeHost]
  BY Kinds DEF StopAndConfirm, SigningStore
<1>SyncServiceMetadata. SyncServiceMetadata =>
                          service' \in [managed : BOOLEAN, loaded : BOOLEAN, reference : MaybeHost]
  BY Kinds DEF SyncServiceMetadata, SigningStore
<1>RestoreService. RestoreService => service' \in [managed : BOOLEAN, loaded : BOOLEAN, reference : MaybeHost]
  BY Kinds DEF RestoreService, SigningStore
<1>unchanged. UNCHANGED service => service' \in [managed : BOOLEAN, loaded : BOOLEAN, reference : MaybeHost]
  BY Kinds
<1> QED BY <1>StartService, <1>StopAndConfirm, <1>SyncServiceMetadata, <1>RestoreService, <1>unchanged, Changes

\* What the Relay knows.
LEMMA RelayTyped ==
  ASSUME TypeOK, PlacesOK, JournalOK, Bound, DaemonOK, Done, [Next]_vars
  PROVE  relay' \in [enrolled : SUBSET Hosts, revoked : SUBSET Hosts]
<1>Serve. Serve => relay' \in [enrolled : SUBSET Hosts, revoked : SUBSET Hosts]
  BY Kinds DEF Serve, Journals, MaybeHost, PlacesOK, Phase, Boot, DaemonOK, Inside
<1>RevokeOldIdentity. RevokeOldIdentity => relay' \in [enrolled : SUBSET Hosts, revoked : SUBSET Hosts]
  BY Kinds DEF RevokeOldIdentity, Journals, MaybeHost, At, PlacesOK, Phase, SigningStatus, Boot, DaemonOK,
      Inside
<1>EnrollNewIdentity. EnrollNewIdentity => relay' \in [enrolled : SUBSET Hosts, revoked : SUBSET Hosts]
  BY Kinds DEF EnrollNewIdentity, Journals, MaybeHost, At, PlacesOK, Phase, Replaced, SigningStatus, Boot,
      DaemonOK, Inside
<1>unchanged. UNCHANGED relay => relay' \in [enrolled : SUBSET Hosts, revoked : SUBSET Hosts]
  BY Kinds
<1> QED BY <1>Serve, <1>RevokeOldIdentity, <1>EnrollNewIdentity, <1>unchanged, Changes

\* The Host of the configuration.
LEMMA ConfigTyped ==
  ASSUME TypeOK, PlacesOK, [Next]_vars
  PROVE  config' \in MaybeHost
<1>SaveInitialConfig. SaveInitialConfig => config' \in MaybeHost
  BY Kinds DEF SaveInitialConfig, SigningStore, Journals, PlacesOK
<1>PersistConfig. PersistConfig => config' \in MaybeHost
  BY Kinds DEF PersistConfig, SigningStore, Journals, At, PlacesOK
<1>unchanged. UNCHANGED config => config' \in MaybeHost
  BY Kinds
<1> QED BY <1>SaveInitialConfig, <1>PersistConfig, <1>unchanged, Changes

\* The Host of the keyring.
LEMMA KeyringTyped ==
  ASSUME TypeOK, [Next]_vars
  PROVE  keyring' \in MaybeHost
<1>Serve. Serve => keyring' \in MaybeHost
  BY Kinds DEF Serve, Boot, MaybeHost
<1>ClearArtifacts. ClearArtifacts => keyring' \in MaybeHost
  BY Kinds DEF ClearArtifacts, Boot, MaybeHost
<1>unchanged. UNCHANGED keyring => keyring' \in MaybeHost
  BY Kinds
<1> QED BY <1>Serve, <1>ClearArtifacts, <1>unchanged, Changes

\* The operations begun.
LEMMA StartedTyped ==
  ASSUME TypeOK, [Next]_vars
  PROVE  started' \in 0 .. MaxOps
<1>CreateJournal. CreateJournal => started' \in 0 .. MaxOps
  BY Kinds, ResetAssumption DEF CreateJournal, ResetAssumption
<1>unchanged. UNCHANGED started => started' \in 0 .. MaxOps
  BY Kinds
<1> QED BY <1>CreateJournal, <1>unchanged, Changes

\* Every step keeps the types.
LEMMA TypesPreserved ==
  ASSUME TypeOK, IInv, [Next]_vars
  PROVE  TypeOK'
<1>1. disk' \in Disk /\ boot' \in Boot /\ signing' \in SigningStore /\ encryption' \in EncryptionStore
  BY DiskTyped, BootTyped, SigningTyped, EncryptionTyped DEF IInv
<1>2. journal' \in Journals \cup {None} /\ cli' \in CliRecord /\ lock' \in {"free", "cli", "daemon"}
  BY JournalTyped, CliTyped, LockTyped DEF IInv
<1>3. /\ service' \in [managed : BOOLEAN, loaded : BOOLEAN, reference : MaybeHost]
      /\ relay' \in [enrolled : SUBSET Hosts, revoked : SUBSET Hosts]
      /\ config' \in MaybeHost /\ keyring' \in MaybeHost /\ started' \in 0 .. MaxOps
  BY ServiceTyped, RelayTyped, ConfigTyped, KeyringTyped, StartedTyped DEF IInv
<1>4. platform' \in {"linux", "darwin"}
  BY Changes, Kinds
<1>5. QED BY <1>1, <1>2, <1>3, <1>4 DEF TypeOK, CliRecord

\* Every step keeps the inductive invariant.
LEMMA InvPreserved ==
  ASSUME TypeOK, IInv, [Next]_vars
  PROVE  IInv'
<1>1. PlacesOK' /\ NoRefusal' /\ LocksOK'
  BY PlacesOKPreserved, NoRefusalPreserved, LocksOKPreserved DEF IInv
<1>2. LinuxSigning' /\ MacSigning' /\ Replacing' /\ Done' /\ Initialising'
  BY LinuxSigningPreserved, MacSigningPreserved, ReplacingPreserved, DonePreserved, InitialisingPreserved
      DEF IInv
<1>3. JournalOK' /\ Bound' /\ EncReset' /\ EncryptionOK'
  BY JournalOKPreserved, BoundPreserved, EncResetPreserved, EncryptionOKPreserved DEF IInv
<1>4. DaemonOK' /\ CandidateOK' /\ OwnOK'
  BY DaemonOKPreserved, CandidateOKPreserved, OwnOKPreserved DEF IInv
<1>5. DiskOK' /\ OldKeyOK' /\ StartOK' /\ ClearOK' /\ ServiceOK'
  BY DiskOKPreserved, OldKeyOKPreserved, StartOKPreserved, ClearOKPreserved, ServiceOKPreserved DEF IInv
<1>6. NoEnrolledHostIsAbandoned' /\ OnlyAnOldFloorRefuses'
  BY NoEnrolledHostIsAbandonedPreserved, OnlyAnOldFloorRefusesPreserved DEF IInv
<1>7. QED BY <1>1, <1>2, <1>3, <1>4, <1>5, <1>6 DEF IInv

-----------------------------------------------------------------------------
(* The start                                                               *)

\* The files a profile may begin with.
LEMMA InitialFiles ==
  ASSUME NEW h \in Hosts, disk \in InitialDisks(h), platform \in {"linux", "darwin"}
  PROVE  disk \in Disk /\ KeyOK(h) /\ ShapeOK(h) /\ disk.migration = None /\ disk.reset = None /\
           disk.floor \in {None, h}
<1>1. None \notin Hosts /\ None \notin SpoolKeys /\ None \notin StateFile /\ None \notin SpoolFile /\
        1 \in 0 .. MaxRev
  BY NoneIsNothing, ResetAssumption DEF ResetAssumption
<1>2. NoFiles \in Disk
  BY DEF NoFiles, Disk
<1>3. CASE disk = NoFiles
  BY <1>1, <1>2, <1>3 DEF NoFiles, KeyOK, ShapeOK, MigrationOK, ResetOK, FilesOK, OldFiles
<1> DEFINE state(v) == [v |-> v, host |-> h, epoch |-> IF v = 1 THEN Standalone ELSE 1, rev |-> 1]
           spool(v) == [v |-> v, host |-> h, epoch |-> IF v = 1 THEN Standalone ELSE 1, key |-> 1]
           key == [host |-> h, id |-> 1]
<1>4. \A v \in Schemas : state(v) \in StateFile /\ spool(v) \in SpoolFile /\ state(v) # None /\ spool(v) # None
  BY <1>1 DEF StateFile, SpoolFile, Ids, Standalone
<1>5. key \in SpoolKeys /\ key # None
  BY <1>1 DEF SpoolKeys, Ids
<1>6. \A v \in Schemas :
        LeftBy(h, v) \in Disk /\ LeftBy(h, v).state = state(v) /\ LeftBy(h, v).spool = spool(v) /\
          LeftBy(h, v).key = key
        /\ LeftBy(h, v).items[h] = (IF platform = "darwin" THEN 1 ELSE 0)
        /\ LeftBy(h, v).floor = None /\ LeftBy(h, v).reset = None /\ LeftBy(h, v).migration = None
  <2>1. SUFFICES ASSUME NEW v \in Schemas
                 PROVE  LeftBy(h, v) \in Disk /\ LeftBy(h, v).state = state(v) /\
                          LeftBy(h, v).spool = spool(v) /\ LeftBy(h, v).key = key
                        /\ LeftBy(h, v).items[h] = (IF platform = "darwin" THEN 1 ELSE 0)
                        /\ LeftBy(h, v).floor = None /\ LeftBy(h, v).reset = None /\ LeftBy(h, v).migration = None
    OBVIOUS
  <2>2. PICK n, s, p, k : n = NoFiles /\ s = state(v) /\ p = spool(v) /\ k = key
    OBVIOUS
  <2>3. LeftBy(h, v) = [[n EXCEPT !.state = s, !.spool = p] EXCEPT !.key = k, !.items[h] = IF platform = "darwin" THEN 1 ELSE 0]
    BY <2>2 DEF LeftBy, WithKey
  <2>4. n \in Disk /\ s \in StateFile /\ p \in SpoolFile /\ k \in SpoolKeys /\ n.floor = None /\
          n.reset = None /\ n.migration = None
    BY <1>2, <1>4, <1>5, <2>2 DEF NoFiles
  <2> HIDE DEF state, spool, key
  <2>5. PICK a : a = [n EXCEPT !.state = s, !.spool = p]
    OBVIOUS
  <2>6. a \in Disk /\ a.state = s /\ a.spool = p /\ a.floor = None /\ a.reset = None /\ a.migration = None
    BY <2>4, <2>5 DEF Disk
  <2>7. PICK items : items = [a.items EXCEPT ![h] = IF platform = "darwin" THEN 1 ELSE 0]
    OBVIOUS
  <2>8. items \in [Hosts -> Ids \cup {0}] /\ items[h] = (IF platform = "darwin" THEN 1 ELSE 0)
    <3>1. a.items \in [Hosts -> Ids \cup {0}]
      BY <2>6 DEF Disk
    <3>2. (IF platform = "darwin" THEN 1 ELSE 0) \in Ids \cup {0}
      BY DEF Ids
    <3>3. QED BY <2>7, <3>1, <3>2
  <2>9. LeftBy(h, v) = [a EXCEPT !.key = k, !.items = items]
    BY <2>3, <2>5, <2>6, <2>7 DEF Disk
  <2>10. LeftBy(h, v) \in Disk /\ LeftBy(h, v).key = k /\ LeftBy(h, v).items = items
    BY <2>4, <2>6, <2>8, <2>9 DEF Disk
  <2>11. LeftBy(h, v).state = s /\ LeftBy(h, v).spool = p /\ LeftBy(h, v).floor = None /\ LeftBy(h, v).reset = None
         /\ LeftBy(h, v).migration = None
    BY <2>6, <2>9 DEF Disk
  <2>12. QED BY <2>2, <2>8, <2>10, <2>11
<1> HIDE DEF state, spool, key
<1>7. ASSUME NEW v \in Schemas, disk.state \in {state(v), None}, disk.spool \in {spool(v), None,
               [spool(1) EXCEPT !.v = 2]}, disk.key = key, disk \in Disk,
             disk.items[h] = (IF platform = "darwin" THEN 1 ELSE 0), disk.floor = None, disk.reset = None,
               disk.migration = None,
             (disk.state = state(v) /\ disk.spool = spool(v)) \/ v = 1
      PROVE  KeyOK(h) /\ ShapeOK(h)
  <2>1. PICK other : other = [spool(1) EXCEPT !.v = 2]
    OBVIOUS
  <2>2. other.v = 2 /\ other.host = h /\ other.epoch = Standalone /\ other.key = 1
    BY <2>1 DEF spool
  <2>3. state(v).v = v /\ state(v).host = h /\ spool(v).v = v /\ spool(v).host = h /\
          state(v).epoch = spool(v).epoch /\ spool(v).key = 1
        /\ (v = 1 => spool(v).epoch = Standalone)
    BY DEF state, spool
  <2>4. KeyOK(h)
    <3>1. disk.key # None /\ disk.key.host = h /\ disk.key.id = 1
      BY <1>5, <1>7 DEF key
    <3>2. KeyReady(disk, h)
      BY <1>7, <3>1 DEF KeyReady
    <3>3. disk.spool # None => disk.spool.host = h /\ disk.spool.key = 1
      BY <1>7, <2>1, <2>2, <2>3
    <3>4. disk.state # None => disk.state.host = h
      BY <1>7, <2>3
    <3>5. QED BY <3>1, <3>2, <3>3, <3>4 DEF KeyOK
  <2>5. v \in {1, 2, 3, 4}
    BY DEF Schemas
  <2>6. PairOf(disk, Current, h) \/ PairOf(disk, 3, h) \/ OldFiles(h)
    <3>1. CASE disk.state = state(v) /\ disk.spool = spool(v) /\ v # 1
      BY <1>4, <1>7, <2>3, <2>5, <3>1 DEF PairOf, StateOf, IsSpoolRecordForSchema, OldFiles, Current
    <3>2. CASE v = 1
      BY <1>4, <1>7, <2>1, <2>2, <2>3, <3>2 DEF OldFiles, IsRecognizedLegacyRuntime,
          IsRecognizedPriorSpoolRecord, StateOf
    <3>3. QED BY <1>7, <3>1, <3>2
  <2>7. QED BY <1>1, <1>7, <2>4, <2>6 DEF ShapeOK, MigrationOK, ResetOK, FilesOK
<1>8. CASE \E v \in Schemas : disk = LeftBy(h, v)
  BY <1>6, <1>7, <1>8
<1>9. CASE disk = [LeftBy(h, 1) EXCEPT !.spool = None] \/ disk = [LeftBy(h, 1) EXCEPT !.state = None] \/
             disk = [LeftBy(h, 1) EXCEPT !.spool.v = 2]
  <2>1. PICK d \in Disk : d = LeftBy(h, 1)
    BY <1>6 DEF Schemas
  <2>2. /\ d.state = state(1) /\ d.spool = spool(1) /\ d.key = key /\
             d.items[h] = (IF platform = "darwin" THEN 1 ELSE 0)
        /\ d.floor = None /\ d.reset = None /\ d.migration = None
    BY <1>6, <2>1 DEF Schemas
  <2>3. PICK other : other = [spool(1) EXCEPT !.v = 2]
    OBVIOUS
  <2>4. other \in SpoolFile
    BY <1>4, <2>3 DEF SpoolFile, Schemas
  <2>5. disk = [d EXCEPT !.spool = None] \/ disk = [d EXCEPT !.state = None] \/ disk = [d EXCEPT !.spool = other]
    BY <1>9, <2>1, <2>2, <2>3
  <2>6. /\ disk \in Disk /\ disk.state \in {state(1), None} /\ disk.spool \in {spool(1), None, other}
        /\ disk.key = key /\ disk.items[h] = (IF platform = "darwin" THEN 1 ELSE 0)
        /\ disk.floor = None /\ disk.reset = None /\ disk.migration = None
    BY <2>2, <2>4, <2>5 DEF Disk
  <2>7. QED BY <1>7, <2>3, <2>6 DEF Schemas
<1>10. CASE disk = [LeftBy(h, Current) EXCEPT !.floor = h]
  <2>1. PICK d \in Disk : d = LeftBy(h, Current)
    BY <1>6 DEF Schemas, Current
  <2>2. /\ d.state = state(4) /\ d.spool = spool(4) /\ d.key = key /\
             d.items[h] = (IF platform = "darwin" THEN 1 ELSE 0)
        /\ d.reset = None /\ d.migration = None
    BY <1>6, <2>1 DEF Schemas, Current
  <2>3. disk \in Disk /\ disk.floor = h /\ disk.state = state(4) /\ disk.spool = spool(4) /\ disk.key = key /\
          disk.items[h] = (IF platform = "darwin" THEN 1 ELSE 0)
        /\ disk.reset = None /\ disk.migration = None
    BY <1>10, <2>1, <2>2 DEF Disk
  <2>4. state(4).v = 4 /\ state(4).host = h /\ spool(4).v = 4 /\ spool(4).host = h /\
          state(4).epoch = spool(4).epoch /\ spool(4).key = 1
    BY DEF state, spool
  <2>5. state(4) # None /\ spool(4) # None /\ key.host = h /\ key.id = 1
    BY <1>4 DEF Schemas, key
  <2>6. PairOf(disk, Current, h)
    BY <2>3, <2>4, <2>5 DEF PairOf, StateOf, IsSpoolRecordForSchema, Current
  <2>7. KeyOK(h)
    BY <1>5, <2>3, <2>4, <2>5 DEF KeyOK, KeyReady
  <2>8. QED BY <1>1, <2>3, <2>6, <2>7 DEF ShapeOK, MigrationOK, ResetOK, FilesOK
<1>11. QED BY <1>3, <1>8, <1>9, <1>10, <1>6, <1>7 DEF InitialDisks

\* No files are files of Host h.
LEMMA NoFilesOK ==
  ASSUME disk = NoFiles
  PROVE  disk \in Disk /\ KeyOK(None) /\ ShapeOK(None)
BY ResetAssumption DEF ResetAssumption, NoFiles, Disk, KeyOK, ShapeOK, MigrationOK, ResetOK, FilesOK, OldFiles

\* What an initial state has in common with a finished reset.
Resting ==
  /\ journal = None /\ boot = Off /\ cli = Idle /\ lock = "free" /\ platform \in {"linux", "darwin"}
  /\ signing \in SigningStore /\ encryption \in EncryptionStore
  /\ signing.op = NoOp /\ signing.reset = None /\ encryption.reset = None /\ signing.creating = None
  /\ (platform = "linux" => signing.items = {} /\ ~signing.index /\ encryption.items = {} /\ (signing.broken => signing.meta # None))
  /\ (platform = "darwin" => ~signing.broken /\ Steady /\ (encryption.host # None => encryption.key \in encryption.items))
  /\ (encryption.host = None <=> encryption.key = 0)
  /\ {config, encryption.host, keyring} \subseteq {None, signing.meta}
  /\ KeyOK(signing.meta) /\ ShapeOK(signing.meta)
  /\ NoEnrolledHostIsAbandoned

\* A first state satisfies the inductive invariant.
LEMMA RestingInv ==
  ASSUME Resting PROVE IInv
<1>1. Phase = "none" /\ cli.at = "idle" /\ cli.error = "none" /\ boot.at = "off" /\ boot.host = None
  BY DEF Resting, Phase, Idle, Off
<1>2. Candidate = None /\ ~Mixed
  BY <1>1 DEF Candidate, Mixed, ReplacedPhases, AfterEncryption, AfterClearing, AfterConfig
<1>3. PlacesOK /\ NoRefusal /\ LocksOK
  BY <1>1 DEF Resting, PlacesOK, NoRefusal, LocksOK, InitPlaces, SignPlaces, EncPlaces, ClearPlaces, Working
<1>4. LinuxSigning /\ MacSigning
  BY <1>1 DEF Resting, LinuxSigning, MacSigning
<1>5. Replacing /\ Done /\ Initialising
  BY <1>1 DEF Replacing, Done, Initialising, ReplacedPhases, AfterEncryption, AfterClearing, AfterConfig,
      EncPlaces
<1>6. JournalOK /\ Bound
  BY <1>1 DEF JournalOK, Bound, UnfilledPhases, BoundPhases
<1>7. EncReset /\ EncryptionOK
  BY <1>1 DEF Resting, EncReset, EncryptionOK, BoundPhases, AfterEncryption, AfterClearing, AfterConfig,
      ClearPlaces
<1>8. DaemonOK /\ CandidateOK /\ OwnOK
  BY <1>1, <1>2 DEF Resting, DaemonOK, Inside, CandidateOK, OwnOK, AfterConfig
<1>9. DiskOK /\ OldKeyOK /\ StartOK /\ ClearOK /\ ServiceOK
  BY <1>1, <1>2 DEF Resting, DiskOK, OldKeyOK, StartOK, ClearOK, ServiceOK, BoundPhases, ReplacedPhases,
      AfterEncryption, AfterClearing, AfterConfig, ClearPlaces
<1>10. NoEnrolledHostIsAbandoned /\ OnlyAnOldFloorRefuses
  BY <1>1 DEF Resting, OnlyAnOldFloorRefuses
<1>11. QED BY <1>3, <1>4, <1>5, <1>6, <1>7, <1>8, <1>9, <1>10 DEF IInv

\* The initial states are such states.
LEMMA InitInv ==
  ASSUME Init PROVE TypeOK /\ IInv
<1>1. /\ platform \in {"linux", "darwin"} /\ boot = Off /\ cli = Idle /\ journal = None /\ lock = "free" /\
           started = 0
      /\ \E managed \in BOOLEAN : service = [managed |-> managed, loaded |-> managed, reference |-> config]
  BY DEF Init
<1>2. None \notin Hosts /\ 0 \in 0 .. MaxOps /\ Off \in Boot
      /\ Idle \in [at : CliPlaces, key : KeyIds \cup {0}, error : {"none", "active", "evidence", "relay", "restore"}]
  BY ResetAssumption DEF ResetAssumption, Off, Boot, Places, Idle, CliPlaces
<1>3. ASSUME Resting, disk \in Disk, {config, keyring} \subseteq MaybeHost,
               relay \in [enrolled : SUBSET Hosts, revoked : SUBSET Hosts]
      PROVE  TypeOK /\ IInv
  <2>1. service \in [managed : BOOLEAN, loaded : BOOLEAN, reference : MaybeHost]
    BY <1>1, <1>3
  <2>2. signing \in SigningStore /\ encryption \in EncryptionStore
    BY <1>3 DEF Resting
  <2>3. TypeOK
    BY <1>1, <1>2, <1>3, <2>1, <2>2 DEF TypeOK
  <2>4. QED BY <1>3, <2>3, RestingInv
<1>4. ASSUME Fresh
      PROVE  Resting /\ disk \in Disk /\ {config, keyring} \subseteq MaybeHost /\
               relay \in [enrolled : SUBSET Hosts, revoked : SUBSET Hosts]
  <2>1. /\ signing = NoSigning /\ encryption = NoEncryption /\ disk = NoFiles /\ config = None /\ keyring = None
        /\ relay = [enrolled |-> {}, revoked |-> {}]
    BY <1>4 DEF Fresh
  <2>2. NoSigning \in SigningStore /\ NoEncryption \in EncryptionStore
    BY DEF NoSigning, SigningStore, MaybeHost, NoEncryption, EncryptionStore, MaybeHost
  <2>3. signing.meta = None /\ signing.creating = None /\ signing.items = {} /\ ~signing.index /\
          ~signing.broken /\ signing.op = NoOp /\ signing.reset = None
        /\ encryption.host = None /\ encryption.key = 0 /\ encryption.items = {} /\ encryption.reset = None
    BY <2>1 DEF NoSigning, NoEncryption
  <2>4. disk \in Disk /\ KeyOK(None) /\ ShapeOK(None)
    BY <2>1, NoFilesOK
  <2>5. QED BY <1>1, <2>1, <2>2, <2>3, <2>4 DEF Resting, Steady, NoEnrolledHostIsAbandoned, MaybeHost
<1>5. ASSUME NEW h \in Hosts, InUse(h)
      PROVE  Resting /\ disk \in Disk /\ {config, keyring} \subseteq MaybeHost /\
               relay \in [enrolled : SUBSET Hosts, revoked : SUBSET Hosts]
  <2>1. PICK readable \in BOOLEAN :
          /\ signing = [NoSigning EXCEPT !.meta = h, !.index = platform = "darwin", !.broken = ~readable /\ ~(platform = "darwin"),
                                   !.items = IF platform = "darwin" /\ readable THEN {h} ELSE {}]
          /\ encryption = [NoEncryption EXCEPT !.host = h, !.key = 1, !.items = IF platform = "darwin" THEN {1} ELSE {}]
          /\ disk \in InitialDisks(h)
          /\ config = h /\ keyring = h /\ relay = [enrolled |-> {h}, revoked |-> {}]
    BY <1>5 DEF InUse
  <2>2. signing = [meta |-> h, op |-> NoOp, broken |-> ~readable /\ ~(platform = "darwin"),
                   items |-> IF platform = "darwin" /\ readable THEN {h} ELSE {}, index |-> platform = "darwin",
                   creating |-> None, reset |-> None]
    BY <2>1 DEF NoSigning
  <2>3. encryption = [host |-> h, key |-> 1, items |-> IF platform = "darwin" THEN {1} ELSE {}, reset |-> None]
    BY <2>1 DEF NoEncryption
  <2>4. signing.broken \in BOOLEAN /\ signing.index \in BOOLEAN /\ signing.items \in SUBSET {h} /\
          encryption.items \in SUBSET {1}
    BY <2>2, <2>3
  <2>5. signing \in SigningStore /\ encryption \in EncryptionStore
    BY <2>2, <2>3, <2>4 DEF SigningStore, EncryptionStore, MaybeHost, KeyIds
  <2>6. signing.meta = h /\ signing.creating = None /\ signing.items \subseteq {h} /\ signing.op = NoOp /\
          signing.reset = None
        /\ encryption.host = h /\ encryption.key = 1 /\ encryption.reset = None
        /\ (platform = "linux" => signing.items = {} /\ ~signing.index /\ encryption.items = {})
        /\ (platform = "darwin" => ~signing.broken /\ signing.index /\ 1 \in encryption.items)
    BY <1>1, <2>2, <2>3
  <2>7. disk \in Disk /\ KeyOK(h) /\ ShapeOK(h)
    BY <1>1, <2>1, InitialFiles
  <2>8. NoEnrolledHostIsAbandoned
    BY <2>1, <2>6 DEF NoEnrolledHostIsAbandoned
  <2>9. QED BY <1>1, <1>2, <2>1, <2>5, <2>6, <2>7, <2>8 DEF Resting, Steady, MaybeHost
<1>6. (CHOOSE h \in Hosts : TRUE) \in Hosts
  BY ResetAssumption DEF ResetAssumption
<1>7. QED BY <1>3, <1>4, <1>5, <1>6 DEF Init

\* Every state of a behaviour satisfies the invariant.
THEOREM HostResetInvariance == Spec => [](TypeOK /\ IInv)
<1>1. Init => TypeOK /\ IInv
  BY InitInv
<1>2. TypeOK /\ IInv /\ [Next]_vars => (TypeOK /\ IInv)'
  BY InvPreserved, TypesPreserved
<1>3. QED BY <1>1, <1>2, PTL DEF Spec

-----------------------------------------------------------------------------
(* What the invariant means                                                *)

\* The phases in their order.
LEMMA PhaseRanks ==
  /\ Rank("quarantine-pending") = 1 /\ Rank("quarantined") = 2 /\ Rank("prepared") = 3 /\ Rank("revoke-pending") = 4
  /\ Rank("old-identity-revoked") = 5 /\ Rank("signing-replacement-pending") = 6 /\
       Rank("signing-identity-replaced") = 7
  /\ Rank("encryption-identity-replaced") = 8 /\ Rank("runtime-artifacts-cleared") = 9 /\ Rank("config-saved") = 10
  /\ Rank("enrolled") = 11 /\ Rank("service-metadata-synchronized") = 12 /\ Rank("service-restore-pending") = 13
<1>1. DOMAIN Phases = 1 .. 13
  BY DEF Phases
<1>2. \A n \in {1,2,3,4,5,6,7,8,9,10,11,12,13} : Rank(Phases[n]) = n
  <2>1. SUFFICES ASSUME NEW n \in {1,2,3,4,5,6,7,8,9,10,11,12,13} PROVE Rank(Phases[n]) = n
    OBVIOUS
  <2>2. \A m \in 1 .. 13 : m \in {1,2,3,4,5,6,7,8,9,10,11,12,13}
    OBVIOUS
  <2>3. \A m \in {1,2,3,4,5,6,7,8,9,10,11,12,13} : Phases[m] = Phases[n] => m = n
    BY DEF Phases
  <2>4. \A m \in DOMAIN Phases : Phases[m] = Phases[n] => m = n
    BY <1>1, <2>2, <2>3
  <2>5. n \in DOMAIN Phases
    BY <1>1
  <2>6. QED BY <2>4, <2>5 DEF Rank
<1>3. QED BY <1>2 DEF Phases

\* A write that only enters the next phase is accepted.
LEMMA AcceptedAdvance ==
  ASSUME NEW phase \in PhaseNames, Enters(phase), journal \in Journals, journal' \in Journals,
           Rank(phase) = Rank(journal.phase) + 1 \/
           (journal.phase = "prepared" /\ phase = "signing-replacement-pending"),
         journal.phase = "prepared" => (journal.unreadable <=> phase = "signing-replacement-pending")
  PROVE  Accepted(journal, journal')
<1>1. DOMAIN journal = {"op", "phase", "old", "oldKey", "new", "unreadable", "cleanup", "wasRunning"}
  BY DEF Journals
<1>2. \A f \in DOMAIN journal \ {"phase"} : journal'[f] = journal[f]
  BY <1>1 DEF Enters
<1>3. Edge(journal.phase, journal'.phase)
  BY DEF Edge, Enters
<1>4. QED BY <1>2, <1>3 DEF Accepted, Enters

\* Every write of the journal is one the store's policy accepts.
LEMMA JournalIsAccepted ==
  ASSUME TypeOK, IInv, [Next]_vars, journal # None, journal' # None
  PROVE  Accepted(journal, journal')
<1>1. journal \in Journals /\ journal.phase = Phase /\ PlacesOK /\ JournalOK
  BY Kinds DEF Phase, IInv
<1>2. \A phase \in PhaseNames : Advance(phase) /\ Rank(phase) = Rank(journal.phase) + 1 /\
        journal.phase # "prepared" => Accepted(journal, journal')
  <2>1. SUFFICES ASSUME NEW phase \in PhaseNames, Advance(phase), Rank(phase) = Rank(journal.phase) + 1,
                   journal.phase # "prepared"
                 PROVE  Accepted(journal, journal')
    OBVIOUS
  <2>2. Enters(phase) /\ journal' \in Journals
    BY <2>1, Entering
  <2>3. QED BY <1>1, <2>1, <2>2, AcceptedAdvance
<1>3. UNCHANGED journal => Accepted(journal, journal')
  BY DEF Accepted
<1>4. CASE CreateJournal \/ ConfirmAndRemoveJournal
  BY <1>3, <1>4 DEF CreateJournal, ConfirmAndRemoveJournal
<1>5. CASE AcquireRuntimeOwnership
  BY <1>2, <1>3, <1>5, PhaseList, PhaseRanks DEF AcquireRuntimeOwnership
<1>6. CASE InspectAndBindOldDomain
  <2>1. CASE UNCHANGED journal
    BY <1>3, <2>1
  <2>2. CASE Binds(AfterLoad(signing)) /\ journal' \in Journals
    <3>1. journal.phase = "quarantined" /\ journal'.phase = "prepared"
      BY <1>1, <1>6, <2>2, Binding DEF Binds
    <3>2. journal.old = None /\ journal.oldKey = 0 /\ journal.cleanup = None /\ journal.unreadable = FALSE
      BY <1>1, <3>1 DEF JournalOK, UnfilledPhases, Journals
    <3>3. Edge(journal.phase, journal'.phase)
      BY <3>1, PhaseRanks DEF Edge
    <3>4. DOMAIN journal = {"op", "phase", "old", "oldKey", "new", "unreadable", "cleanup", "wasRunning"}
      BY <1>1 DEF Journals
    <3>5. journal'.op = journal.op /\ journal'.new = journal.new /\ journal'.wasRunning = journal.wasRunning
      BY <2>2 DEF Binds
    <3>6. Fillable(journal'.phase) = {"old", "oldKey", "unreadable", "cleanup"}
      BY <3>1 DEF Fillable
    <3>7. \A f \in DOMAIN journal \ {"phase"} : journal'[f] = journal[f] \/
            (f \in Fillable(journal'.phase) /\ journal[f] = Unfilled[f])
      <4>1. journal["op"] = journal'["op"] /\ journal["new"] = journal'["new"] /\
              journal["wasRunning"] = journal'["wasRunning"]
        BY <3>5
      <4>2. \A f \in {"old", "oldKey", "unreadable", "cleanup"} : journal[f] = Unfilled[f]
        <5>1. /\ Unfilled["old"] = None /\ Unfilled["oldKey"] = 0 /\ Unfilled["unreadable"] = FALSE
              /\ Unfilled["cleanup"] = None
          BY DEF Unfilled
        <5>2. journal["old"] = None /\ journal["oldKey"] = 0 /\ journal["unreadable"] = FALSE /\
                journal["cleanup"] = None
          BY <3>2
        <5>3. QED BY <5>1, <5>2
      <4>3. QED BY <3>4, <3>6, <4>1, <4>2
    <3>8. QED BY <3>1, <3>3, <3>7 DEF Accepted
  <2>3. QED BY <1>6, <2>1, <2>2, Binding
<1>7. CASE PersistRevokeIntent
  <2>1. Enters("revoke-pending") /\ journal' \in Journals /\ journal.phase = "prepared" /\ ~journal.unreadable
    BY <1>7, Entering, PhaseList DEF PersistRevokeIntent, At
  <2>2. QED BY <1>1, <2>1, AcceptedAdvance, PhaseList, PhaseRanks
<1>8. CASE RevokeOldIdentity
  BY <1>2, <1>3, <1>8, PhaseList, PhaseRanks DEF RevokeOldIdentity, At
<1>9. CASE PersistSigningReplacementIntent
  <2>1. CASE At("prepared") /\ journal.unreadable
    <3>1. Enters("signing-replacement-pending") /\ journal' \in Journals /\ journal.phase = "prepared"
      BY <1>9, <2>1, Entering, PhaseList DEF PersistSigningReplacementIntent, At
    <3>2. QED BY <1>1, <2>1, <3>1, AcceptedAdvance, PhaseList
  <2>2. CASE At("old-identity-revoked")
    BY <1>2, <1>9, <2>2, PhaseList, PhaseRanks DEF PersistSigningReplacementIntent, At
  <2>3. QED BY <1>9, <2>1, <2>2 DEF PersistSigningReplacementIntent
<1>10. CASE CommitSigning
  <2>1. /\ journal' \in Journals /\ journal'.phase = "signing-identity-replaced"
        /\ journal'.op = journal.op /\ journal'.old = journal.old /\ journal'.oldKey = journal.oldKey
        /\ journal'.unreadable = journal.unreadable /\ journal'.cleanup = journal.cleanup /\
             journal'.wasRunning = journal.wasRunning
    BY <1>10, Adopting
  <2>2. journal.phase = "signing-replacement-pending" /\ journal.new = None
    BY <1>1, <1>10 DEF CommitSigning, PlacesOK, SignPlaces, JournalOK, BoundPhases
  <2>3. Edge(journal.phase, journal'.phase)
    BY <2>1, <2>2, PhaseRanks DEF Edge
  <2>4. DOMAIN journal = {"op", "phase", "old", "oldKey", "new", "unreadable", "cleanup", "wasRunning"}
    BY <1>1 DEF Journals
  <2>5. Fillable(journal'.phase) = {"new"}
    BY <2>1 DEF Fillable
  <2>6. \A f \in DOMAIN journal \ {"phase"} : journal'[f] = journal[f] \/
          (f \in Fillable(journal'.phase) /\ journal[f] = Unfilled[f])
    BY <2>1, <2>2, <2>4, <2>5 DEF Unfilled
  <2>7. QED BY <2>2, <2>3, <2>6 DEF Accepted
<1>11. CASE CommitEncryption
  BY <1>1, <1>2, <1>11, PhaseList, PhaseRanks DEF CommitEncryption, PlacesOK, EncPlaces
<1>12. CASE CommitCleared
  BY <1>1, <1>2, <1>12, PhaseList, PhaseRanks DEF CommitCleared, PlacesOK, ClearPlaces
<1>13. CASE PersistConfig
  BY <1>2, <1>3, <1>13, PhaseList, PhaseRanks DEF PersistConfig, At
<1>14. CASE EnrollNewIdentity
  BY <1>2, <1>3, <1>14, PhaseList, PhaseRanks DEF EnrollNewIdentity, At
<1>15. CASE SyncServiceMetadata
  BY <1>2, <1>3, <1>15, PhaseList, PhaseRanks DEF SyncServiceMetadata, At
<1>16. CASE PersistServiceRestoreIntent
  BY <1>2, <1>3, <1>16, PhaseList, PhaseRanks DEF PersistServiceRestoreIntent, At
<1>17. QED BY <1>3, <1>4, <1>5, <1>6, <1>7, <1>8, <1>9, <1>10, <1>11, <1>12, <1>13, <1>14, <1>15, <1>16, Changes

\* What the clearing removed stays away.
LEMMA KeysAreGone ==
  ASSUME TypeOK, IInv PROVE OldKeysAreGone
<1>1. SUFFICES ASSUME Reached("runtime-artifacts-cleared")
               PROVE  /\ signing.items \subseteq {journal.new}
                      /\ journal.oldKey # encryption.key /\ journal.oldKey \notin encryption.items
                      /\ disk.key = None
  BY DEF OldKeysAreGone
<1>2. Phase \in AfterClearing
  <2>1. journal.phase \in PhaseNames /\ Phase = journal.phase /\ Rank(journal.phase) >= 9
    BY <1>1, Kinds, PhaseRanks DEF Reached, Journals, Phase
  <2>2. QED BY <2>1, PhaseList, PhaseRanks DEF AfterClearing, AfterConfig
<1>3. Phase \in AfterEncryption /\ Phase \in ReplacedPhases
  BY <1>2 DEF AfterEncryption, ReplacedPhases
<1>4. signing.items \subseteq {journal.new}
  BY <1>3, Kinds DEF IInv, Done, LinuxSigning
<1>5. journal.oldKey # encryption.key /\ journal.oldKey \notin encryption.items
  BY <1>3 DEF IInv, EncryptionOK
<1>6. disk.key = None
  BY <1>2 DEF IInv, ClearOK
<1>7. QED BY <1>4, <1>5, <1>6

\* A running daemon's domain is one Host.
LEMMA OneHost ==
  ASSUME TypeOK, IInv PROVE RunningDomainIsOneHost
<1>1. SUFFICES ASSUME boot.at = "up"
               PROVE  /\ {signing.meta, config, encryption.host, disk.spool.host, disk.key.host,
                           disk.floor} = {boot.host}
                      /\ {keyring, disk.state.host} \subseteq {None, boot.host}
                      /\ disk.spool.key = disk.key.id
  BY DEF RunningDomainIsOneHost
<1>2. Inside
  BY <1>1 DEF Inside
<1>3. PICK h : h = boot.host
  OBVIOUS
<1>4. h \in Hosts /\ h = signing.meta /\ ~Mixed /\ KeyOK(h) /\ (Clean(h) => ShapeOK(h))
  BY <1>2, <1>3, DaemonOwnsFiles DEF IInv
<1>5. config = h /\ encryption.host # None
  BY <1>1, <1>2, <1>3 DEF IInv, DaemonOK
<1>6. {config, encryption.host, keyring} \subseteq {None, h}
  BY <1>4 DEF IInv, OwnOK
<1>7. disk.floor = h /\ disk.migration = None
  BY <1>1, <1>3 DEF IInv, StartOK
<1>8. h # None
  BY <1>4, NoneIsNothing
<1>9. PairOf(disk, Current, h)
  <2>1. ShapeOK(h)
    BY <1>4, <1>7 DEF Clean
  <2>2. disk.reset = None
    BY <1>7, <1>8, <2>1 DEF ShapeOK, ResetOK
  <2>3. QED BY <1>7, <1>8, <2>1, <2>2 DEF ShapeOK, FilesOK
<1>10. disk.state.host \in {None, h} /\ disk.spool # None /\ disk.spool.host = h
  BY <1>9 DEF PairOf, StateOf, IsSpoolRecordForSchema
<1>11. disk.key # None /\ disk.key.host = h /\ disk.spool.key = disk.key.id
  BY <1>4, <1>10 DEF KeyOK, KeyReady
<1>12. QED BY <1>3, <1>4, <1>5, <1>6, <1>7, <1>10, <1>11

\* No write of a state takes a revision back.
LEMMA RevisionsStay ==
  ASSUME TypeOK, IInv, [Next]_vars PROVE RevisionsAreKept
<1>1. SUFFICES ASSUME disk.state # None, disk.state.v >= 3, disk'.state # None PROVE disk'.state.rev >= disk.state.rev
  BY DEF RevisionsAreKept
<1>2. disk.state.rev \in Nat /\ disk.state \in StateFile
  BY <1>1, Kinds, ResetAssumption DEF Disk, StateFile, ResetAssumption
<1>3. disk'.state = disk.state => disk'.state.rev >= disk.state.rev
  BY <1>2
<1>4. ASSUME RuntimeStep PROVE Inside /\ KeyOK(boot.host) /\ (Clean(boot.host) => ShapeOK(boot.host))
  BY <1>4, RuntimeIsInside, DaemonOwnsFiles DEF IInv
<1>5. CASE RuntimeStep /\ BeginResetKey
  BY <1>3, <1>5, ResetKeyWrites DEF SetsKey, SetsItem
<1>6. CASE RuntimeStep /\
             (BeginRuntimeReset \/ ReplaceSpool \/ RemoveResetIntent \/ BeginRuntimeMigration \/ MigrateSpool \/ MigrateFloor \/ RemoveMigrationIntent \/ EstablishFloor)
  BY <1>3, <1>6, PreflightWrites DEF SetsReset, SetsSpool, SetsMigration, SetsFloor
<1>7. CASE RuntimeStep /\ ReplaceState
  <2>1. boot.at = "reset-state" /\ disk'.state = ResetState(disk.reset)
    BY <1>7, PreflightWrites DEF SetsState
  <2>2. PICK h : h = boot.host
    OBVIOUS
  <2>3. disk.reset # None /\ ResetOK(h)
    BY <1>4, <1>7, <2>1, <2>2 DEF IInv, StartOK, ShapeOK
  <2>4. disk.state \in {disk.reset.state, ResetState(disk.reset)} /\
          (disk.reset.state # None => disk.reset.state.v <= 2)
    BY <2>3 DEF ResetOK, ResetResumable
  <2>5. disk.state = ResetState(disk.reset)
    <3>1. disk.state.v \in Schemas
      BY <1>2 DEF StateFile
    <3>2. QED BY <1>1, <2>4, <3>1 DEF Schemas
  <2>6. QED BY <1>3, <2>1, <2>5
<1>8. CASE RuntimeStep /\ MigrateState
  <2>1. boot.at = "migrate-state" /\ disk'.state = MigrateStateV3ToV4(disk.migration.state)
    BY <1>8, PreflightWrites DEF SetsState
  <2>2. PICK h : h = boot.host
    OBVIOUS
  <2>3. disk.migration # None /\ MigrationOK(h)
    BY <1>4, <1>8, <2>1, <2>2 DEF IInv, StartOK, ShapeOK
  <2>4. disk.state \in {disk.migration.state, MigrateStateV3ToV4(disk.migration.state)}
    BY <2>3 DEF MigrationOK
  <2>5. disk.migration.state \in StateFile
    BY <2>3, Kinds DEF Disk, MigrationIntent
  <2>6. MigrateStateV3ToV4(disk.migration.state).rev = disk.migration.state.rev
    BY <2>5 DEF MigrateStateV3ToV4, StateFile
  <2>7. QED BY <1>2, <2>1, <2>4, <2>6
<1>9. CASE RuntimeStep /\ Work
  <2>1. disk'.state = [disk.state EXCEPT !.host = boot.host, !.rev = disk.state.rev + 1]
    BY <1>9, PreflightWrites DEF SetsState
  <2>2. disk'.state.rev = disk.state.rev + 1
    BY <1>2, <2>1 DEF StateFile
  <2>3. QED BY <1>2, <2>2
<1>10. CASE ClearArtifacts
  BY <1>1, <1>3, <1>10, Clearing DEF SetsState, SetsSpool, SetsReset
<1>11. CASE ClearSpoolKey
  BY <1>3, <1>11, ClearingKey DEF SetsKey, SetsItem
<1>12. CASE UNCHANGED disk
  BY <1>3, <1>12
<1>13. QED BY <1>5, <1>6, <1>7, <1>8, <1>9, <1>10, <1>11, <1>12, Changes

\* Every file, store, process and the journal keeps its shape.
THEOREM HostResetTypeCorrectness == Spec => []TypeOK
  BY HostResetInvariance, PTL

\* A daemon that runs works with one Host: identities, configuration, keyring, runtime files and
\* spool key (assertHostDomainResetStartAllowed, loadValidatedIdentity and the preflight together).
THEOREM TheRunningDomainIsOneHost == Spec => []RunningDomainIsOneHost
<1>1. TypeOK /\ IInv => RunningDomainIsOneHost
  BY OneHost
<1>2. QED BY <1>1, HostResetInvariance, PTL

\* A reset that ends, or is cut off anywhere, abandons no Host the Relay accepts, and once the old
\* domain is cleared none of its private keys is left.
THEOREM TheOldHostIsRetired == Spec => []OldHostIsRetired
<1>1. TypeOK /\ IInv => OldHostIsRetired
  BY KeysAreGone DEF OldHostIsRetired, IInv
<1>2. QED BY <1>1, HostResetInvariance, PTL

\* A reset that was cut off is resumed by the same command: it refuses no evidence of its own making,
\* and the journal store accepts every transition it asks for.
THEOREM TheResetIsNeverWedged == Spec => ResetIsNeverWedged
<1>1. TypeOK /\ IInv /\ [Next]_vars => [ResetGoesOn]_vars
  <2>1. TypeOK /\ IInv /\ [Next]_vars => NoRefusal'
    BY InvPreserved DEF IInv
  <2>2. TypeOK /\ IInv /\ [Next]_vars /\ journal # None /\ journal' # None => Accepted(journal, journal')
    BY JournalIsAccepted
  <2>3. QED BY <2>1, <2>2 DEF NoRefusal, ResetGoesOn
<1>2. QED BY <1>1, HostResetInvariance, PTL DEF Spec, ResetIsNeverWedged

\* A start takes up whatever an earlier one left, is refused for an old Host's floor or migration
\* intent alone, and takes no revision back.
THEOREM TheRuntimeIsCarriedOver == Spec => RuntimeIsCarriedOver
<1>1. TypeOK /\ IInv /\ [Next]_vars => [OnlyAnOldFloorRefuses' /\ RevisionsAreKept]_vars
  BY InvPreserved, RevisionsStay DEF IInv
<1>2. QED BY <1>1, HostResetInvariance, PTL DEF Spec, RuntimeIsCarriedOver
=============================================================================
