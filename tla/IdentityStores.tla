-------------------------- MODULE IdentityStores --------------------------
(***************************************************************************)
(* The Host's two private keys and the stores that keep them: the signing  *)
(* identity (identity/linux-json-store.ts, macos-keychain-store.ts) and    *)
(* the encryption identity (linux- and macos-encryption-key-store.ts).     *)
(*                                                                         *)
(* On Linux a store is one file that is replaced atomically.  On macOS the *)
(* key is a Keychain item and a metadata file names it, and the Keychain   *)
(* and the file system cannot be written together: a creation is bracketed *)
(* by a creation sentinel, a replacement by a reset sentinel that carries  *)
(* the candidate and the accounts to delete, and each write is a step that *)
(* the process may not live to see.                                        *)
(*                                                                         *)
(* A Host id is derived from the signing key, so a Host names its key.     *)
(* The process is the CLI; cli.at says which write comes next.             *)
(***************************************************************************)
EXTENDS RuntimePreflight

CONSTANT MaxOps     \* bound: reset operations begun

VARIABLES
  signing,      \* the signing store
  encryption,   \* the encryption store
  cli           \* the CLI process that works on them

Ops == 1 .. MaxOps
NoOp == 0
MaybeHost == Hosts \cup {None}
KeyIds == 1 .. 5

\* meta: the Host the record names; op: the operation that wrote it, kept by
\* Linux until the reset is completed; broken: a recognised Linux record that
\* cannot be loaded; items, index, creating, reset: Keychain items, the index
\* item, the creation sentinel and the reset sentinel of macOS.
SigningResets == [op : Ops, candidate : Hosts, previous : MaybeHost, interrupted : MaybeHost]
SigningStore ==
  [meta : MaybeHost, op : Ops \cup {NoOp}, broken : BOOLEAN, items : SUBSET Hosts, index : BOOLEAN,
   creating : MaybeHost,
   reset : SigningResets \cup {None}]

EncryptionResets == [op : Ops, host : Hosts, key : KeyIds, previous : SUBSET KeyIds]
EncryptionStore ==
  [host : MaybeHost, key : KeyIds \cup {0}, items : SUBSET KeyIds,
   reset : EncryptionResets \cup {None}]

\* Where the process stands: before which write of which workflow.
CliPlaces == {"idle", "stop", "acquire", "run", "restore", "confirm",
  "init-sign", "init-item", "init-index", "init-meta", "init-uncreate", "init-config", "init-enc", "init-enc-record",
  "sign-item", "sign-index", "sign-meta", "sign-previous", "sign-interrupted", "sign-uncreate", "sign-commit",
  "sign-complete", "enc", "enc-item", "enc-meta", "enc-previous", "enc-commit", "enc-complete",
  "clear-keyring", "clear-state", "clear-spool", "clear-intent", "clear-key", "clear-commit"}

Go(place) == cli' = [cli EXCEPT !.at = place]

---------------------------------------------------------------------------
(* Loading                                                                 *)

\* inspect() and load() classify alike: nothing there, a usable identity, or
\* evidence that only an explicit reset may replace.
SigningStatus(s) ==
  IF s.meta = None THEN IF s.creating # None \/ s.index THEN "broken" ELSE "absent"
  ELSE IF s.broken \/ (platform = "darwin" /\ s.meta \notin s.items) THEN "broken"
  ELSE "ready"

\* A load that finds a complete identity clears a leftover creation sentinel.
AfterLoad(s) == IF SigningStatus(s) = "ready" THEN [s EXCEPT !.creating = None] ELSE s

EncryptionStatus(e) ==
  IF e.host = None THEN "absent"
  ELSE IF platform = "darwin" /\ e.key \notin e.items THEN "broken" ELSE "ready"

\* inspectResetOnlyLegacyIdentityEvidence: what a reset would replace and delete.
Evidences == [old : MaybeHost, previous : MaybeHost, interrupted : MaybeHost]
Evidence(s) ==
  [old |-> IF s.meta # None THEN s.meta ELSE s.creating,
   previous |-> IF platform = "darwin" THEN s.meta ELSE None,
   interrupted |-> s.creating]

EvidenceIsExact(s) ==
  \/ s.meta = None /\ s.creating # None
  \/ /\ s.meta # None
     /\ platform = "darwin" => s.index /\ s.creating \in {None, s.meta}

---------------------------------------------------------------------------
(* createFirstRun of the signing store                                     *)

CreateFirstRunLinux(h) ==
  /\ cli.at = "init-sign" /\ platform = "linux"
  /\ signing' = [signing EXCEPT !.meta = h]
  /\ Go("init-config")

CreateFirstRunSentinel(h) ==
  /\ cli.at = "init-sign" /\ platform = "darwin"
  /\ signing' = [signing EXCEPT !.creating = h]
  /\ Go("init-item")

CreateFirstRunItem ==
  /\ cli.at = "init-item"
  /\ signing' = [signing EXCEPT !.items = @ \cup {signing.creating}]
  /\ Go("init-index")

CreateFirstRunIndex ==
  /\ cli.at = "init-index"
  /\ signing' = [signing EXCEPT !.index = TRUE]
  /\ Go("init-meta")

CreateFirstRunMetadata ==
  /\ cli.at = "init-meta"
  /\ signing' = [signing EXCEPT !.meta = signing.creating]
  /\ Go("init-uncreate")

\* A write before the metadata failed: the items are taken back and the sentinel
\* is kept, so that a restart asks for an explicit reset.
CreateFirstRunRollback ==
  /\ cli.at \in {"init-item", "init-index", "init-meta"}
  /\ signing' = [signing EXCEPT !.items = @ \ {signing.creating}, !.index = FALSE]
  /\ Go("idle")

DeleteCreationSentinel ==
  /\ cli.at = "init-uncreate"
  /\ signing' = [signing EXCEPT !.creating = None]
  /\ Go("init-config")

---------------------------------------------------------------------------
(* resetAfterExplicitConfirmation, recoverExplicitReset and finishReset    *)

ResetLinuxRecord(op, h) ==
  /\ platform = "linux"
  /\ signing' = [signing EXCEPT !.meta = h, !.op = op, !.broken = FALSE]
  /\ Go("sign-commit")

\* The candidate's name may return: nothing but the sentinel ever knew it.
WriteResetSentinel(op, h, cleanup) ==
  /\ platform = "darwin"
  /\ signing' = [signing EXCEPT !.reset =
       [op |-> op, candidate |-> h, previous |-> cleanup.previous, interrupted |-> cleanup.interrupted]]
  /\ Go("sign-item")

\* finishReset generates a new candidate when the recorded one has no item.
WriteCandidateItem ==
  /\ cli.at = "sign-item"
  /\ signing' = [signing EXCEPT !.items = @ \cup {signing.reset.candidate}]
  /\ Go("sign-index")

WriteIndexItem ==
  /\ cli.at = "sign-index"
  /\ signing' = [signing EXCEPT !.index = TRUE]
  /\ Go("sign-meta")

WriteProfileMetadata ==
  /\ cli.at = "sign-meta"
  /\ signing' = [signing EXCEPT !.meta = signing.reset.candidate]
  /\ Go("sign-previous")

DeletePreviousItem ==
  /\ cli.at = "sign-previous"
  /\ signing' = [signing EXCEPT !.items = @ \ ({signing.reset.previous} \ {signing.reset.candidate})]
  /\ Go("sign-interrupted")

DeleteInterruptedItem ==
  /\ cli.at = "sign-interrupted"
  /\ signing' = [signing EXCEPT !.items = @ \ ({signing.reset.interrupted} \ {signing.reset.candidate})]
  /\ Go("sign-uncreate")

ClearCreationSentinel ==
  /\ cli.at = "sign-uncreate"
  /\ signing' = [signing EXCEPT !.creating = IF signing.reset.interrupted # None THEN None ELSE @]
  /\ Go("sign-commit")

\* completeExplicitReset: Linux rewrites the record without the operation,
\* macOS removes the sentinel.
CompleteExplicitReset(op) ==
  /\ cli.at = "sign-complete"
  /\ signing.op \in {NoOp, op}
  /\ signing.reset # None => signing.reset.op = op
  /\ signing' = [signing EXCEPT !.op = NoOp, !.reset = None]
  /\ Go("enc")

---------------------------------------------------------------------------
(* The encryption store                                                    *)

\* A key no store holds; KeyIds bounds how many keys a behaviour may make.
KeysAreLeft == KeyIds \ (encryption.items \cup {encryption.key}) # {}
FreshEncryptionKey == CHOOSE k \in KeyIds : k \notin encryption.items \cup {encryption.key}

\* loadOrCreate in two steps on macOS; a process that dies between them leaves
\* an item no metadata names.
CreateEncryptionItem(k) == encryption' = [encryption EXCEPT !.items = @ \cup {k}]

CreateEncryptionRecord(h, k) == encryption' = [encryption EXCEPT !.host = h, !.key = k]

ReplaceEncryptionLinux(h) ==
  /\ platform = "linux"
  /\ encryption' = [encryption EXCEPT !.host = h, !.key = FreshEncryptionKey]
  /\ Go("enc-commit")

\* replaceForReset: the previous accounts are those of the state it loads.
WriteEncryptionSentinel(op, h) ==
  /\ platform = "darwin"
  /\ EncryptionStatus(encryption) # "broken"
  /\ encryption' = [encryption EXCEPT !.reset =
       [op |-> op, host |-> h, key |-> FreshEncryptionKey, previous |-> {encryption.key} \ {0}]]
  /\ Go("enc-item")

WriteEncryptionItem ==
  /\ cli.at = "enc-item"
  /\ encryption' = [encryption EXCEPT !.items = @ \cup {encryption.reset.key}]
  /\ Go("enc-meta")

WriteEncryptionMetadata ==
  /\ cli.at = "enc-meta"
  /\ encryption' = [encryption EXCEPT !.host = encryption.reset.host, !.key = encryption.reset.key]
  /\ Go("enc-previous")

DeletePreviousEncryptionItems ==
  /\ cli.at = "enc-previous"
  /\ encryption' = [encryption EXCEPT !.items = @ \ (encryption.reset.previous \ {encryption.reset.key})]
  /\ Go("enc-commit")

CompleteEncryptionReset(op) ==
  /\ cli.at = "enc-complete"
  /\ encryption.reset # None => encryption.reset.op = op
  /\ encryption' = [encryption EXCEPT !.reset = None]
  /\ Go("clear-keyring")

SigningStep ==
  \/ CreateFirstRunItem \/ CreateFirstRunIndex \/ CreateFirstRunMetadata \/ CreateFirstRunRollback
  \/ DeleteCreationSentinel
  \/ WriteCandidateItem \/ WriteIndexItem \/ WriteProfileMetadata
  \/ DeletePreviousItem \/ DeleteInterruptedItem \/ ClearCreationSentinel

EncryptionStep == WriteEncryptionItem \/ WriteEncryptionMetadata \/ DeletePreviousEncryptionItems

===========================================================================
