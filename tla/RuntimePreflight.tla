------------------------- MODULE RuntimePreflight -------------------------
(***************************************************************************)
(* The start of the Bridge's runtime: BridgeStateStore.preflightRuntime    *)
(* (state-store.ts) with the reset and migration of state-store/           *)
(* runtime-reset.ts, the schema recognisers of state-store/state-codec.ts  *)
(* and the spool key stores of e2e/local-spool.ts.                         *)
(*                                                                         *)
(* The runtime is two files, the state and the encrypted spool.  Files of  *)
(* schema 1 and 2 are thrown away (a reset, one schema at a time), files   *)
(* of schema 3 are carried over to schema 4 (the migration), and the       *)
(* schema floor then says that nothing older may ever be opened again.     *)
(* Both workflows replace several files one after the other under an       *)
(* intent file that binds the exact source and target of each: a process   *)
(* may die after every write, and the next start resumes the intent.       *)
(*                                                                         *)
(* A file is a record of what the recognisers tell apart: its schema, the  *)
(* Host it is bound to, the runtime epoch, the spool key and, for the      *)
(* state, a revision that stands for the session revisions the Relay has   *)
(* seen.  Equality of records is the code's equality of file hashes.       *)
(***************************************************************************)
EXTENDS Naturals, FiniteSets

CONSTANTS
  Hosts,      \* the Host ids a profile may have, one after the other
  None,       \* an absent file, or a Host a file does not name
  MaxRev      \* bound: how often the running daemon raises a revision

VARIABLES
  platform,   \* "linux" or "darwin", which decides how the spool key is kept
  disk,       \* the runtime's files
  boot        \* the daemon process: where it is and for which Host it runs

runtimeVars == <<platform, disk, boot>>

Schemas == 1 .. 4
Current == 4
\* Epochs and key ids are random; a fresh one differs from the ones on disk.
Ids == 1 .. 4
Standalone == 0     \* the epoch of a spool written before there were epochs

StateFile == [v : Schemas, host : Hosts \cup {None}, epoch : Ids \cup {Standalone}, rev : 0 .. MaxRev]
SpoolFile == [v : Schemas, host : Hosts, epoch : Ids \cup {Standalone}, key : Ids]
ResetIntent == [host : Hosts, from : {1, 2}, epoch : Ids, key : Ids,
                state : StateFile \cup {None}, spool : SpoolFile \cup {None}]
MigrationIntent == [host : Hosts, state : StateFile, spool : SpoolFile]

SpoolKeys == [host : Hosts, id : Ids]

\* key is the key's file: the key itself on Linux, its evidence on macOS, where
\* the keys are Keychain items, one account per Host (0: no item).
Disk == [state : StateFile \cup {None}, spool : SpoolFile \cup {None},
         floor : Hosts \cup {None},
         reset : ResetIntent \cup {None}, migration : MigrationIntent \cup {None},
         key : SpoolKeys \cup {None}, items : [Hosts -> Ids \cup {0}]]

Places == {"off", "spawned", "guarded", "locked", "preflight", "key", "intent",
           "reset-spool", "reset-state", "reset-done",
           "migration", "migrate-spool", "migrate-state", "migrate-floor", "migrate-done",
           "floor", "open", "encrypt", "encrypt-record", "up", "refused"}
Boot == [at : Places, host : Hosts \cup {None}, from : {0, 1, 2}, resumed : BOOLEAN, key : 0 .. 5]

Off == [at |-> "off", host |-> None, from |-> 0, resumed |-> FALSE, key |-> 0]
Goto(place) == boot' = [boot EXCEPT !.at = place]

---------------------------------------------------------------------------
(* The spool key stores                                                    *)

\* loadOrCreate finds the key: its file names the Host and, on macOS, the item.
KeyReady(d, h) ==
  /\ d.key # None
  /\ d.key.host = h
  /\ platform = "darwin" => d.items[h] = d.key.id

FreshId(used) == CHOOSE n \in Ids : n \notin used
KeysInUse(d) == {d.items[h] : h \in Hosts} \cup (IF d.spool = None THEN {} ELSE {d.spool.key})
IdsAreLeft(d) == Ids \ KeysInUse(d) # {}     \* Ids bounds how many spool keys there may be
FreshKey(d) == FreshId(KeysInUse(d))

\* Linux writes one exclusive file; on macOS the item is added first and its
\* evidence file second, and an item without evidence is adopted.
CreateSpoolKey(h) ==
  /\ disk.key = None /\ IdsAreLeft(disk)
  /\ LET id == IF disk.items[h] = 0 THEN FreshKey(disk) ELSE disk.items[h] IN
     disk' = IF platform = "darwin" /\ disk.items[h] = 0
             THEN [disk EXCEPT !.items[h] = id]
             ELSE [disk EXCEPT !.key = [host |-> h, id |-> id]]

---------------------------------------------------------------------------
(* Recognising the files                                                   *)

\* An empty state names no Host and fits every one.
StateOf(s, v, h) == s # None /\ s.v = v /\ s.host \in {None, h}

IsSpoolRecordForSchema(p, v, h, epoch) == p # None /\ p.v = v /\ p.host = h /\ p.epoch = epoch

PairOf(d, v, h) == StateOf(d.state, v, h) /\ IsSpoolRecordForSchema(d.spool, v, h, d.state.epoch)

\* Schema 1, or a spool of schema 2 from before there were epochs.
IsRecognizedPriorSpoolRecord(p, h) == p.host = h /\ (p.v = 1 \/ (p.v = 2 /\ p.epoch = Standalone))

IsRecognizedLegacyRuntime(d, h) ==
  /\ d.state # None => StateOf(d.state, 1, h)
  /\ d.spool # None => IsRecognizedPriorSpoolRecord(d.spool, h)

---------------------------------------------------------------------------
(* The targets of a reset and of a migration                               *)

ResetState(i) == [v |-> i.from + 1, host |-> None, epoch |-> i.epoch, rev |-> 0]
ResetSpool(i) == [v |-> i.from + 1, host |-> i.host, epoch |-> i.epoch, key |-> i.key]

\* Sessions, their revisions and the recipient set are carried over; Events,
\* handles and executions are dropped.
MigrateStateV3ToV4(s) == [s EXCEPT !.v = Current]
MigrateSpoolV3ToV4(p) == [p EXCEPT !.v = Current]

\* Mutant: only the recorded sources are taken for a reset in progress.
ResetFromSourceOnly(d, h) ==
  /\ d.reset.host = h /\ d.state = d.reset.state /\ d.spool = d.reset.spool
  /\ KeyReady(d, h) /\ d.key.id = d.reset.key

\* Every file is still the recorded source or already the target.
ResetResumable(d, h) ==
  LET i == d.reset IN
  /\ i.host = h
  /\ d.state \in {i.state, ResetState(i)}
  /\ d.spool \in {i.spool, ResetSpool(i)}
  /\ KeyReady(d, h)
  /\ d.key.id = i.key

MigrationResumable(d, h) ==
  LET i == d.migration IN
  /\ i.host = h
  /\ d.state \in {i.state, MigrateStateV3ToV4(i.state)}
  /\ d.spool \in {i.spool, MigrateSpoolV3ToV4(i.spool)}
  /\ d.floor \in {None, h}

---------------------------------------------------------------------------
(* preflightRuntime: what the files call for, in the order the code asks   *)

Verdict(d, h) ==
  IF d.migration # None THEN IF MigrationResumable(d, h) THEN "migrate-spool" ELSE "refused"
  ELSE IF d.floor \notin {None, h} THEN "refused"
  ELSE IF d.reset # None THEN IF d.floor = None /\ ResetResumable(d, h) THEN "reset-spool" ELSE "refused"
  ELSE IF d.floor = h THEN IF PairOf(d, Current, h) THEN "open" ELSE "refused"
  ELSE IF d.state # None /\ d.state.v = Current THEN IF PairOf(d, Current, h) THEN "floor" ELSE "refused"
  ELSE IF PairOf(d, 3, h) THEN "migration"
  ELSE IF (d.state = None /\ d.spool = None) \/ PairOf(d, 2, h) \/ IsRecognizedLegacyRuntime(d, h) THEN "key"
  ELSE "refused"

\* A fresh runtime is built as an empty schema 2 one would be.
ResetFrom(d) == IF (d.state = None /\ d.spool = None) \/ PairOf(d, 2, boot.host) THEN 2 ELSE 1

PreflightRuntime ==
  /\ boot.at = "preflight"
  /\ LET verdict == Verdict(disk, boot.host) IN
     boot' = [boot EXCEPT !.at = verdict,
                          !.from = IF verdict = "key" THEN ResetFrom(disk) ELSE 0,
                          !.resumed = verdict = "migrate-spool"]
  /\ UNCHANGED disk

\* beginRuntimeReset: the key is loaded, or created where there is no spool yet.
BeginResetKey ==
  /\ boot.at = "key"
  /\ \/ /\ ~KeyReady(disk, boot.host)
        /\ disk.spool = None
        /\ CreateSpoolKey(boot.host)
        /\ UNCHANGED boot
     \/ /\ ~KeyReady(disk, boot.host)
        /\ disk.spool # None \/ disk.key # None
        /\ Goto("refused")
        /\ UNCHANGED disk
     \/ /\ KeyReady(disk, boot.host)
        /\ IF disk.spool # None /\ disk.spool.v # 1 /\ disk.spool.key # disk.key.id
           THEN Goto("refused") ELSE Goto("intent")
        /\ UNCHANGED disk

BeginRuntimeReset ==
  /\ boot.at = "intent"
  /\ disk' = [disk EXCEPT !.reset =
       [host |-> boot.host, from |-> boot.from, key |-> disk.key.id,
        epoch |-> FreshId({x.epoch : x \in {disk.state, disk.spool} \ {None}}),
        state |-> disk.state, spool |-> disk.spool]]
  /\ Goto("reset-spool")

\* finishRuntimeReset, one durable write a step.
ReplaceSpool ==
  /\ boot.at = "reset-spool"
  /\ disk' = [disk EXCEPT !.spool = ResetSpool(disk.reset)]
  /\ Goto("reset-state")

ReplaceState ==
  /\ boot.at = "reset-state"
  /\ disk' = [disk EXCEPT !.state = ResetState(disk.reset)]
  /\ Goto("reset-done")

RemoveResetIntent ==
  /\ boot.at = "reset-done"
  /\ disk' = [disk EXCEPT !.reset = None]
  /\ Goto("preflight")

BeginRuntimeMigration ==
  /\ boot.at = "migration"
  /\ disk' = [disk EXCEPT !.migration = [host |-> boot.host, state |-> disk.state, spool |-> disk.spool]]
  /\ Goto("migrate-spool")

\* finishRuntimeMigration: spool, state, floor, and the intent goes last.
MigrateSpool ==
  /\ boot.at = "migrate-spool"
  /\ disk' = [disk EXCEPT !.spool = MigrateSpoolV3ToV4(disk.migration.spool)]
  /\ Goto("migrate-state")

MigrateState ==
  /\ boot.at = "migrate-state"
  /\ disk' = [disk EXCEPT !.state = MigrateStateV3ToV4(disk.migration.state)]
  /\ Goto("migrate-floor")

MigrateFloor ==
  /\ boot.at = "migrate-floor"
  /\ disk' = [disk EXCEPT !.floor = boot.host]
  /\ Goto("migrate-done")

RemoveMigrationIntent ==
  /\ boot.at = "migrate-done"
  /\ disk' = [disk EXCEPT !.migration = None]
  /\ Goto(IF boot.resumed THEN "open" ELSE "preflight")

\* A current pair without a floor gets one.
EstablishFloor ==
  /\ boot.at = "floor"
  /\ disk' = [disk EXCEPT !.floor = boot.host]
  /\ Goto("open")

\* initializeEncryptedSpool: the spool is loaded and its key verified; what it
\* then reconciles is the subject of EventSpool.
OpenSpool ==
  /\ boot.at = "open"
  /\ Goto(IF PairOf(disk, Current, boot.host) /\ KeyReady(disk, boot.host) /\ disk.key.id = disk.spool.key
          THEN "encrypt" ELSE "refused")
  /\ UNCHANGED disk

\* The running daemon names its Host in the state and raises revisions.
Work ==
  /\ boot.at = "up"
  /\ disk.state.rev < MaxRev
  /\ disk' = [disk EXCEPT !.state = [disk.state EXCEPT !.host = boot.host, !.rev = disk.state.rev + 1]]
  /\ UNCHANGED boot

PreflightStep ==
  \/ PreflightRuntime \/ BeginResetKey \/ BeginRuntimeReset
  \/ ReplaceSpool \/ ReplaceState \/ RemoveResetIntent
  \/ BeginRuntimeMigration \/ MigrateSpool \/ MigrateState \/ MigrateFloor \/ RemoveMigrationIntent
  \/ EstablishFloor \/ OpenSpool \/ Work

---------------------------------------------------------------------------
(* The files a profile of Host h may have when the model starts: none, or  *)
(* those an earlier release left, with their key.                          *)

NoFiles == [state |-> None, spool |-> None, floor |-> None, reset |-> None, migration |-> None,
            key |-> None, items |-> [h \in Hosts |-> 0]]

WithKey(h, d) == [d EXCEPT !.key = [host |-> h, id |-> 1],
                           !.items[h] = IF platform = "darwin" THEN 1 ELSE 0]

\* Where an older release left off: schema v with revision 1.
LeftBy(h, v) ==
  LET epoch == IF v = 1 THEN Standalone ELSE 1 IN
  WithKey(h, [NoFiles EXCEPT !.state = [v |-> v, host |-> h, epoch |-> epoch, rev |-> 1],
                             !.spool = [v |-> v, host |-> h, epoch |-> epoch, key |-> 1]])

InitialDisks(h) ==
  {NoFiles} \cup {LeftBy(h, v) : v \in Schemas}
  \cup {[LeftBy(h, 1) EXCEPT !.spool = None], [LeftBy(h, 1) EXCEPT !.state = None],
        [LeftBy(h, 1) EXCEPT !.spool.v = 2], [LeftBy(h, Current) EXCEPT !.floor = h]}

===========================================================================
