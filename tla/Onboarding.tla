----------------------------- MODULE Onboarding -----------------------------
(***************************************************************************)
(* The commands that install, converge, upgrade and remove a Host: `ariava *)
(* setup', `upgrade', `init', `service ...', `install/remove pi', `dev     *)
(* bridge use' and `uninstall'.  Each is a process that works off a list   *)
(* of steps, one durable change or one decision per step; processes        *)
(* interleave, fail at a step and are interrupted between steps.  Only     *)
(* setups exclude each other, by the bootstrap and the onboarding lock.    *)
(***************************************************************************)
EXTENDS ServiceManager

CONSTANTS
    Foreign,        \* another service backend, a Pi source of other origin
    Cli,            \* command processes
    Latest,         \* the version npm calls latest; versions count from 1
    MaxEvents       \* bound: commands started (one that overlaps another counts
                    \* four times), failures, interruptions, daemon deaths, logins, switches

ASSUME OnboardingBounds ==
    Latest \in Nat \ {0} /\ MaxEvents \in Nat

\* A service record names a path and the manager that installed it there.
Records == [path : Paths, backend : {"launchd", "systemd-user", Foreign}]

ASSUME OnboardingNames ==
    None \notin Paths \cup Records /\ Foreign \notin {"launchd", "systemd-user"}

VARIABLES
    prefix,      \* npm's global prefix: the path the shell's ariava runs from
    meta,        \* install.json: [service, installer, source, pi]
    host,        \* [id, named, enc]: identity, its entry in the config, encryption identity
    pi,          \* [present, src, man]: Pi, its registered source, its package
    cli,         \* cli[p]: the command process p runs
    events,      \* counted towards the bound
    messy        \* history: a command failed midway, or met another unlocked

onboardingVars ==
    <<backend, os, disk, prefix, meta, host, pi, cli, events, messy>>

NoHost == [id |-> FALSE, named |-> FALSE, enc |-> FALSE]
HostReady == host.id /\ host.named /\ host.enc
NoMeta == [service |-> None, installer |-> None, source |-> None, pi |-> None]
Idle == [cmd |-> "idle", todo |-> <<>>, path |-> None, ver |-> 0, npx |-> FALSE,
         target |-> FALSE, meta |-> NoMeta, clean |-> TRUE, cause |-> {},
         kept |-> FALSE, result |-> None]

Live(p) == cli[p].todo # <<>>
\* Production metadata that a `dev' command has pointed at a repository.
Contaminated == meta.source = "dev"
IdentityTorn == host.id /\ ~host.enc
Ours == IF meta.service = None THEN FALSE ELSE meta.service.backend = backend
Record(path) == [path |-> path, backend |-> backend]

-----------------------------------------------------------------------------
(* What a command finds in its way when it starts, and cannot be expected  *)
(* to overcome.                                                            *)

ObstacleNames == {"contaminated", "identity", "backend", "no-pi", "pi-foreign", "pi-broken",
                  "not-installed", "no-config", "dangling", "orphan"}
Obstructs(o, ver) ==
    CASE o = "contaminated" -> Contaminated
      [] o = "identity" -> IdentityTorn
      [] o = "backend" -> meta.service # None /\ ~Ours
      [] o = "no-pi" -> ~pi.present
      [] o = "pi-foreign" -> pi.src = Foreign
      [] o = "pi-broken" -> pi.src = ver /\ pi.man # ver
      [] o = "not-installed" -> ~Status(meta.service).installed
      [] o = "no-config" -> ~host.named
      [] o = "dangling" -> os.enabled /\ os.defn = None
      [] o = "orphan" -> /\ backend # "launchd" /\ os.defn = None
                         /\ os.proc # None \/ os.wanted
Obstacles(ver) == {o \in ObstacleNames : Obstructs(o, ver)}

-----------------------------------------------------------------------------
(* Starting a command.                                                     *)

Plan(cmd) ==
    CASE cmd = "setup" -> <<"detect", "stable-cli", "lock", "host-init", "installer",
                            "bridge-service", "wait", "health", "adapter", "readiness">>
      [] cmd = "upgrade" -> <<"self-upgrade", "up-service", "converge-pi">>
      [] cmd = "init" -> <<"identity", "identity-config", "encryption">>
      [] cmd = "service-install" -> <<"svc-install">>
      [] cmd = "service-uninstall" -> <<"svc-uninstall">>
      [] cmd = "service-start" -> <<"svc-start">>
      [] cmd = "service-restart" -> <<"svc-restart">>
      [] cmd = "service-stop" -> <<"svc-stop">>
      [] cmd = "install-pi" -> <<"converge-pi">>
      [] cmd = "remove-pi" -> <<"pi-remove", "merge-no-pi">>
      [] cmd = "dev-bridge" -> <<"merge-dev">>
      [] cmd \in {"uninstall", "uninstall-pi", "purge"} -> <<"uninstall">>

Happens(weight) == events + weight <= MaxEvents /\ events' = events + weight

CommandNames == {"setup", "upgrade", "init", "service-install", "service-uninstall",
             "service-start", "service-restart", "service-stop", "install-pi",
             "remove-pi", "dev-bridge", "uninstall", "uninstall-pi", "purge"}

\* Without a systemd user manager (no session bus, WSL without systemd)
\* what would touch the service refuses to begin; an upgrade passes over it.
NeedsService(cmd) ==
    \/ cmd \in {"setup", "init", "service-install", "service-uninstall", "service-start",
                "service-restart", "service-stop"}
    \/ cmd \in {"uninstall", "uninstall-pi", "purge"} /\ (meta.service # None => Ours)
PlanFor(cmd, supported) ==
    CASE supported -> Plan(cmd)
      [] NeedsService(cmd) -> <<"unsupported">>
      [] cmd = "upgrade" -> <<"self-upgrade", "converge-pi">>
      [] OTHER -> Plan(cmd)

\* Setup may be run through npx, as the latest version and from nowhere
\* stable; every other command is the installed CLI of the prefix.
StartCommand(p) ==
    LET others == {q \in Cli \ {p} : Live(q)} IN
    /\ ~Live(p)
    /\ p = CHOOSE q \in Cli : ~Live(q)
    /\ Happens(IF others = {} THEN 1 ELSE 4)
    /\ \E cmd \in CommandNames, npx, target, supported \in BOOLEAN :
        /\ backend = "launchd" => supported
        /\ npx => cmd = "setup"
        /\ ~npx => disk[prefix] # 0
        /\ target => cmd = "setup"
        /\ LET ver == IF npx THEN Latest ELSE disk[prefix]
           IN cli' = [q \in Cli |->
                  IF q = p
                  THEN [Idle EXCEPT !.cmd = cmd, !.todo = PlanFor(cmd, supported),
                                    !.npx = npx,
                                    !.path = IF npx THEN None ELSE prefix,
                                    !.ver = ver, !.target = target,
                                    !.clean = (others = {}),
                                    !.cause = Obstacles(ver) \cup
                                        (IF supported THEN {} ELSE {"unsupported"})]
                  ELSE IF Live(q) THEN [cli[q] EXCEPT !.clean = FALSE] ELSE Idle]
        /\ messy' = (messy \/ \E q \in others : {cmd, cli[q].cmd} # {"setup"})
    /\ UNCHANGED <<backend, os, disk, prefix, meta, host, pi>>

-----------------------------------------------------------------------------
(* Steps.  A step ends with the rest of the list, with more steps before   *)
(* it, or with the command over.                                           *)

Rest(p) == Tail(cli[p].todo)
Ends(p, result) == cli' = [cli EXCEPT ![p] = [Idle EXCEPT !.result = result]]
Goes(p, todo) == IF todo = <<>> THEN Ends(p, "done") ELSE cli' = [cli EXCEPT ![p].todo = todo]
At(p, step) == Live(p) /\ Head(cli[p].todo) = step

\* It goes on and reports whether it leaves the daemon as it found it.
Keeping(p, todo, kept) == cli' = [cli EXCEPT ![p].todo = todo, ![p].kept = kept]

\* An upgrade whose restart fails goes on, and reports the service as not restarted.
Restarts(p) == /\ Live(p) /\ cli[p].cmd = "upgrade"
               /\ Head(cli[p].todo) \in {"kickstart-k", "restart"}
NotRestarted(p) == Keeping(p, Rest(p), TRUE)

\* One step of a service manager's operation.
ServiceStep(p) ==
    /\ Live(p)
    /\ LET step == Head(cli[p].todo) IN
       /\ step \in ServiceSteps
       /\ IF StepSucceeds(step)
          THEN os' = StepEffect(step, cli[p].path) /\ Goes(p, Rest(p))
          ELSE os' = os /\ IF Restarts(p) THEN NotRestarted(p) ELSE Ends(p, "failed")
    /\ UNCHANGED <<backend, disk, prefix, meta, host, pi, events, messy>>

Refuse(p) ==
    /\ At(p, "unsupported")
    /\ Ends(p, "unsupported")
    /\ UNCHANGED <<backend, os, disk, prefix, meta, host, pi, events, messy>>

(* setup *)

\* detectOnboardingEnvironment refuses production evidence that points to a
\* development source.
Detect(p) ==
    /\ At(p, "detect")
    /\ CASE Contaminated -> Ends(p, "contaminated")
         [] ~Contaminated /\ cli[p].target /\ ~pi.present -> Ends(p, "no-pi")
         [] OTHER -> Goes(p, Rest(p))
    /\ UNCHANGED <<backend, os, disk, prefix, meta, host, pi, events, messy>>

\* bootstrapStableCli: the CLI of exactly this version under the prefix is
\* used, and installed there when it is not; an npx parent holds the
\* version's lock until its stable child has ended.
BootstrapLocked(p) == \E q \in Cli \ {p} :
    Live(q) /\ cli[q].cmd = "setup" /\ cli[q].npx /\ cli[q].ver = cli[p].ver /\ cli[q].path # None
proveStableCli(p) == cli[p].path = prefix /\ disk[prefix] = cli[p].ver
StableCli(p) ==
    /\ At(p, "stable-cli")
    /\ IF BootstrapLocked(p)
       THEN Ends(p, "locked") /\ UNCHANGED disk
       ELSE /\ disk' = [disk EXCEPT ![prefix] = cli[p].ver]
            /\ cli' = [cli EXCEPT ![p].path = prefix, ![p].todo = Rest(p),
                                  ![p].npx = @ \/ ~proveStableCli(p)]
    /\ UNCHANGED <<backend, os, prefix, meta, host, pi, events, messy>>

\* Mutant: the onboarding lock covers the identity only.
HoldsLockForIdentity(q) == Live(q) /\ cli[q].cmd = "setup" /\ Head(cli[q].todo) = "host-init"

\* The onboarding lock, until setup ends.
HoldsOnboardingLock(q) ==
    /\ Live(q) /\ cli[q].cmd = "setup"
    /\ Head(cli[q].todo) \notin {"unsupported", "detect", "stable-cli", "lock"}
AcquireLock(p) ==
    /\ At(p, "lock")
    /\ IF \E q \in Cli : HoldsOnboardingLock(q) THEN Ends(p, "locked") ELSE Goes(p, Rest(p))
    /\ UNCHANGED <<backend, os, disk, prefix, meta, host, pi, events, messy>>

\* decideOnboardingHostState: an identity without its encryption identity is
\* refused, never completed.
HostInit(p) ==
    /\ At(p, "host-init")
    /\ CASE HostReady -> Goes(p, Rest(p))
         [] IdentityTorn -> Ends(p, "identity")
         [] OTHER -> Goes(p, Plan("init") \o Rest(p))
    /\ UNCHANGED <<backend, os, disk, prefix, meta, host, pi, events, messy>>

\* initializeProfile: the identity, the configuration that names it and the
\* encryption identity, each kept when it is there.
Initialize(p) ==
    /\ \/ At(p, "identity") /\ host' = [host EXCEPT !.id = TRUE]
       \/ At(p, "identity-config") /\ host' = [host EXCEPT !.named = TRUE]
       \/ At(p, "encryption") /\ host' = [host EXCEPT !.enc = TRUE]
    /\ Goes(p, Rest(p))
    /\ UNCHANGED <<backend, os, disk, prefix, meta, pi, events, messy>>

\* proposeStableInstallerMetadata: the metadata is loaded here, and every
\* later save of this setup writes this copy back.
RecordInstaller(p) ==
    /\ At(p, "installer")
    /\ LET copy == [meta EXCEPT !.installer = cli[p].path,
                                !.source = IF @ = None THEN "release" ELSE @]
       IN /\ meta' = copy
          /\ cli' = [cli EXCEPT ![p].meta = copy, ![p].todo = Rest(p)]
    /\ UNCHANGED <<backend, os, disk, prefix, host, pi, events, messy>>

releaseOwnershipProven(p) ==
    cli[p].meta.installer = cli[p].path /\ cli[p].meta.source # "dev"

\* reconcileOnboardingService: reuse what is fully ready, install what is
\* missing or recorded for other paths or another configuration and identity,
\* start what is not running.
BridgeService(p) ==
    /\ At(p, "bridge-service")
    /\ \E references \in BOOLEAN :
       LET existing == cli[p].meta.service
           status == Status(existing)
           matches == references /\ status.path = cli[p].path
       IN CASE existing # None /\ existing.backend # backend -> Ends(p, "backend")
            [] matches /\ serviceStatusReady(status) -> Keeping(p, Tail(Rest(p)), TRUE)
            [] existing # None /\ ~matches /\ ~releaseOwnershipProven(p) -> Ends(p, "ownership")
            [] ~matches \/ ~status.installed \/ ~status.enabled \/ ~status.loaded ->
                 Goes(p, InstallService \o <<"save-service", "start-if-down">> \o Rest(p))
            [] OTHER -> Goes(p, <<"start-if-down">> \o Rest(p))
    /\ UNCHANGED <<backend, os, disk, prefix, meta, host, pi, events, messy>>

SaveService(p) ==
    /\ At(p, "save-service")
    /\ LET copy == [cli[p].meta EXCEPT !.service = Record(cli[p].path)]
       IN /\ meta' = copy
          /\ cli' = [cli EXCEPT ![p].meta = copy, ![p].todo = Rest(p)]
    /\ UNCHANGED <<backend, os, disk, prefix, host, pi, events, messy>>

StartIfDown(p) ==
    /\ At(p, "start-if-down")
    /\ IF Status(cli[p].meta.service).running THEN Goes(p, Rest(p))
       ELSE IF backend # "launchd" /\ os.defn = None THEN Ends(p, "failed")
       ELSE Goes(p, StartService \o Rest(p))
    /\ UNCHANGED <<backend, os, disk, prefix, meta, host, pi, events, messy>>

\* waitForReadyService polls the status for ten seconds.
WaitReady(p) ==
    /\ At(p, "wait")
    /\ IF serviceStatusReady(Status(cli[p].meta.service)) THEN Goes(p, Rest(p))
       ELSE Ends(p, "not-ready")
    /\ UNCHANGED <<backend, os, disk, prefix, meta, host, pi, events, messy>>

\* proveBridgeHealth: a daemon answers for this Host within ten seconds.
BridgeHealth(p) ==
    /\ At(p, "health")
    /\ IF os.proc # None /\ HostReady THEN Goes(p, Rest(p)) ELSE Ends(p, "not-ready")
    /\ UNCHANGED <<backend, os, disk, prefix, meta, host, pi, events, messy>>

\* ensureExactPiPackage, as setup and the Pi commands use it: an exact
\* registration is reused and never repaired, a foreign one refused.
inspectPiPackage(ver) ==
    CASE pi.src = None -> "absent"
      [] pi.src = Foreign -> "unmanaged"
      [] pi.src = ver -> IF pi.man = ver THEN "managed-exact" ELSE "mismatch"
      [] OTHER -> "managed-upgrade"

ensureExactPiPackage(ver) ==
    LET before == inspectPiPackage(ver)
    IN CASE before = "managed-exact" -> "reused"
         [] before = "unmanaged" -> "pi-foreign"
         [] before = "mismatch" -> "pi-broken"
         [] ~pi.present -> "no-pi"
         [] OTHER -> "install"

Adapter(p) ==
    /\ At(p, "adapter")
    /\ LET verdict == ensureExactPiPackage(cli[p].ver)
       IN CASE ~cli[p].target -> Goes(p, Rest(p))
            [] ~pi.present -> Ends(p, "no-pi")
            [] verdict = "reused" -> Goes(p, Rest(p))
            [] verdict = "install" -> Goes(p, <<"pi-install", "save-pi">> \o Rest(p))
            [] OTHER -> Ends(p, verdict)
    /\ UNCHANGED <<backend, os, disk, prefix, meta, host, pi, events, messy>>

SavePi(p) ==
    /\ At(p, "save-pi")
    /\ meta' = [cli[p].meta EXCEPT !.pi = cli[p].ver]
    /\ Goes(p, Rest(p))
    /\ UNCHANGED <<backend, os, disk, prefix, host, pi, events, messy>>

\* The metadata of this setup names its CLI, the record's paths are its own,
\* and the Host is complete.
EvidenceMatches(p) ==
    /\ cli[p].meta.installer = cli[p].path
    /\ Status(meta.service).path = cli[p].path
    /\ HostReady

\* checkStrictOnboardingReadiness: the service status of the metadata as it
\* is now; the Pi status is the one the installation returned.
Readiness(p) ==
    /\ At(p, "readiness")
    /\ IF serviceStatusReady(Status(meta.service)) /\ EvidenceMatches(p)
       THEN Ends(p, "ready") ELSE Ends(p, "not-ready")
    /\ UNCHANGED <<backend, os, disk, prefix, meta, host, pi, events, messy>>

(* the commands that take no lock *)

\* runSelfUpgradeAndReenter: npm installs the latest version under the
\* prefix, and the same path is run again.
SelfUpgrade(p) ==
    /\ At(p, "self-upgrade")
    /\ disk' = [disk EXCEPT ![prefix] = Latest]
    /\ cli' = [cli EXCEPT ![p].todo = Rest(p), ![p].ver = disk'[cli[p].path]]
    /\ UNCHANGED <<backend, os, prefix, meta, host, pi, events, messy>>

\* reconcileServiceInstall of an upgrade, which may be told to leave the daemon
\* alone (ARIAVA_UPGRADE_SKIP_SERVICE_RESTART), and `service install'.
ServiceInstall(p) ==
    /\ \/ /\ At(p, "up-service")
          /\ CASE ~Status(meta.service).installed -> Goes(p, Rest(p))
               [] ~host.named -> Ends(p, "failed")
               [] OTHER -> \E skip \in BOOLEAN :
                    Keeping(p, InstallService \o <<"merge-service">>
                                 \o (IF skip THEN <<>> ELSE RestartService) \o Rest(p), skip)
       \/ /\ At(p, "svc-install")
          /\ IF ~host.named THEN Ends(p, "failed") ELSE Goes(p, InstallService \o <<"merge-service">>)
    /\ UNCHANGED <<backend, os, disk, prefix, meta, host, pi, events, messy>>

\* mergeInstallMetadata: the file as it is now, with the patch.
MergeService(p) ==
    /\ At(p, "merge-service")
    /\ meta' = [meta EXCEPT !.service = Record(cli[p].path), !.installer = cli[p].path,
                            !.source = IF @ = None THEN "release" ELSE @]
    /\ Goes(p, Rest(p))
    /\ UNCHANGED <<backend, os, disk, prefix, host, pi, events, messy>>

\* The other service commands decide from the metadata they load.
ServiceCommand(p) ==
    /\ LET record == meta.service
           status == Status(record)
       IN \/ /\ At(p, "svc-uninstall")
             /\ CASE Ours -> Goes(p, UninstallService \o <<"merge-no-service">>)
                  [] record = None -> Goes(p, UninstallService)
                  [] OTHER -> Ends(p, "done")
          \/ At(p, "svc-start") /\ IF status.installed THEN Goes(p, StartService) ELSE Ends(p, "failed")
          \/ At(p, "svc-restart") /\ IF status.installed THEN Goes(p, RestartService) ELSE Ends(p, "failed")
          \/ At(p, "svc-stop") /\ IF status.loaded THEN Goes(p, StopService) ELSE Ends(p, "done")
    /\ UNCHANGED <<backend, os, disk, prefix, meta, host, pi, events, messy>>

\* runUninstallCommand saves the copy it loaded before it began.
Uninstalls(p) ==
    /\ At(p, "uninstall")
    /\ LET foreign == meta.service # None /\ ~Ours
           todo == (IF foreign THEN <<>> ELSE UninstallService)
                   \o (IF cli[p].cmd = "uninstall" THEN <<>> ELSE <<"pi-remove">>)
                   \o (IF cli[p].cmd = "purge" THEN <<"purge">> ELSE <<"save-uninstalled">>)
           copy == [meta EXCEPT !.service = IF foreign THEN @ ELSE None,
                                !.pi = IF cli[p].cmd = "uninstall" THEN @ ELSE None]
       IN cli' = [cli EXCEPT ![p].todo = todo, ![p].meta = copy]
    /\ UNCHANGED <<backend, os, disk, prefix, meta, host, pi, events, messy>>

WriteMetadata(p) ==
    /\ \/ At(p, "merge-no-service") /\ meta' = [meta EXCEPT !.service = None] /\ host' = host
       \/ At(p, "merge-no-pi") /\ meta' = [meta EXCEPT !.pi = None] /\ host' = host
       \/ At(p, "merge-pi") /\ meta' = [meta EXCEPT !.pi = cli[p].ver] /\ host' = host
       \/ At(p, "merge-dev") /\ meta' = [meta EXCEPT !.source = "dev"] /\ host' = host
       \/ At(p, "save-uninstalled") /\ meta' = cli[p].meta /\ host' = host
       \/ At(p, "purge") /\ meta' = NoMeta /\ host' = NoHost
    /\ Goes(p, Rest(p))
    /\ UNCHANGED <<backend, os, disk, prefix, pi, events, messy>>

ConvergePi(p) ==
    /\ At(p, "converge-pi")
    /\ LET verdict == ensureExactPiPackage(cli[p].ver)
       IN CASE verdict = "reused" -> Goes(p, <<"merge-pi">> \o Rest(p))
            [] verdict = "install" -> Goes(p, <<"pi-install", "merge-pi">> \o Rest(p))
            [] OTHER -> Ends(p, "failed")
    /\ UNCHANGED <<backend, os, disk, prefix, meta, host, pi, events, messy>>

\* `pi install' and `pi remove', and the check of what they left.
PiRemoved == IF pi.src \in {None, Foreign} THEN pi ELSE [pi EXCEPT !.src = None, !.man = 0]
PiCommand(p) ==
    /\ \/ At(p, "pi-install") /\ pi' = [pi EXCEPT !.src = cli[p].ver, !.man = cli[p].ver]
       \/ At(p, "pi-remove") /\ pi' = PiRemoved
    /\ Goes(p, Rest(p))
    /\ UNCHANGED <<backend, os, disk, prefix, meta, host, events, messy>>

-----------------------------------------------------------------------------
(* Faults and the rest of the world.  All of them disturb the commands     *)
(* that are running.                                                       *)

Disturbed == [q \in Cli |-> IF Live(q) THEN [cli[q] EXCEPT !.clean = FALSE] ELSE Idle]
Fault == Happens(1)

\* A step fails, the user interrupts, the process is killed: the command
\* ends where it is.  An interrupted `pi install' may have registered the
\* source without its package.
Interrupt(p) ==
    /\ Fault
    /\ Live(p)
    /\ cli' = [Disturbed EXCEPT ![p] = [Idle EXCEPT !.result = "interrupted"]]
    /\ pi' \in {pi} \cup (IF At(p, "pi-install")
                          THEN {[pi EXCEPT !.src = cli[p].ver, !.man = 0]} ELSE {})
    /\ messy' = TRUE
    /\ UNCHANGED <<backend, os, disk, prefix, meta, host>>

\* The restart of an upgrade fails, with the daemon ended or not.
RestartFails(p) ==
    /\ Fault
    /\ Restarts(p)
    /\ os' \in {os, Die}
    /\ NotRestarted(p)
    /\ UNCHANGED <<backend, disk, prefix, meta, host, pi, messy>>

DaemonDies ==
    /\ Fault
    /\ os.proc # None
    /\ os' = Die
    /\ cli' = Disturbed
    /\ UNCHANGED <<backend, disk, prefix, meta, host, pi, messy>>

\* launchd and systemd start it again; a daemon without an identity exits.
DaemonRespawns ==
    /\ os.proc = None /\ os.wanted /\ os.loaded # None /\ host.id
    /\ os' = Respawn
    /\ UNCHANGED <<backend, disk, prefix, meta, host, pi, cli, events, messy>>

\* A daemon that finds an identity completes its encryption identity.
DaemonCompletesHost ==
    /\ os.proc # None /\ host.id /\ ~host.enc
    /\ host' = [host EXCEPT !.enc = TRUE]
    /\ UNCHANGED <<backend, os, disk, prefix, meta, pi, cli, events, messy>>

\* Logging in again ends every command and starts what is enabled.
NewLogin ==
    /\ Fault
    /\ \A q \in Cli : ~Live(q)
    /\ os' = Login
    /\ UNCHANGED <<backend, disk, prefix, meta, host, pi, cli, messy>>

\* Another Node.js, and with it another npm prefix, becomes the current one.
SwitchNode ==
    /\ Fault
    /\ \E path \in Paths \ {prefix} : prefix' = path
    /\ cli' = Disturbed
    /\ UNCHANGED <<backend, os, disk, meta, host, pi, messy>>

\* A machine that never saw Ariava, with or without Pi, with a foreign Pi
\* package or with the metadata of another platform; or one on which an
\* older version is installed and running.
OnboardingInit ==
    /\ backend \in {"launchd", "systemd-user"}
    /\ prefix \in Paths
    /\ \/ /\ os = NoService
          /\ disk = [path \in Paths |-> 0]
          /\ host = NoHost
          /\ \/ /\ meta \in {NoMeta, [NoMeta EXCEPT !.service = [path |-> prefix, backend |-> Foreign]]}
                /\ pi = [present |-> TRUE, src |-> None, man |-> 0]
             \/ /\ meta = NoMeta
                /\ pi \in {[present |-> FALSE, src |-> None, man |-> 0],
                           [present |-> TRUE, src |-> Foreign, man |-> 0]}
       \/ /\ os = [defn |-> prefix, enabled |-> TRUE, loaded |-> prefix, wanted |-> TRUE,
                   proc |-> [path |-> prefix, ver |-> 1]]
          /\ disk = [path \in Paths |-> IF path = prefix THEN 1 ELSE 0]
          /\ host = [id |-> TRUE, named |-> TRUE, enc |-> TRUE]
          /\ meta = [service |-> Record(prefix), installer |-> prefix, source |-> "release",
                     pi |-> 1]
          /\ pi = [present |-> TRUE, src |-> 1, man |-> 1]
    /\ cli = [p \in Cli |-> Idle]
    /\ events = 0 /\ messy = FALSE

Step(p) ==
    \/ ServiceStep(p) \/ Refuse(p) \/ Detect(p) \/ StableCli(p) \/ AcquireLock(p) \/ HostInit(p)
    \/ Initialize(p) \/ RecordInstaller(p) \/ BridgeService(p) \/ SaveService(p)
    \/ StartIfDown(p) \/ WaitReady(p) \/ BridgeHealth(p) \/ Adapter(p) \/ SavePi(p) \/ Readiness(p)
    \/ SelfUpgrade(p) \/ ServiceInstall(p) \/ MergeService(p) \/ ServiceCommand(p)
    \/ Uninstalls(p) \/ WriteMetadata(p) \/ ConvergePi(p) \/ PiCommand(p)

OnboardingNext ==
    \/ \E p \in Cli : StartCommand(p) \/ Step(p) \/ Interrupt(p) \/ RestartFails(p)
    \/ DaemonDies \/ DaemonRespawns \/ DaemonCompletesHost \/ NewLogin \/ SwitchNode

OnboardingSpec == OnboardingInit /\ [][OnboardingNext]_onboardingVars

-----------------------------------------------------------------------------
(* Properties.                                                             *)

Finishes(p, cmds) ==
    /\ Live(p) /\ cli[p].cmd \in cmds /\ cli[p].clean
    /\ cli'[p].todo = <<>> /\ cli'[p].result # "interrupted"

\* A setup that nothing disturbs, started in whatever state earlier
\* commands, failures and interruptions left, ends ready, or names an
\* obstacle that was there when it started; a stale service is never
\* refused for want of ownership (orchestrator.ts, service-reconcile.ts).
SetupConverges == [][\A p \in Cli :
    Finishes(p, {"setup"}) => cli'[p].result \in {"ready"} \cup cli[p].cause]_onboardingVars

\* What an undisturbed setup calls ready is so: the Host is complete, a
\* daemon runs and will run after the next login, the record names the CLI
\* of this setup, the Pi package is exactly its version, and a daemon that
\* launchd (re)started runs the loaded job as it is on the disk.  That job and
\* the definition are of this CLI, and the metadata names the Pi package too,
\* unless an earlier command was cut off or met another: the status is judged
\* by the record alone (launchd.ts:277-300) and started as it is found
\* (service-reconcile.ts:88-91), and a reused package is not recorded again
\* (orchestrator.ts:198).
ReadyIsServed == [][\A p \in Cli :
    (Finishes(p, {"setup"}) /\ cli'[p].result = "ready") =>
        LET path == cli[p].path IN
        /\ HostReady /\ os.proc # None /\ os.defn # None /\ os.enabled
        /\ meta.service = Record(path) /\ meta.installer = path /\ disk[path] = cli[p].ver
        /\ cli[p].target => pi.src = cli[p].ver /\ pi.man = cli[p].ver
        /\ (backend = "launchd" /\ ~cli[p].kept) => os.proc = Daemon(os.loaded)
        /\ ~messy => /\ os.loaded = path /\ os.defn = path
                     /\ cli[p].target => meta.pi = cli[p].ver]_onboardingVars

\* An upgrade that nothing disturbs leaves an installed service defined and
\* recorded for this CLI, and running the version npm just put on disk,
\* whichever manager runs it, unless it reports that it did not restart it
\* (upgrade-command.ts, reconcileServiceInstall).
UpgradeIsEffective == [][\A p \in Cli :
    (Finishes(p, {"upgrade"})
      /\ cli[p].cause \cap {"not-installed", "unsupported", "no-config"} = {}) =>
        /\ os.defn = cli[p].path /\ meta.service = Record(cli[p].path)
        /\ ~cli[p].kept => os.proc = Daemon(cli[p].path) /\ os.proc.ver = cli[p].ver]_onboardingVars

\* An uninstall that nothing disturbs leaves no definition, no loaded job,
\* no process and no record.  What systemd keeps of a unit whose file was gone
\* before, after commands that overlapped or were cut off, it does not find: the
\* link of an enabled unit, and a process (systemd-user.ts:198, 200-205).
UninstallIsComplete == [][\A p \in Cli :
    (Finishes(p, {"service-uninstall", "uninstall", "uninstall-pi", "purge"})
      /\ cli[p].cause \cap {"backend", "unsupported"} = {}) =>
        /\ os'.defn = None /\ os'.loaded = None /\ meta'.service = None
        /\ os'.enabled => "dangling" \in cli[p].cause
        /\ os'.proc # None => "orphan" \in cli[p].cause]_onboardingVars

\* What an undisturbed command reports as done is so, and setup gets it done.
ReportsAreTrue == SetupConverges /\ ReadyIsServed /\ UpgradeIsEffective /\ UninstallIsComplete

\* As long as no command was cut off and only setups overlapped, the record
\* in the install metadata and the definition file agree whenever no command
\* is running: setups are serialised by their locks (onboarding/lock.ts).
RecordDescribesDefinition ==
    (~messy /\ \A p \in Cli : ~Live(p)) =>
        \/ meta.service = None /\ os.defn = None
        \/ meta.service # None /\ ~Ours /\ os.defn = None
        \/ meta.service = Record(os.defn)
=============================================================================
