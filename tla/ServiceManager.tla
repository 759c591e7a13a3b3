--------------------------- MODULE ServiceManager ---------------------------
(***************************************************************************)
(* The user service of the bridge: what launchd and the systemd user       *)
(* manager do with its definition file, and the operations of the two      *)
(* service managers as the sequences of file writes and commands they run. *)
(*                                                                         *)
(* A definition names the path of the CLI it runs; the daemon runs the     *)
(* version that path held when it was started.  `loaded' is the            *)
(* definition the operating system has read (launchd's job, systemd's      *)
(* unit as of the last daemon-reload), `wanted' that it keeps the process  *)
(* alive (KeepAlive, Restart=on-failure).                                  *)
(***************************************************************************)
EXTENDS Naturals, Sequences, FiniteSets

CONSTANTS Paths, None

VARIABLES
    backend,   \* "launchd" or "systemd-user"
    os,        \* [defn, enabled, loaded, wanted, proc]
    disk       \* disk[path]: the CLI version installed there, 0 when none

NoService == [defn |-> None, enabled |-> FALSE, loaded |-> None,
              wanted |-> FALSE, proc |-> None]

Daemon(path) == [path |-> path, ver |-> disk[path]]

-----------------------------------------------------------------------------
(* What the commands of the operating system do to the service.            *)

\* A unit that is not in memory is loaded from its file when it is named.
Unit == IF os.loaded = None THEN os.defn ELSE os.loaded

Run(s) == [s EXCEPT !.wanted = TRUE, !.proc = Daemon(s.loaded)]
Halt(s) == [s EXCEPT !.wanted = FALSE, !.proc = None]
Started(s) == IF s.proc = None THEN Run(s) ELSE [s EXCEPT !.wanted = TRUE]

\* launchctl bootout unloads the job and ends its process.
Bootout == Halt([os EXCEPT !.loaded = None])

\* launchctl bootstrap loads the definition; RunAtLoad starts it.  A job
\* that is still loaded makes it fail with EIO: the manager boots it out
\* and tries again.
BootstrapDefinition == Run([Bootout EXCEPT !.loaded = os.defn])

WriteDefinition(path) == [os EXCEPT !.defn = path,
                                    !.enabled = (backend = "launchd") \/ os.enabled]
RemoveDefinition == [os EXCEPT !.defn = None,
                               !.enabled = (backend # "launchd") /\ os.enabled]
DaemonReload == [os EXCEPT !.loaded = os.defn]

\* systemctl enable --now: a unit that is already active keeps its process.
EnableNow == Started([os EXCEPT !.enabled = TRUE, !.loaded = Unit])

\* systemctl disable --now of a unit whose file is gone does nothing.
DisableNow == IF os.defn = None THEN os ELSE Halt([os EXCEPT !.enabled = FALSE])

\* The steps a manager's operation is made of: when each can succeed and
\* what it leaves behind.
StepSucceeds(step) ==
    CASE step = "bootstrap" -> os.defn # None
      [] step \in {"kickstart", "kickstart-k"} -> os.loaded # None
      [] step \in {"enable", "start", "restart"} -> Unit # None
      [] OTHER -> TRUE

StepEffect(step, path) ==
    CASE step = "write" -> WriteDefinition(path)
      [] step = "remove" -> RemoveDefinition
      [] step = "bootout" -> Bootout
      [] step = "bootstrap" -> BootstrapDefinition
      [] step = "kickstart" -> Started(os)
      [] step = "kickstart-k" -> Run(os)
      [] step = "reload" -> DaemonReload
      [] step = "enable" -> EnableNow
      [] step = "disable" -> DisableNow
      [] step = "start" -> Started([os EXCEPT !.loaded = Unit])
      [] step = "restart" -> Run([os EXCEPT !.loaded = Unit])
      [] step = "stop" -> Halt(os)

ServiceSteps == {"write", "remove", "bootout", "bootstrap", "kickstart", "kickstart-k",
                 "reload", "enable", "disable", "start", "restart", "stop"}

-----------------------------------------------------------------------------
(* The operations of the managers, as sequences of those steps.            *)

LaunchdInstall == <<"write", "bootout", "bootstrap">>
SystemdInstall == <<"write", "reload", "enable">>

\* Mutant: a job that is loaded is left alone.
InstallKeepsJob ==
    CASE backend # "launchd" -> SystemdInstall
      [] os.loaded = None -> <<"write", "bootstrap">>
      [] OTHER -> <<"write">>

InstallService == IF backend = "launchd" THEN LaunchdInstall ELSE SystemdInstall

\* The systemd manager has nothing to do for a unit that has neither a file
\* nor a loaded state.
LaunchdUninstall == <<"bootout", "remove">>
SystemdUninstall == IF Unit = None THEN <<>> ELSE <<"disable", "remove", "reload">>

UninstallService == IF backend = "launchd" THEN LaunchdUninstall ELSE SystemdUninstall

LaunchdStart == <<"bootout", "bootstrap", "kickstart">>
SystemdStart == <<"start">>
StartService == IF backend = "launchd" THEN LaunchdStart ELSE SystemdStart

\* systemd's manager stops nothing that has no definition file.
LaunchdStop == <<"bootout">>
SystemdStop == IF os.defn = None THEN <<>> ELSE <<"stop">>
StopService == IF backend = "launchd" THEN LaunchdStop ELSE SystemdStop

LaunchdRestart == <<"kickstart-k">>
SystemdRestart == <<"restart">>

RestartService == IF backend = "launchd" THEN LaunchdRestart ELSE SystemdRestart

\* The status of a recorded service: the record decides which paths are
\* reported, the definition file only whether it is installed at all.
NotInstalled == [installed |-> FALSE, enabled |-> FALSE, loaded |-> FALSE,
                 running |-> FALSE, path |-> None]
LaunchdStatus(record) ==
    [installed |-> TRUE, enabled |-> os.enabled, loaded |-> os.loaded # None,
     running |-> os.loaded # None /\ os.proc # None, path |-> record.path]
SystemdStatus(record) ==
    [installed |-> TRUE, enabled |-> os.enabled, loaded |-> Unit # None,
     running |-> os.proc # None, path |-> record.path]
Status(record) ==
    IF record = None THEN NotInstalled
    ELSE IF record.backend # backend THEN NotInstalled
    ELSE IF os.defn = None THEN [NotInstalled EXCEPT !.path = record.path]
    ELSE IF backend = "launchd" THEN LaunchdStatus(record) ELSE SystemdStatus(record)

serviceStatusReady(status) ==
    status.installed /\ status.enabled /\ status.loaded /\ status.running

-----------------------------------------------------------------------------
(* The operating system on its own.                                        *)

\* The daemon dies; launchd and systemd start it again from what is loaded.
\* A process whose unit was forgotten is not started again.
Die == [os EXCEPT !.proc = None, !.wanted = os.wanted /\ os.loaded # None]
Respawn == Run(os)

\* A new login loads the definitions it finds.
Login ==
    LET fresh == [NoService EXCEPT !.defn = os.defn, !.enabled = os.enabled,
                                   !.loaded = os.defn]
    IN IF os.defn # None /\ os.enabled THEN Run(fresh) ELSE fresh
=============================================================================
