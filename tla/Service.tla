------------------------------ MODULE Service ------------------------------
(***************************************************************************)
(* The proxy as a background process on one port: the managed service      *)
(* (src/service.rs), the legacy daemon (src/daemon.rs), the listener       *)
(* (bind_listener of src/server.rs) and the commands that start, stop and  *)
(* restart it (Launch, Up, Stop, Restart and handle_daemon_mode of         *)
(* src/main.rs, `klava upgrade`).                                          *)
(*                                                                         *)
(* systemd, launchd and the processes of other programs are external: they *)
(* are modelled as far as the code relies on them.  What a proxy runs with *)
(* is a record: the flags of its command line, the default model it read   *)
(* from the config file when it started, the build of its binary.          *)
(***************************************************************************)
EXTENDS Naturals, TLC

CONSTANTS
  ProxyFlags,  \* what --search and --effort say, as the unit carries it
  Models,      \* models that may be the default
  MaxStarts,   \* bound: commands given
  Burst,       \* starts in a row after which systemd gives up (StartLimitBurst)
  MaxBuilds    \* bound: upgrades

NotThere == [kind |-> "none"]

VARIABLES
  manager,  \* "systemd", "launchd" or "none"
  disk,     \* the default model in the config file
  build,    \* the klava binary on disk
  unit,     \* the unit or plist file: the flags it carries, or NotThere
  loaded,   \* what the manager has read of it, or NotThere
  proxy,    \* the managed process, or NotThere
  wanted,   \* whether the manager keeps the process running
  crashes,  \* crashes since systemd last reset its count
  foreign,  \* what else listens on the port: "nothing", "klava" (one that
            \* runs in a terminal), "daemon" (a legacy one), "other"
  child,    \* a proxy that is a child of a launch, or NotThere
  command,  \* the command in progress, or how the last one ended
  given,    \* commands given so far
  overwritten \* history: the plist was written over a loaded agent, and no
              \* unload of that agent has succeeded since

service == <<unit, loaded, proxy, wanted, crashes, overwritten>>

serviceVars == <<manager, disk, build, service, foreign, child, command, given>>

AtRest == [step |-> "idle"]

\* systemd_available, launchd_available: a session that can be reached.
Managers == {"systemd", "launchd", "none"}

ServiceInit ==
  /\ manager \in Managers
  /\ disk \in Models /\ build = 1
  /\ unit = NotThere /\ loaded = NotThere /\ proxy = NotThere /\ wanted = FALSE /\ crashes = 0
  /\ foreign \in {"nothing", "klava", "daemon", "other"}
  /\ child = NotThere /\ command = AtRest /\ given = 0 /\ overwritten = FALSE

\* render_unit, render_plist: of what the command was told the file carries
\* the port, --search and --effort.
UnitFile(want) == [kind |-> "unit", flags |-> want.flags]
Plist(want) == [kind |-> "plist", flags |-> want.flags]
Rendered(want) == IF manager = "systemd" THEN UnitFile(want) ELSE Plist(want)

\* What a write that failed, or a death in it, leaves: no manager accepts it.
CutOff == [kind |-> "torn", flags |-> "none"]

HeldByOthers == foreign # "nothing" \/ (child # NotThere /\ child.onPort)

\* A process started from the unit reads the config file for all the rest.
\* A port that is taken makes it listen on the next one (bind_listener).
Started(def) ==
  [kind |-> "proxy", flags |-> def.flags, model |-> disk, build |-> build, onPort |-> ~HeldByOthers]

\* systemctl is-active, launchd_is_running.
Active == proxy # NotThere

\* launchd_is_loaded; a systemd unit that is read need not be active.
Ours == IF manager = "systemd" THEN Active ELSE loaded # NotThere

PortTaken == HeldByOthers \/ (proxy # NotThere /\ proxy.onPort)

\* GET /health is answered by whichever klava listens on the port.
Healthy ==
  \/ foreign \in {"klava", "daemon"} \/ (child # NotThere /\ child.onPort)
  \/ (proxy # NotThere /\ proxy.onPort)

-----------------------------------------------------------------------------
(* ensure_service, for `klava up --daemon` and `klava launch`.             *)

May == command.step \in {"idle", "ok", "error"} /\ given < MaxStarts

\* `klava launch` and `klava up --daemon` converge the service.
Converge ==
  /\ May /\ manager # "none"
  /\ \E f \in ProxyFlags, m \in Models :
       command' = [step |-> "look", want |-> [flags |-> f, model |-> m]]
  /\ given' = given + 1
  /\ UNCHANGED <<manager, disk, build, service, foreign, child>>

\* Without a manager, or with --no-service, a launch runs a proxy as a child,
\* with the whole of the overridden config.
LaunchChild ==
  /\ May /\ child = NotThere
  /\ \E f \in ProxyFlags, m \in Models :
       /\ child' = [kind |-> "proxy", flags |-> f, model |-> m, onPort |-> ~PortTaken]
       /\ command' = [step |-> "ok", want |-> [flags |-> f, model |-> m], action |-> "Child"]
  /\ given' = given + 1
  /\ UNCHANGED <<manager, disk, build, service, foreign>>

\* Without a manager `up --daemon` forks: the parent ends, and so does the
\* child, as soon as it has said that the proxy runs.
DaemonMode ==
  /\ May /\ manager = "none"
  /\ \E f \in ProxyFlags, m \in Models :
       command' = [step |-> "ok", want |-> [flags |-> f, model |-> m], action |-> "Daemon"]
  /\ given' = given + 1
  /\ UNCHANGED <<manager, disk, build, service, foreign, child>>

\* stop_legacy_daemon: what the old daemon mode left is sent a signal, and may
\* still hold the port when the command looks at it.
LegacyStopped == {foreign} \cup (IF foreign = "daemon" THEN {"nothing"} ELSE {})

\* The unit is active and current, or is to be (re)written, or started.  A
\* port that another program holds is an error, unless the unit is active
\* (systemd) or loaded (launchd); a legacy daemon is stopped first.
Look ==
  /\ command.step = "look"
  /\ UNCHANGED <<manager, disk, build, service, child, given>>
  /\ LET current == unit = Rendered(command.want)
         free == current \/ Ours
     IN  /\ foreign' \in IF free THEN {foreign} ELSE LegacyStopped
         /\ command' =
              IF Active /\ current
              THEN [command EXCEPT !.step = "ok"] @@ [action |-> "AlreadyActive"]
              ELSE IF ~free /\ PortTaken' THEN [step |-> "error"]
              ELSE [step |-> IF current THEN "start" ELSE "write", want |-> command.want,
                    action |-> IF unit = NotThere THEN "Installed"
                               ELSE IF current THEN "Started" ELSE "Rewritten"]

\* A plausible slip: the agent is not unloaded.
StillLoaded(agent) == agent

Unloaded(agent) == NotThere

\* fs::write, not atomic: the file is whole or, when the write fails, torn.
WritesUnit(next) ==
  \/ unit' = Rendered(command.want) /\ command' = [command EXCEPT !.step = next]
  \/ unit' = CutOff /\ command' = [step |-> "error"]

\* An inactive unit is stopped, which ends its restarts if it succeeds, and the
\* file written.
WriteUnit ==
  /\ command.step = "write" /\ manager = "systemd"
  /\ WritesUnit("reload")
  /\ wanted' \in {wanted, wanted /\ Active}
  /\ UNCHANGED <<manager, disk, build, loaded, proxy, crashes, foreign, child, given,
                 overwritten>>

\* daemon-reload, and reset-failed for a unit that was there before: a unit
\* that is active is left running.
ReloadUnit ==
  /\ command.step = "reload" /\ manager = "systemd"
  /\ loaded' = unit
  /\ crashes' = IF command.action = "Installed" THEN crashes ELSE 0
  /\ command' = [command EXCEPT !.step = "start"]
  /\ UNCHANGED <<manager, disk, build, unit, proxy, wanted, foreign, child, given,
                 overwritten>>

\* The plist is written while the agent may be loaded.
WritePlist ==
  /\ command.step = "write" /\ manager = "launchd"
  /\ WritesUnit("unload")
  /\ overwritten' = (loaded # NotThere)
  /\ UNCHANGED <<manager, disk, build, loaded, proxy, wanted, crashes, foreign,
                 child, given>>

\* launchctl unload and systemctl stop end the process; that they fail is
\* ignored.
StopManaged ==
  \/ /\ loaded' = IF manager = "launchd" THEN Unloaded(loaded) ELSE loaded
     /\ proxy' = NotThere /\ wanted' = FALSE /\ overwritten' = FALSE
  \/ UNCHANGED <<loaded, proxy, wanted, overwritten>>

UnloadAgent ==
  /\ command.step = "unload" /\ manager = "launchd"
  /\ StopManaged
  /\ command' = [command EXCEPT !.step = "start"]
  /\ UNCHANGED <<manager, disk, build, unit, crashes, foreign, child, given>>

\* What is started: what the manager has read, or the file when it has not.
AsRead == IF loaded = NotThere THEN unit ELSE loaded

\* systemctl start does nothing to an active unit and is refused once the
\* unit has started too often.
StartUnit ==
  /\ command.step = "start" /\ manager = "systemd"
  /\ IF ~Active /\ crashes >= Burst
     THEN command' = [step |-> "error"] /\ UNCHANGED <<loaded, proxy, wanted>>
     ELSE /\ command' = [command EXCEPT !.step = "health"]
          /\ loaded' = AsRead /\ wanted' = TRUE
          /\ proxy' = IF Active THEN proxy ELSE Started(loaded')
  /\ UNCHANGED <<manager, disk, build, unit, crashes, foreign, child, given,
                 overwritten>>

\* launchctl load: "already loaded" passes for success, and leaves the agent
\* as it was loaded.
LoadAgent ==
  /\ command.step = "start" /\ manager = "launchd"
  /\ IF loaded = NotThere /\ unit = CutOff
     THEN command' = [step |-> "error"] /\ UNCHANGED <<loaded, proxy, wanted>>
     ELSE /\ command' = [command EXCEPT !.step = "health"]
          /\ loaded' = AsRead /\ wanted' = TRUE
          /\ proxy' = IF loaded # NotThere THEN proxy ELSE Started(loaded')
  /\ UNCHANGED <<manager, disk, build, unit, crashes, foreign, child, given,
                 overwritten>>

\* The command waits for a healthy answer, ten seconds at most.
WaitHealth ==
  /\ command.step = "health"
  /\ command' = IF Healthy THEN [command EXCEPT !.step = "ok"] ELSE [step |-> "error"]
  /\ UNCHANGED <<manager, disk, build, service, foreign, child, given>>

-----------------------------------------------------------------------------
(* The other commands.                                                     *)

\* `klava stop`: the legacy daemon, and the managed service.
Stop ==
  /\ May
  /\ StopManaged
  /\ foreign' \in LegacyStopped
  /\ command' = AtRest /\ given' = given + 1
  /\ UNCHANGED <<manager, disk, build, unit, crashes, child>>

\* `klava restart`: reset-failed and restart (of the unit as it was read last),
\* or unload and load.
RestartUnit ==
  /\ May /\ unit # NotThere /\ manager = "systemd"
  /\ crashes' = 0
  /\ IF AsRead = CutOff
     THEN command' = [step |-> "error"] /\ UNCHANGED <<loaded, proxy, wanted>>
     ELSE /\ loaded' = AsRead /\ proxy' = Started(loaded') /\ wanted' = TRUE
          /\ command' = [step |-> "health", want |-> unit, action |-> "Restarted"]
  /\ given' = given + 1
  /\ UNCHANGED <<manager, disk, build, unit, foreign, child, overwritten>>

RestartAgent ==
  /\ May /\ unit # NotThere /\ manager = "launchd"
  /\ command' = [step |-> "unload", want |-> unit, action |-> "Restarted"]
  /\ given' = given + 1
  /\ UNCHANGED <<manager, disk, build, service, foreign, child>>

\* The command is killed, or a call it cannot do without fails (a directory
\* it cannot make, a manager it cannot run).
CommandDies ==
  /\ command.step \in {"look", "write", "reload", "unload", "start", "health"}
  /\ command' = [step |-> "error"]
  /\ UNCHANGED <<manager, disk, build, service, foreign, child, given>>

\* `klava up` in a terminal, when the port is free; on a port that is taken
\* it listens on another one.
UpForeground ==
  /\ ~PortTaken
  /\ foreign' = "klava"
  /\ UNCHANGED <<manager, disk, build, service, child, command, given>>

\* The launch that owns a child proxy ends, and aborts it.
ChildEnds ==
  /\ child # NotThere
  /\ child' = NotThere
  /\ UNCHANGED <<manager, disk, build, service, foreign, command, given>>

\* `klava upgrade`: the package manager replaces the binary; what runs keeps
\* running, and the unit file does not change.
Upgrade ==
  /\ build < MaxBuilds
  /\ build' = build + 1
  /\ UNCHANGED <<manager, disk, service, foreign, child, command, given>>

\* `klava providers set`, or an edit of the file.
SetDefault ==
  /\ command.step \in {"idle", "ok", "error"}
  /\ disk' \in Models \ {disk}
  /\ UNCHANGED <<manager, build, service, foreign, child, command, given>>

-----------------------------------------------------------------------------
(* What happens around the commands.                                       *)

ProxyCrashes ==
  /\ proxy # NotThere
  /\ proxy' = NotThere
  /\ crashes' = IF crashes < Burst THEN crashes + 1 ELSE crashes
  /\ UNCHANGED <<manager, disk, build, unit, loaded, wanted, foreign, child, command,
                 given, overwritten>>

\* The manager starts a process it keeps running (Restart=always, KeepAlive),
\* unless systemd has locked the unit out.
Heal ==
  /\ wanted /\ proxy = NotThere /\ loaded # NotThere
  /\ manager = "systemd" => crashes < Burst
  /\ proxy' = Started(loaded)
  /\ UNCHANGED <<manager, disk, build, unit, loaded, wanted, crashes, foreign, child,
                 command, given, overwritten>>

\* Another program takes the port, or what holds it lets go of it.
ForeignMoves ==
  /\ IF foreign = "nothing"
     THEN ~PortTaken /\ foreign' = "other"
     ELSE foreign' = "nothing"
  /\ UNCHANGED <<manager, disk, build, service, child, command, given>>

ServiceNext ==
  \/ Converge \/ LaunchChild \/ DaemonMode
  \/ Look \/ WriteUnit \/ ReloadUnit \/ WritePlist \/ UnloadAgent \/ StartUnit \/ LoadAgent
  \/ WaitHealth \/ CommandDies
  \/ Stop \/ RestartUnit \/ RestartAgent \/ UpForeground \/ ChildEnds \/ Upgrade \/ SetDefault
  \/ ProxyCrashes \/ Heal \/ ForeignMoves

ServiceSpec == ServiceInit /\ [][ServiceNext]_serviceVars

-----------------------------------------------------------------------------
(* Properties.                                                             *)

\* What a converged process runs with is what its file says.
Current == proxy # NotThere => proxy.flags = unit.flags

\* launchd: a proxy runs with flags its plist does not carry only from the
\* write of the plist to the next unload of the agent that succeeds.  A
\* command that ends whole behind such an unload never leaves one.
LaunchdCurrent == manager = "launchd" => Current \/ overwritten
=============================================================================
