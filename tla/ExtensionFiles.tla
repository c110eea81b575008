--------------------------- MODULE ExtensionFiles ---------------------------
(***************************************************************************)
(* The files of installed extensions and the commands that change them:    *)
(* `extensions install`, `update`, `remove`, `enable`, `disable`.          *)
(*   src/src/ext_install.rs  staging, commit, manifests, records           *)
(*   src/src/ext_update.rs   plan everything, then apply one by one        *)
(*   src/src/ext_cli.rs      the commands around them and config.save      *)
(*                                                                         *)
(* A command is a process of its own: several may run at once, any may die *)
(* between two file operations, and what it did so far stays on disk. All  *)
(* installs stage in ONE directory, <install dir>/.staging, and every      *)
(* install begins and ends by deleting it. A build stands for the bytes of *)
(* an executable and for its SHA-256; it is "half" while a copy into the   *)
(* file is under way. Of manifests only the presence is kept. The staging  *)
(* directory is on the mount of the install directory it lies in.          *)
(***************************************************************************)
EXTENDS Naturals, FiniteSets

CONSTANTS Names,        \* extensions
          Procs,        \* klava processes running a command
          KindOf,       \* where an extension comes from: [Names -> Kinds]
          MaxBuild,     \* bound: builds published upstream
          MaxCommands   \* bound: commands ever started

(* An executable; a crate or package of a registry; a git repository; the  *)
(* directory of a crate (cargo-path:).                                     *)
Kinds == {"local", "registry", "git", "crate"}
ASSUME KindAssumption == KindOf \in [Names -> Kinds]
ASSUME BuildAssumption == MaxBuild \in Nat \ {0}

VARIABLES bin,       \* the executable in the install directory
          manifest,  \* the extensions with a <name>.toml beside it
          record,    \* <name>.source.toml beside it
          staging,   \* the directory .staging
          conf,      \* the `enabled` key the config file has for an extension
          upstream,  \* the build the source of an extension yields now
          cmd,       \* what each process is doing
          started,   \* commands started so far
          contested  \* history: extensions two commands at once were about
vars == <<bin, manifest, record, staging, conf, upstream, cmd, started, contested>>
-----------------------------------------------------------------------------
Builds == 1..MaxBuild
None == 0                                 \* no file, no pin, no version

File == {[build |-> None, whole |-> TRUE]}
          \cup [build : Builds, whole : BOOLEAN]
NoFile == [build |-> None, whole |-> TRUE]
Whole(b) == [build |-> b, whole |-> TRUE]
Half(b) == [build |-> b, whole |-> FALSE]
Exists(f) == f.build # None

(* SourceRecord: the label of the source (a registry or git label may pin  *)
(* a build), the version the installer resolved, and the fingerprint.      *)
NoRecord == [pin |-> None, version |-> None, sha |-> None]
Records == [pin : Builds \cup {None}, version : Builds \cup {None},
            sha : Builds \cup {None}]

(* The files of .staging and who last opened each for writing. `made` is   *)
(* false while the directory is missing.                                   *)
Emptied(made) == [made |-> made,
                  file |-> [n \in Names |-> NoFile],
                  by |-> [n \in Names |-> "nobody"],
                  toml |-> {},
                  previous |-> [n \in Names |-> NoFile]]

(* The config file has the key `enabled` of an extension, or no table of   *)
(* it.                                                                     *)
Flags == {"unset", "on", "off"}
NoSettings == [n \in Names |-> "unset"]

Idle == [pc |-> "idle", op |-> "none", about |-> {}, todo |-> {}, name |-> None,
         pin |-> None, got |-> None, sha |-> None, failed |-> {}, conf |-> NoSettings, set |-> "unset"]
-----------------------------------------------------------------------------
(***************************************************************************)
(* What `update` plans for an extension.                                   *)
(***************************************************************************)
(* latest_version: only registries are asked, and they may not answer.     *)
Latest(n, answers) ==
    IF KindOf[n] = "registry" /\ answers THEN upstream[n] ELSE None

(* A path, which no version pins and which may vanish.                     *)
OnDisk(n) == KindOf[n] \in {"local", "crate"}

(* plan_for. A path that vanished no longer parses as a source; a git or a *)
(* crate source is always built again.                                     *)
PlanFor(n, force, answers) ==
    LET r == record[n] IN
    IF r = NoRecord \/ (OnDisk(n) /\ upstream[n] = None) THEN "skip"
    ELSE IF /\ ~force
            /\ \/ KindOf[n] = "local" /\ upstream[n] = r.sha
               \/ /\ Latest(n, answers) # None
                  /\ r.version = Latest(n, answers)
         THEN "current"
         ELSE "available"
-----------------------------------------------------------------------------
(* Some extensions were installed, unpinned, when upstream yielded build   *)
(* 1.                                                                      *)
Init == /\ \E S \in SUBSET Names :
              /\ bin = [n \in Names |-> IF n \in S THEN Whole(1) ELSE NoFile]
              /\ manifest = S
              /\ record = [n \in Names |->
                     IF n \notin S THEN NoRecord
                     ELSE [pin |-> None, sha |-> 1,
                           version |-> IF KindOf[n] = "local" THEN None ELSE 1]]
        /\ staging = Emptied(FALSE)
        /\ conf = NoSettings
        /\ upstream = [n \in Names |-> 1]
        /\ cmd = [p \in Procs |-> Idle]
        /\ started = 0 /\ contested = {}

files == <<bin, manifest, record, staging>>

(* A command about some extensions, those it changes, starts: it reads the *)
(* config file, and plans if it is `update`. Nothing keeps it from an      *)
(* extension another command is about.                                     *)
MayStart(p, about) ==
    /\ cmd[p].pc = "idle"
    /\ started < MaxCommands
    /\ started' = started + 1
    /\ contested' = contested \cup (about \cap UNION {cmd[q].about : q \in Procs})
    /\ UNCHANGED <<files, conf, upstream>>

StartInstall(p, n, pin, set) ==
    /\ MayStart(p, {n})
    /\ IF OnDisk(n) THEN pin = None /\ upstream[n] # None ELSE pin <= upstream[n]
    /\ cmd' = [cmd EXCEPT ![p] =
                 [Idle EXCEPT !.pc = "clear", !.op = "install", !.about = {n},
                              !.name = n, !.pin = pin, !.conf = conf,
                              !.set = set]]

(* run_with: every selected extension is planned before anything is done.  *)
StartUpdate(p, S, force, answers) ==
    LET installed == {n \in S : Exists(bin[n])}
        work == {n \in installed : PlanFor(n, force, answers) = "available"}
    IN /\ MayStart(p, work)
       /\ work # {}
       /\ cmd' = [cmd EXCEPT ![p] =
                    [Idle EXCEPT !.pc = "next", !.op = "update", !.about = work,
                                 !.todo = work, !.conf = conf]]

StartRemove(p, n) ==
    /\ MayStart(p, {n})
    /\ Exists(bin[n])
    /\ cmd' = [cmd EXCEPT ![p] =
                 [Idle EXCEPT !.pc = "remove", !.op = "remove", !.about = {n},
                              !.name = n, !.conf = conf]]

StartSetEnabled(p, n, set) ==
    /\ MayStart(p, {n})
    /\ Exists(bin[n])
    /\ cmd' = [cmd EXCEPT ![p] =
                 [Idle EXCEPT !.pc = "config", !.op = "set_enabled", !.about = {n},
                              !.name = n, !.conf = conf, !.set = set]]
-----------------------------------------------------------------------------
(* `p` is at `pc`; Goto takes it to another step (a command that is over   *)
(* is forgotten), Fail to install's last one.                              *)
At(p, pc) == cmd[p].pc = pc
Goto(p, pc) == cmd' = [cmd EXCEPT ![p] = IF pc = "idle" THEN Idle ELSE [@ EXCEPT !.pc = pc]]
Fail(p) == cmd' = [cmd EXCEPT ![p].pc = "drop", ![p].failed = @ \cup {cmd[p].name}]
Steady == UNCHANGED <<conf, upstream, started, contested>>

(* run_with takes the next extension of its plan, or is done.              *)
NextItem(p) ==
    /\ At(p, "next")
    /\ \/ /\ cmd[p].todo = {}
          /\ Goto(p, "idle")
       \/ \E n \in cmd[p].todo :
             cmd' = [cmd EXCEPT ![p] = [cmd[p] EXCEPT !.pc = "clear", !.name = n,
                                                      !.todo = @ \ {n},
                                                      !.got = None, !.sha = None]]
    /\ UNCHANGED files /\ Steady

(* install: remove_dir_all(.staging), then create_dir_all.                 *)
ClearStaging(p) ==
    /\ At(p, "clear")
    /\ staging' = Emptied(TRUE)
    /\ Goto(p, "stage")
    /\ UNCHANGED <<bin, manifest, record>> /\ Steady

(* install_local, install_cargo, install_npm: the build or the copy starts *)
(* if the source is there and the tool does not fail ...                   *)
StageBegin(p) ==
    LET n == cmd[p].name
        b == IF cmd[p].pin = None THEN upstream[n] ELSE cmd[p].pin
    IN /\ At(p, "stage")
       /\ \/ Fail(p) /\ UNCHANGED staging
          \/ /\ b # None /\ staging.made
             /\ staging' = [staging EXCEPT !.file[n] = Half(b), !.by[n] = p]
             /\ cmd' = [cmd EXCEPT ![p].pc = "staging", ![p].got = b]
       /\ UNCHANGED <<bin, manifest, record>> /\ Steady

(* Nobody has opened the staged file after p, nor is still writing it.     *)
Sole(p) == LET n == cmd[p].name IN
    /\ staging.by[n] = p
    /\ \A q \in Procs \ {p} : ~(cmd[q].pc = "staging" /\ cmd[q].name = n)

(* ... and ends; make_executable fails if the file is gone by now. A file  *)
(* others wrote as well may be whole or not. A local source may bring a    *)
(* manifest. What a process writes into a file that another one has moved  *)
(* meanwhile is not followed: that file stays what it was when it moved.   *)
StageEnd(p) ==
    LET n == cmd[p].name IN
    /\ At(p, "staging")
    /\ IF Exists(staging.file[n])
       THEN /\ \E whole \in BOOLEAN, toml \in SUBSET {n} :
                  /\ Sole(p) => whole
                  /\ toml # {} => KindOf[n] = "local"
                  /\ staging' = [staging EXCEPT !.file[n].whole = whole,
                                                !.toml = @ \cup toml]
            /\ Goto(p, "aside")
       ELSE Fail(p) /\ UNCHANGED staging
    /\ UNCHANGED <<bin, manifest, record>> /\ Steady

(* commit: the old artifact is moved into staging. (If that is deleted     *)
(* between the look at the staged file and the move, the old artifact is   *)
(* removed instead: the state is that of a deletion after the move.)       *)
MoveAside(p) ==
    LET n == cmd[p].name IN
    /\ At(p, "aside")
    /\ IF Exists(staging.file[n])
       THEN /\ Goto(p, "place")
            /\ IF Exists(bin[n])
               THEN /\ staging' = [staging EXCEPT !.previous[n] = bin[n]]
                    /\ bin' = [bin EXCEPT ![n] = NoFile]
               ELSE UNCHANGED <<staging, bin>>
       ELSE Fail(p) /\ UNCHANGED <<staging, bin>>
    /\ UNCHANGED <<manifest, record>> /\ Steady

PlaceByCopy(p) ==
    LET n == cmd[p].name IN
    /\ At(p, "place")
    /\ IF Exists(staging.file[n])
       THEN /\ bin' = [bin EXCEPT ![n] = IF Exists(@) THEN staging.file[n]
                                                      ELSE Half(staging.file[n].build)]
            /\ UNCHANGED staging
            /\ IF Exists(bin[n]) THEN Goto(p, "manifest") ELSE UNCHANGED cmd
       ELSE Fail(p) /\ UNCHANGED <<bin, staging>>
    /\ UNCHANGED <<manifest, record>> /\ Steady

(* commit: the staged one is renamed into place. If that fails, as the     *)
(* staged file is gone, so does the copy, and the old artifact is restored *)
(* if it is still there.                                                   *)
Place(p) ==
    LET n == cmd[p].name IN
    /\ At(p, "place")
    /\ IF Exists(staging.file[n])
       THEN /\ bin' = [bin EXCEPT ![n] = staging.file[n]]
            /\ staging' = [staging EXCEPT !.file[n] = NoFile]
            /\ Goto(p, "manifest")
       ELSE /\ IF Exists(staging.previous[n])
               THEN /\ bin' = [bin EXCEPT ![n] = staging.previous[n]]
                    /\ staging' = [staging EXCEPT !.previous[n] = NoFile]
               ELSE UNCHANGED <<bin, staging>>
            /\ Fail(p)
    /\ UNCHANGED <<manifest, record>> /\ Steady

(* commit: a staged manifest is copied over the old one; otherwise the     *)
(* binary is asked for one (adopt_manifest), unless there already is one.  *)
(* A binary may have none to print, or not answer in time.                 *)
TakeManifest(p) ==
    LET n == cmd[p].name IN
    /\ At(p, "manifest")
    /\ \E prints \in BOOLEAN :
          manifest' = IF n \in staging.toml \/ (prints /\ Exists(bin[n]))
                      THEN manifest \cup {n} ELSE manifest
    /\ Goto(p, "hash")
    /\ UNCHANGED <<bin, record, staging>> /\ Steady

(* commit: the fingerprint is that of the file now in place.               *)
Fingerprint(p) ==
    LET n == cmd[p].name IN
    /\ At(p, "hash")
    /\ IF Exists(bin[n])
       THEN cmd' = [cmd EXCEPT ![p].pc = "drop", ![p].sha = bin[n].build]
       ELSE Fail(p)
    /\ UNCHANGED files /\ Steady

(* install: remove_dir_all(.staging), whatever the result.                 *)
DropStaging(p) ==
    /\ At(p, "drop")
    /\ staging' = Emptied(FALSE)
    /\ Goto(p, IF cmd[p].name \notin cmd[p].failed THEN "record"
               ELSE IF cmd[p].op = "update" THEN "next" ELSE "idle")
    /\ UNCHANGED <<bin, manifest, record>> /\ Steady

RecordAsRequested(p) == LET c == cmd[p] IN
    [pin |-> c.pin, sha |-> c.sha,
     version |-> IF KindOf[c.name] = "local" THEN None ELSE c.pin]

(* The label of the record has the pin of the command, which `update`      *)
(* dropped; the version is the one the installer resolved.                 *)
RecordOf(p) == LET c == cmd[p] IN
    [pin |-> c.pin, sha |-> c.sha,
     version |-> IF KindOf[c.name] = "local" THEN None ELSE c.got]

(* record.save, a file written aside and renamed, or not at all.           *)
SaveRecord(p) ==
    LET n == cmd[p].name IN
    /\ At(p, "record")
    /\ \/ /\ record' = [record EXCEPT ![n] = RecordOf(p)]
          /\ Goto(p, IF cmd[p].op = "update" THEN "refresh"
                     ELSE IF cmd[p].set = "on" THEN "config" ELSE "idle")
       \/ /\ IF cmd[p].op = "update"
             THEN cmd' = [cmd EXCEPT ![p].pc = "next", ![p].failed = @ \cup {n}]
             ELSE Goto(p, "idle")
          /\ UNCHANGED record
    /\ UNCHANGED <<bin, manifest, staging>> /\ Steady

(* apply: refresh_manifest_in overwrites the manifest if the binary prints *)
(* one.                                                                    *)
RefreshManifest(p) ==
    LET n == cmd[p].name IN
    /\ At(p, "refresh")
    /\ \E prints \in BOOLEAN :
          manifest' = IF prints /\ Exists(bin[n]) THEN manifest \cup {n} ELSE manifest
    /\ Goto(p, "next")
    /\ UNCHANGED <<bin, record, staging>> /\ Steady

(* ext_install::remove: the executable, then the files beside it.          *)
RemoveBinary(p) ==
    /\ At(p, "remove")
    /\ bin' = [bin EXCEPT ![cmd[p].name] = NoFile]
    /\ Goto(p, "sweep")
    /\ UNCHANGED <<manifest, record, staging>> /\ Steady
RemoveRest(p) ==
    LET n == cmd[p].name IN
    /\ At(p, "sweep")
    /\ manifest' = manifest \ {n}
    /\ record' = [record EXCEPT ![n] = NoRecord]
    /\ Goto(p, IF cmd[p].conf[n] # "unset" THEN "config" ELSE "idle")
    /\ UNCHANGED <<bin, staging>> /\ Steady

(* config.save writes the whole config as the process read it at its       *)
(* start, with its own change.                                             *)
SaveConfig(p) ==
    /\ At(p, "config")
    /\ conf' = [cmd[p].conf EXCEPT ![cmd[p].name] = cmd[p].set]
    /\ Goto(p, "idle")
    /\ UNCHANGED <<files, upstream, started, contested>>

(* The command is killed, at any step.                                     *)
Crash(p) == /\ ~At(p, "idle")
            /\ Goto(p, "idle")
            /\ UNCHANGED files /\ Steady

(* Upstream publishes a build; a path may vanish.                          *)
Publish(n) == /\ \E b \in Builds \cup {None} :
                    /\ b > upstream[n] \/ (b = None /\ OnDisk(n))
                    /\ b # upstream[n]
                    /\ upstream' = [upstream EXCEPT ![n] = b]
              /\ UNCHANGED <<files, conf, cmd, started, contested>>

InstallStep(p) == ClearStaging(p) \/ StageBegin(p) \/ StageEnd(p) \/ MoveAside(p)
                    \/ Place(p) \/ TakeManifest(p) \/ Fingerprint(p) \/ DropStaging(p)
CommandStep(p) == InstallStep(p) \/ NextItem(p) \/ SaveRecord(p) \/ RefreshManifest(p)
                    \/ RemoveBinary(p) \/ RemoveRest(p) \/ SaveConfig(p)
Start(p) == \/ \E n \in Names, pin \in Builds \cup {None}, set \in {"on", "unset"} :
                   StartInstall(p, n, pin, set)
            \/ \E S \in SUBSET Names, force, answers \in BOOLEAN :
                   StartUpdate(p, S, force, answers)
            \/ \E n \in Names : StartRemove(p, n)
            \/ \E n \in Names, set \in {"on", "off"} : StartSetEnabled(p, n, set)

Next == \/ \E p \in Procs : Start(p) \/ CommandStep(p) \/ Crash(p)
        \/ \E n \in Names : Publish(n)

Spec == Init /\ [][Next]_vars
-----------------------------------------------------------------------------
(***************************************************************************)
(* Properties.                                                             *)
(***************************************************************************)
(* "A failed or interrupted install cannot leave a half-written executable *)
(* where klava would run it" (ext_install.rs): at no time, with commands   *)
(* on different extensions deleting each other's staging and any of them   *)
(* killed at any step, is the installed file a partial copy. It may be     *)
(* once two commands at once were about one extension, as no lock keeps    *)
(* the second from moving what the first is still writing.                 *)
NothingHalfWritten == \A n \in Names : bin[n].whole \/ n \in contested

(* `update` settles: what it has just updated is what the next `update`    *)
(* calls current, so that a no-op update does not build for minutes        *)
(* (plan_for, the version resolved by the installer, and the fingerprint   *)
(* in the record): unless upstream has moved on, or another command was    *)
(* about the same extension, or the source is one that is always built     *)
(* again. Of a crate in a local directory EXTENSIONS.md:62-66 says         *)
(* otherwise: "Nothing is built when the recorded version already is the   *)
(* latest".                                                                *)
UpdateSettles ==
    \A p \in Procs : At(p, "next") /\ cmd[p].name # None =>
        LET n == cmd[p].name IN
        (/\ n \notin cmd[p].failed /\ n \notin contested
         /\ upstream[n] = cmd[p].got
         /\ KindOf[n] \notin {"git", "crate"})
            => PlanFor(n, FALSE, TRUE) = "current"

(* What ext_install.rs:929-930 says of commit: "a failure at any point     *)
(* leaves either the old file or the new one", and `update` of an          *)
(* extension that failed: "the previous build is still in place"           *)
(* (ext_update.rs:182).                                                    *)
FailureKeepsArtifact ==
    \A p \in Procs : At(p, "next") /\ cmd[p].name \in cmd[p].failed
        => Exists(bin[cmd[p].name]) \/ cmd[p].name \in contested
=============================================================================
