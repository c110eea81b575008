------------------------------- MODULE SetupLock -------------------------------
(***************************************************************************)
(* The provisioning hook of one extension, as run by several klava         *)
(* processes at once: the lock file that is to keep their hooks apart, and *)
(* the record that says the installed artifact needs no hook any more.     *)
(* Processes may die and the clock may leap; an install may replace the    *)
(* artifact meanwhile, without asking for the lock.                        *)
(***************************************************************************)
EXTENDS Naturals, FiniteSets

CONSTANTS
  Procs,       (* klava commands that want this extension set up           *)
  TIMEOUT,     (* setup.timeout_secs of the manifest, in ticks             *)
  MARGIN,      (* the lock is abandoned this long after (60 s in the code) *)
  MaxBuilds,   (* bound: artifacts that replace the first one              *)
  Faults       (* what may happen: "crash", "leap"                         *)

ASSUME SetupAssumption ==
  /\ TIMEOUT \in Nat /\ MARGIN \in Nat \ {0} /\ MaxBuilds \in Nat

StaleAfter == TIMEOUT + MARGIN
Builds     == 0 .. MaxBuilds
NoRecord   == MaxBuilds + 1      \* no <name>.setup.toml

VARIABLES
  want,         (* Request: "needed" (IfNeeded) or "always"                *)
  pc,           (* where run_with is, for each process                     *)
  result,       (* what it is going to return                              *)
  lock,         (* {}, or {p} for the lock file that p created             *)
  age,          (* time since the modification time of the lock file       *)
  hook,         (* the processes whose hook is running                     *)
  elapsed,      (* how long klava has waited for it                        *)
  ran,          (* the artifact that was started as the hook               *)
  binary,       (* the artifact in place                                   *)
  sidecar,      (* the artifact <name>.source.toml gives the hash of       *)
  record,       (* the artifact <name>.setup.toml gives the hash of        *)
  provisioned,  (* history: artifacts whose hook has succeeded             *)
  disturbed,    (* history: a process died, or the clock leapt             *)
  swapped       (* history: an install overlapped a hook                   *)

process  == <<want, pc, result>>
lockFile == <<lock, age>>
hooks    == <<hook, elapsed, ran, provisioned>>
artifact == <<binary, sidecar>>
history  == <<disturbed, swapped>>
setupVars == <<process, lockFile, hooks, artifact, record, history>>

Goto(p, to) == pc' = [pc EXCEPT ![p] = to]
GotoWith(p, to, res) == Goto(p, to) /\ result' = [result EXCEPT ![p] = res]

SetupInit ==
  /\ want \in [Procs -> {"needed", "always"}]
  /\ pc = [p \in Procs |-> "check"]
  /\ result = [p \in Procs |-> "none"]
  /\ lock = {} /\ age = 0
  /\ hook = {} /\ elapsed = [p \in Procs |-> 0] /\ ran = [p \in Procs |-> 0]
  /\ binary = 0 /\ sidecar = 0
  /\ record = NoRecord
  /\ provisioned = {}
  /\ disturbed = FALSE /\ swapped = FALSE

(* is_current: the record is of the artifact that is installed.            *)
IsCurrent == record = sidecar

AlreadyDone(p) == want[p] = "needed" /\ IsCurrent

-----------------------------------------------------------------------------
(* run_with up to the lock.  The user may take any time to consent.        *)
Check(p) ==
  /\ pc[p] = "check"
  /\ \/ AlreadyDone(p) /\ GotoWith(p, "done", "already")
     \/ ~AlreadyDone(p) /\ GotoWith(p, "done", "declined")
     \/ ~AlreadyDone(p) /\ Goto(p, "acquire") /\ UNCHANGED result
  /\ UNCHANGED <<want, lockFile, hooks, artifact, record, history>>

(* Lock::acquire: create_new, at the first or at the second attempt.       *)
TakeLock(p) ==
  /\ pc[p] \in {"acquire", "retry"} /\ lock = {}
  /\ lock' = {p} /\ age' = 0
  /\ Goto(p, "recheck")
  /\ UNCHANGED <<want, result, hooks, artifact, record, history>>

LockExists(p) ==
  /\ pc[p] = "acquire" /\ lock # {}
  /\ Goto(p, "stat")
  /\ UNCHANGED <<want, result, lockFile, hooks, artifact, record, history>>

(* Mutant of LookAtLock: a lock is abandoned as soon as the hook may have  *)
(* timed out.                                                              *)
LookAtLockHasty(p) ==
  /\ pc[p] = "stat"
  /\ IF lock # {} /\ age >= TIMEOUT
       THEN Goto(p, "remove") /\ UNCHANGED result
       ELSE GotoWith(p, "done", "refused")
  /\ UNCHANGED <<want, lockFile, hooks, artifact, record, history>>

(* A lock file that is gone again has no age: refused as well.             *)
LookAtLock(p) ==
  /\ pc[p] = "stat"
  /\ IF lock # {} /\ age >= StaleAfter
       THEN Goto(p, "remove") /\ UNCHANGED result
       ELSE GotoWith(p, "done", "refused")
  /\ UNCHANGED <<want, lockFile, hooks, artifact, record, history>>

(* Abandoned: whatever file has that name by now is removed.               *)
RemoveLock(p) ==
  /\ pc[p] = "remove"
  /\ lock' = {} /\ age' = 0
  /\ Goto(p, "retry")
  /\ UNCHANGED <<want, result, hooks, artifact, record, history>>

(* The second attempt finds a lock again; or the file cannot be created.   *)
Refused(p) ==
  /\ pc[p] \in {"acquire", "retry"}
  /\ GotoWith(p, "done", "refused")
  /\ UNCHANGED <<want, lockFile, hooks, artifact, record, history>>

-----------------------------------------------------------------------------
(* run_with under the lock.                                                *)
Recheck(p) ==
  /\ pc[p] = "recheck"
  /\ IF AlreadyDone(p) THEN GotoWith(p, "release", "already")
                       ELSE Goto(p, "start") /\ UNCHANGED result
  /\ UNCHANGED <<want, lockFile, hooks, artifact, record, history>>

StartHook(p) ==
  /\ pc[p] = "start"
  /\ Goto(p, "run")
  /\ hook' = hook \cup {p}
  /\ elapsed' = [elapsed EXCEPT ![p] = 0]
  /\ ran' = [ran EXCEPT ![p] = binary]
  /\ swapped' = (swapped \/ binary # sidecar)
  /\ UNCHANGED <<want, result, lockFile, provisioned, artifact, record, disturbed>>

StartFails(p) ==
  /\ pc[p] = "start"
  /\ GotoWith(p, "release", "failed")
  /\ UNCHANGED <<want, lockFile, hooks, artifact, record, history>>

(* Mutant of HookExits: a nonzero exit counts as a success.                *)
HookExitsAnyhow(p) ==
  /\ p \in hook
  /\ hook' = hook \ {p}
  /\ \E ok \in BOOLEAN :
       /\ provisioned' = IF ok THEN provisioned \cup {ran[p]} ELSE provisioned
       /\ IF pc[p] = "run" THEN GotoWith(p, "release", "ok")
                           ELSE UNCHANGED <<pc, result>>
  /\ UNCHANGED <<want, lockFile, elapsed, ran, artifact, record, history>>

(* The hook exits, and klava, if it still waits, sees it.                  *)
HookExits(p) ==
  /\ p \in hook
  /\ hook' = hook \ {p}
  /\ \E ok \in BOOLEAN :
       /\ provisioned' = IF ok THEN provisioned \cup {ran[p]} ELSE provisioned
       /\ IF pc[p] = "run" THEN GotoWith(p, "release", IF ok THEN "ok" ELSE "failed")
                           ELSE UNCHANGED <<pc, result>>
  /\ UNCHANGED <<want, lockFile, elapsed, ran, artifact, record, history>>

(* Mutant of HookTimesOut: the timeout is never reached.                   *)
HookTimesOutLater(p) ==
  /\ pc[p] = "run" /\ elapsed[p] > TIMEOUT
  /\ hook' = hook \ {p}
  /\ GotoWith(p, "release", "failed")
  /\ UNCHANGED <<want, lockFile, elapsed, ran, provisioned, artifact, record, history>>

HookTimesOut(p) ==
  /\ pc[p] = "run" /\ elapsed[p] >= TIMEOUT
  /\ hook' = hook \ {p}
  /\ GotoWith(p, "release", "failed")
  /\ UNCHANGED <<want, lockFile, elapsed, ran, provisioned, artifact, record, history>>

(* Mutant of Release: only a success drops the lock.                       *)
ReleaseOnSuccess(p) ==
  /\ pc[p] = "release"
  /\ IF result[p] = "ok" THEN lock' = {} /\ age' = 0 ELSE UNCHANGED lockFile
  /\ Goto(p, IF result[p] = "ok" THEN "record" ELSE "done")
  /\ UNCHANGED <<want, result, hooks, artifact, record, history>>

(* drop(lock): the file is removed, whoever created it.                    *)
Release(p) ==
  /\ pc[p] = "release"
  /\ lock' = {} /\ age' = 0
  /\ Goto(p, IF result[p] = "ok" THEN "record" ELSE "done")
  /\ UNCHANGED <<want, result, hooks, artifact, record, history>>

(* store::record, after the lock: the artifact is looked up now.  A record *)
(* that cannot be written does not fail the command.                       *)
Record(p) ==
  /\ pc[p] = "record"
  /\ record' \in {sidecar, record}
  /\ Goto(p, "done")
  /\ UNCHANGED <<want, result, lockFile, hooks, artifact, history>>

-----------------------------------------------------------------------------
(* The environment.  A klava process dies and leaves its lock; its hook    *)
(* dies with it (Ctrl-C reaches both) or lives on (a kill does not).       *)
Crash(p) ==
  /\ "crash" \in Faults /\ pc[p] \notin {"check", "done", "dead"}
  /\ Goto(p, "dead")
  /\ hook' \in {hook, hook \ {p}}
  /\ disturbed' = TRUE
  /\ UNCHANGED <<want, result, lockFile, elapsed, ran, provisioned, artifact,
                 record, swapped>>

(* The age of the lock is wall-clock time, the wait for the hook is not: a *)
(* suspended machine or a clock that is set moves one without the other.   *)
ClockLeaps ==
  /\ "leap" \in Faults /\ lock # {}
  /\ age' \in {0, StaleAfter}
  /\ disturbed' = TRUE
  /\ UNCHANGED <<process, lock, hooks, artifact, record, swapped>>

(* Time passes.  Under the lock a process does nothing that takes time but *)
(* wait for the hook, which it looks at ten times a second.                *)
Urgent(p) ==
  \/ pc[p] \in {"recheck", "start", "release"}
  \/ pc[p] = "run" /\ elapsed[p] >= TIMEOUT

Tick ==
  /\ \A p \in Procs : ~Urgent(p)
  /\ age' = IF lock # {} /\ age < StaleAfter THEN age + 1 ELSE age
  /\ elapsed' = [p \in Procs |-> IF pc[p] = "run" THEN elapsed[p] + 1 ELSE elapsed[p]]
  /\ UNCHANGED <<process, lock, hook, ran, provisioned, artifact, record, history>>

(* An install or update replaces the artifact, and later writes its hash.  *)
HookPending == \E p \in Procs : pc[p] \in {"run", "release", "record"}

InstallBinary ==
  /\ binary = sidecar /\ binary < MaxBuilds
  /\ binary' = binary + 1
  /\ swapped' = (swapped \/ HookPending)
  /\ UNCHANGED <<process, lockFile, hooks, sidecar, record, disturbed>>

InstallRecord ==
  /\ sidecar # binary
  /\ sidecar' = binary
  /\ swapped' = (swapped \/ HookPending)
  /\ UNCHANGED <<process, lockFile, hooks, binary, record, disturbed>>

-----------------------------------------------------------------------------
(* What run_with does without a user and without another process: the      *)
(* consent and the exit of a hook are not in it.                           *)
RunWith(p) ==
  \/ TakeLock(p) \/ LockExists(p) \/ LookAtLock(p) \/ RemoveLock(p) \/ Refused(p)
  \/ Recheck(p) \/ StartHook(p) \/ StartFails(p) \/ HookTimesOut(p)
  \/ Release(p) \/ Record(p)

SetupNext ==
  \/ \E p \in Procs : Check(p) \/ RunWith(p) \/ HookExits(p) \/ Crash(p)
  \/ ClockLeaps \/ Tick \/ InstallBinary \/ InstallRecord

SetupSpec == SetupInit /\ [][SetupNext]_setupVars

-----------------------------------------------------------------------------
SetupTypeOK ==
  /\ want \in [Procs -> {"needed", "always"}]
  /\ pc \in [Procs -> {"check", "acquire", "stat", "remove", "retry", "recheck", "start",
                       "run", "release", "record", "done", "dead"}]
  /\ result \in [Procs -> {"none", "already", "declined", "refused", "ok", "failed"}]
  /\ lock \in SUBSET Procs
  /\ age \in 0 .. StaleAfter
  /\ hook \in SUBSET Procs
  /\ elapsed \in [Procs -> 0 .. TIMEOUT]
  /\ ran \in [Procs -> Builds]
  /\ binary \in Builds /\ sidecar \in Builds
  /\ record \in Builds \cup {NoRecord}
  /\ provisioned \in SUBSET Builds
  /\ disturbed \in BOOLEAN /\ swapped \in BOOLEAN

(* "Two setups for one extension racing on the same `.part` file would     *)
(* corrupt it": as long as no process dies and the clock is steady, no two *)
(* hooks run at once, however long one takes: no lock of a process that is *)
(* alive is ever taken for abandoned.                                      *)
ExclusiveUndisturbed == ~disturbed => Cardinality(hook) <= 1

(* No setup leaves its lock behind, which would have every later one be    *)
(* refused until the timeout of the hook has passed.                       *)
LockReleased ==
  ~disturbed => \A p \in Procs :
    p \in lock <=> pc[p] \in {"recheck", "start", "run", "release"}

(* "its presence means: this succeeded": unless an install came in between *)
(* the record names an artifact whose hook has succeeded.                  *)
RecordIsEarned ==
  record # NoRecord /\ ~swapped => record \in provisioned

(* "A lock that outlives its own hook can only belong to a process that    *)
(* died": so no two live processes ever run the hook at once.              *)
OneLiveSetup == \A p, q \in Procs : pc[p] = "run" /\ pc[q] = "run" => p = q

(* "klava re-runs the hook when the artifact changes": setup counts as     *)
(* done only for an artifact whose own hook has succeeded.                 *)
DoneIsProvisioned == binary = sidecar /\ IsCurrent => binary \in provisioned
=============================================================================
