--------------------------- MODULE SetupLockProofs ---------------------------
(***************************************************************************)
(* What is proved of SetupLock for any number of klava processes, any      *)
(* timeout, any margin and any number of installs.                         *)
(***************************************************************************)
EXTENDS SetupLock, FiniteSetTheorems, TLAPS

Holding == {"recheck", "start", "run", "release"}

(* While nothing has been disturbed the lock is held by the one process    *)
(* that is under it, and is never older than that process' wait.           *)
Undisturbed ==
  /\ \A p \in Procs : p \in lock <=> pc[p] \in Holding
  /\ \A p, q \in lock : p = q
  /\ \A p \in hook : pc[p] = "run"
  /\ \A p \in Procs : /\ pc[p] \notin {"remove", "retry"}
                      /\ pc[p] \in {"recheck", "start"} => age = 0
                      /\ pc[p] = "run" => age <= elapsed[p]
                      /\ pc[p] = "release" => age <= TIMEOUT

(* While no install overlaps a hook, what is about to be recorded is the   *)
(* artifact that was run.                                                  *)
Unswapped ==
  /\ record # NoRecord => record \in provisioned
  /\ \A p \in Procs :
       /\ pc[p] = "run" => ran[p] = sidecar /\ binary = sidecar
       /\ pc[p] = "release" /\ result[p] = "ok" => sidecar \in provisioned
       /\ pc[p] = "record" => sidecar \in provisioned

LEMMA InitType == SetupInit => SetupTypeOK
<1> SUFFICES ASSUME SetupInit PROVE SetupTypeOK
  OBVIOUS
<1>1. 0 \in Builds /\ 0 \in 0 .. StaleAfter /\ 0 \in 0 .. TIMEOUT
  BY SetupAssumption DEF Builds, StaleAfter
<1> QED
  BY <1>1 DEF SetupInit, SetupTypeOK

(* Steps that change only pc and result.                                   *)
Calm(p) ==
  Check(p) \/ LockExists(p) \/ LookAtLock(p) \/ Refused(p) \/ Recheck(p) \/ StartFails(p)

LEMMA NextType == SetupTypeOK /\ [SetupNext]_setupVars => SetupTypeOK'
<1> SUFFICES ASSUME SetupTypeOK, [SetupNext]_setupVars PROVE SetupTypeOK'
  OBVIOUS
<1> USE SetupAssumption DEF SetupTypeOK, Goto, GotoWith, process, lockFile, hooks, artifact, history
<1>0. 0 \in 0 .. StaleAfter /\ StaleAfter \in 0 .. StaleAfter /\ 0 \in 0 .. TIMEOUT
  BY DEF StaleAfter
<1>1. ASSUME NEW p \in Procs, Calm(p) PROVE SetupTypeOK'
  BY <1>1 DEF Calm, Check, LockExists, LookAtLock, Refused, Recheck, StartFails
<1>2. ASSUME NEW p \in Procs, TakeLock(p) \/ RemoveLock(p) \/ Release(p) PROVE SetupTypeOK'
  BY <1>0, <1>2 DEF TakeLock, RemoveLock, Release
<1>3. ASSUME NEW p \in Procs, StartHook(p) PROVE SetupTypeOK'
  BY <1>0, <1>3 DEF StartHook
<1>4. ASSUME NEW p \in Procs, HookExits(p) \/ HookTimesOut(p) PROVE SetupTypeOK'
  BY <1>4 DEF HookExits, HookTimesOut
<1>5. ASSUME NEW p \in Procs, Record(p) \/ Crash(p) PROVE SetupTypeOK'
  BY <1>5 DEF Record, Crash
<1>6. CASE ClockLeaps
  BY <1>0, <1>6 DEF ClockLeaps
<1>7. CASE Tick
  <2>1. \A p \in Procs : pc[p] = "run" => elapsed[p] < TIMEOUT
    BY <1>7 DEF Tick, Urgent
  <2>2. elapsed' \in [Procs -> 0 .. TIMEOUT]
    BY <1>7, <2>1 DEF Tick
  <2>3. age' \in 0 .. StaleAfter
    BY <1>7 DEF Tick, StaleAfter
  <2> QED
    BY <1>7, <2>2, <2>3 DEF Tick
<1>8. CASE InstallBinary \/ InstallRecord
  <2>1. binary' \in Builds /\ sidecar' \in Builds
    BY <1>8 DEF InstallBinary, InstallRecord, Builds
  <2>2. swapped' \in BOOLEAN
    BY <1>8 DEF InstallBinary, InstallRecord, HookPending
  <2> QED
    BY <1>8, <2>1, <2>2 DEF InstallBinary, InstallRecord
<1>9. CASE UNCHANGED setupVars
  BY <1>9 DEF setupVars
<1> QED
  BY <1>1, <1>2, <1>3, <1>4, <1>5, <1>6, <1>7, <1>8, <1>9 DEF SetupNext, RunWith, Calm

(* Every variable keeps its type; in particular klava never waits for a    *)
(* hook longer than TIMEOUT.                                               *)
THEOREM TypeCorrect == SetupSpec => []SetupTypeOK
  BY InitType, NextType, PTL DEF SetupSpec

-----------------------------------------------------------------------------
LEMMA InitUndisturbed == SetupInit => Undisturbed
  BY DEF SetupInit, Undisturbed, Holding

LEMMA NextUndisturbed ==
  SetupTypeOK /\ (~disturbed => Undisturbed) /\ [SetupNext]_setupVars => (~disturbed => Undisturbed)'
<1> SUFFICES ASSUME SetupTypeOK, ~disturbed => Undisturbed, [SetupNext]_setupVars, ~disturbed'
             PROVE  Undisturbed'
  OBVIOUS
<1> USE SetupAssumption DEF Goto, GotoWith, process, lockFile, hooks, artifact, history
<1>0. ~disturbed /\ Undisturbed
  BY DEF SetupNext, RunWith, Check, LockExists, LookAtLock, Refused, Recheck, StartFails, TakeLock,
         RemoveLock, Release, StartHook, HookExits, HookTimesOut, Record, Crash, ClockLeaps,
         Tick, InstallBinary, InstallRecord, setupVars, SetupTypeOK
<1>1. ASSUME NEW p \in Procs, LookAtLock(p) PROVE Undisturbed'
  <2>1. ~(lock # {} /\ age >= StaleAfter)
    <3>1. ASSUME NEW q \in lock PROVE age <= TIMEOUT
      BY <1>0 DEF Undisturbed, Holding, SetupTypeOK
    <3> QED
      BY <3>1 DEF StaleAfter, SetupTypeOK
  <2> QED
    BY <1>0, <1>1, <2>1 DEF LookAtLock, Undisturbed, Holding, SetupTypeOK
<1>2. ASSUME NEW p \in Procs, Calm(p) PROVE Undisturbed'
  BY <1>0, <1>1, <1>2 DEF Calm, Check, LockExists, Refused, Recheck, StartFails,
                          Undisturbed, Holding, SetupTypeOK
<1>3. ASSUME NEW p \in Procs, TakeLock(p) PROVE Undisturbed'
  BY <1>0, <1>3 DEF TakeLock, Undisturbed, Holding, SetupTypeOK
<1>4. ASSUME NEW p \in Procs, RemoveLock(p) PROVE Undisturbed'
  BY <1>0, <1>4 DEF RemoveLock, Undisturbed
<1>5. ASSUME NEW p \in Procs, Release(p) PROVE Undisturbed'
  <2>1. lock = {p}
    BY <1>0, <1>5 DEF Release, Undisturbed, Holding, SetupTypeOK
  <2> QED
    BY <1>0, <1>5, <2>1 DEF Release, Undisturbed, Holding, SetupTypeOK
<1>6. ASSUME NEW p \in Procs, StartHook(p) PROVE Undisturbed'
  BY <1>0, <1>6 DEF StartHook, Undisturbed, Holding, SetupTypeOK
<1>7. ASSUME NEW p \in Procs, HookExits(p) \/ HookTimesOut(p) PROVE Undisturbed'
  BY <1>0, <1>7 DEF HookExits, HookTimesOut, Undisturbed, Holding, SetupTypeOK
<1>8. ASSUME NEW p \in Procs, Record(p) \/ Crash(p) PROVE Undisturbed'
  BY <1>0, <1>8 DEF Record, Crash, Undisturbed, Holding, SetupTypeOK
<1>9. CASE Tick
  <2>1. \A p \in Procs : /\ pc[p] \notin {"recheck", "start", "release"}
                         /\ elapsed'[p] = IF pc[p] = "run" THEN elapsed[p] + 1 ELSE elapsed[p]
    BY <1>9 DEF Tick, Urgent
  <2>2. age' <= age + 1 /\ UNCHANGED <<pc, lock, hook>>
    BY <1>9 DEF Tick, SetupTypeOK
  <2>3. \A p \in Procs : pc'[p] = "run" => age' <= elapsed'[p]
    BY <1>0, <1>9, <2>1, <2>2 DEF Undisturbed, SetupTypeOK, Tick
  <2> QED
    BY <1>0, <2>1, <2>2, <2>3 DEF Undisturbed, Holding
<1>10. CASE ClockLeaps \/ InstallBinary \/ InstallRecord \/ UNCHANGED setupVars
  BY <1>0, <1>10 DEF ClockLeaps, InstallBinary, InstallRecord, setupVars, Undisturbed
<1> QED
  BY <1>2, <1>3, <1>4, <1>5, <1>6, <1>7, <1>8, <1>9, <1>10 DEF SetupNext, RunWith, Calm

LEMMA UndisturbedAlways == SetupSpec => [](SetupTypeOK /\ (~disturbed => Undisturbed))
  BY InitType, NextType, InitUndisturbed, NextUndisturbed, PTL DEF SetupSpec

(* No live process loses its lock, so hooks do not overlap, whatever the   *)
(* timeout: the margin makes up for it.                                    *)
THEOREM HooksAreExclusive == SetupSpec => []ExclusiveUndisturbed
<1>1. SetupTypeOK /\ (~disturbed => Undisturbed) => ExclusiveUndisturbed
  <2> SUFFICES ASSUME SetupTypeOK, Undisturbed PROVE Cardinality(hook) <= 1
    BY DEF ExclusiveUndisturbed
  <2>1. \A p, q \in hook : p = q
    BY DEF Undisturbed, Holding, SetupTypeOK
  <2>2. CASE hook = {}
    BY <2>2, FS_EmptySet
  <2>3. CASE hook # {}
    <3>1. PICK p \in hook : TRUE
      BY <2>3
    <3>2. hook = {p}
      BY <2>1, <3>1
    <3> QED
      BY <3>2, FS_Singleton
  <2> QED
    BY <2>2, <2>3
<1> QED
  BY <1>1, UndisturbedAlways, PTL

(* The lock file is there exactly while its creator is under the lock.     *)
THEOREM LockIsReleased == SetupSpec => []LockReleased
<1>1. SetupTypeOK /\ (~disturbed => Undisturbed) => LockReleased
  BY DEF Undisturbed, Holding, LockReleased
<1> QED
  BY <1>1, UndisturbedAlways, PTL

-----------------------------------------------------------------------------
LEMMA InitUnswapped == SetupInit => Unswapped
  BY DEF SetupInit, Unswapped

LEMMA NextUnswapped ==
  SetupTypeOK /\ (~swapped => Unswapped) /\ [SetupNext]_setupVars => (~swapped => Unswapped)'
<1> SUFFICES ASSUME SetupTypeOK, ~swapped => Unswapped, [SetupNext]_setupVars, ~swapped'
             PROVE  Unswapped'
  OBVIOUS
<1> USE DEF Goto, GotoWith, process, lockFile, hooks, artifact, history, SetupTypeOK
<1>0. ~swapped /\ Unswapped
  BY DEF SetupNext, RunWith, Check, LockExists, LookAtLock, Refused, Recheck, StartFails, TakeLock,
         RemoveLock, Release, StartHook, HookExits, HookTimesOut, Record, Crash, ClockLeaps,
         Tick, InstallBinary, InstallRecord, setupVars
<1>1. ASSUME NEW p \in Procs, Calm(p) PROVE Unswapped'
  BY <1>0, <1>1 DEF Calm, Check, LockExists, LookAtLock, Refused, Recheck, StartFails, Unswapped
<1>2. ASSUME NEW p \in Procs, TakeLock(p) \/ RemoveLock(p) \/ Release(p) PROVE Unswapped'
  BY <1>0, <1>2 DEF TakeLock, RemoveLock, Release, Unswapped
<1>3. ASSUME NEW p \in Procs, StartHook(p) PROVE Unswapped'
  BY <1>0, <1>3 DEF StartHook, Unswapped
<1>4. ASSUME NEW p \in Procs, HookExits(p) PROVE Unswapped'
  BY <1>0, <1>4 DEF HookExits, Unswapped
<1>5. ASSUME NEW p \in Procs, HookTimesOut(p) \/ Record(p) \/ Crash(p) PROVE Unswapped'
  BY <1>0, <1>5 DEF HookTimesOut, Record, Crash, Unswapped
<1>6. CASE Tick \/ ClockLeaps \/ UNCHANGED setupVars
  BY <1>0, <1>6 DEF Tick, ClockLeaps, setupVars, Unswapped
<1>7. CASE InstallBinary \/ InstallRecord
  <2>1. \A p \in Procs : pc[p] \notin {"run", "release", "record"}
    BY <1>7 DEF InstallBinary, InstallRecord, HookPending
  <2> QED
    BY <1>0, <1>7, <2>1 DEF InstallBinary, InstallRecord, Unswapped
<1> QED
  BY <1>1, <1>2, <1>3, <1>4, <1>5, <1>6, <1>7 DEF SetupNext, RunWith, Calm

(* Without an install in between, even with crashes and stolen locks, only *)
(* an artifact whose hook succeeded is ever recorded as set up.            *)
THEOREM RecordsAreEarned == SetupSpec => []RecordIsEarned
<1>1. (~swapped => Unswapped) => RecordIsEarned
  BY DEF Unswapped, RecordIsEarned
<1> QED
  BY <1>1, InitType, NextType, InitUnswapped, NextUnswapped, PTL DEF SetupSpec
=============================================================================
