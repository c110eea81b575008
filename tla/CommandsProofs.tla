--------------------------- MODULE CommandsProofs ---------------------------
(***************************************************************************)
(* What is proved of what the commands of klava leave on a machine.        *)
(*                                                                         *)
(* Service, for any flags, models, bounds and crash limit: under launchd   *)
(* an agent that is loaded is the plist as it stands, except where the     *)
(* plist was written over an agent that no unload has stopped since; and   *)
(* what runs was started from what is loaded.                              *)
(*                                                                         *)
(* SignIn: a Qwen session outlives any number of requests that refresh it  *)
(* at once, for any lives of codes and tokens, while no answer to a        *)
(* refresh is lost.  A writer is a request that has an answer it has not   *)
(* written yet.  The argument: only a request that still asks can retire a *)
(* token, and when tokens rotate nobody but its writer, or nobody at all,  *)
(* knows a token that is not in the file yet.  So what a writer holds      *)
(* stays good, and a file whose token was retired has a writer that is     *)
(* still to come or lost its answer.  And `klava login` polls for no       *)
(* longer than the code lives, plus one wait.                              *)
(*                                                                         *)
(* ExtensionFiles: for any processes and extensions, the executable of an  *)
(* extension that no two commands were about at once is never half         *)
(* written, and an update of a release leaves nothing to update.           *)
(*                                                                         *)
(* ProviderConfig, for any catalog, editors and old layouts: the pointers  *)
(* of the config file name configured models, and no command loses a       *)
(* connection it loaded.  The argument: every copy a command works on has  *)
(* its pointers right by itself, so it does not matter which copy is       *)
(* stored last; an old layout is in the file only before the first load.   *)
(* The entries are built by loops, and each loop is followed from one turn *)
(* to the next (Climb, WalkExists).                                        *)
(*                                                                         *)
(* ModelFetch, for files of any number of blocks and any number of runs    *)
(* side by side: a model file in its place is what the server had, unless  *)
(* two runs downloaded it at once or it was resumed across a new version.  *)
(***************************************************************************)
EXTENDS Commands, FiniteSetTheorems, SequenceTheorems, WellFoundedInduction, TLAPS

-----------------------------------------------------------------------------
(* The background service.                                                 *)

(* What launchd keeps: an agent that is loaded is the plist, unless the    *)
(* plist was written over it; a process of an agent was started from it.   *)
Agent ==
  manager = "launchd" =>
    /\ loaded # NotThere => overwritten \/ loaded = unit
    /\ proxy # NotThere => loaded # NotThere /\ proxy.flags = loaded.flags

(* What is started was written.                                            *)
StartedIsWritten ==
  command.step \in {"reload", "unload", "start", "health"} => unit # NotThere

LEMMA FilesAreFiles == CutOff # NotThere /\ \A want : Rendered(want) # NotThere
<1> SUFFICES ASSUME NEW want PROVE CutOff # NotThere /\ Rendered(want) # NotThere
  OBVIOUS
<1>1. /\ UnitFile(want).kind = "unit" /\ Plist(want).kind = "plist"
      /\ CutOff.kind = "torn" /\ NotThere.kind = "none"
  BY DEF UnitFile, Plist, NotThere, CutOff
<1> QED
  BY <1>1 DEF Rendered

LEMMA StartedFlags == ASSUME NEW def PROVE Started(def).flags = def.flags
  BY DEF Started

LEMMA ManagerStays == [ServiceNext]_serviceVars => manager' = manager
<1> SUFFICES ASSUME [ServiceNext]_serviceVars PROVE manager' = manager
  OBVIOUS
<1>1. CASE Converge \/ LaunchChild \/ DaemonMode \/ Look \/ WriteUnit \/ ReloadUnit
           \/ WritePlist \/ UnloadAgent \/ StartUnit \/ LoadAgent \/ WaitHealth \/ CommandDies
  BY <1>1 DEF Converge, LaunchChild, DaemonMode, Look, WriteUnit, ReloadUnit, WritePlist,
              UnloadAgent, StartUnit, LoadAgent, WaitHealth, CommandDies
<1>2. CASE Stop \/ RestartUnit \/ RestartAgent \/ UpForeground \/ ChildEnds \/ Upgrade
           \/ SetDefault \/ ProxyCrashes \/ Heal \/ ForeignMoves \/ UNCHANGED serviceVars
  BY <1>2 DEF Stop, RestartUnit, RestartAgent, UpForeground, ChildEnds, Upgrade, SetDefault,
              ProxyCrashes, Heal, ForeignMoves, serviceVars
<1> QED
  BY <1>1, <1>2 DEF ServiceNext

LEMMA InitWritten == ServiceInit => StartedIsWritten
  BY DEF ServiceInit, AtRest, StartedIsWritten

LEMMA NextWritten == StartedIsWritten /\ [ServiceNext]_serviceVars => StartedIsWritten'
<1> SUFFICES ASSUME StartedIsWritten, [ServiceNext]_serviceVars PROVE StartedIsWritten'
  OBVIOUS
<1>1. CASE Converge \/ LaunchChild \/ DaemonMode \/ Stop \/ CommandDies
  <2>1. command'.step \notin {"reload", "unload", "start", "health"}
    BY <1>1 DEF Converge, LaunchChild, DaemonMode, Stop, CommandDies, AtRest
  <2> QED
    BY <2>1 DEF StartedIsWritten
<1>2. CASE Look
  <2>1. unit' = unit
    BY <1>2 DEF Look, service
  <2>2. CASE unit = Rendered(command.want)
    BY <2>1, <2>2, FilesAreFiles DEF StartedIsWritten
  <2>3. CASE unit # Rendered(command.want)
    <3>1. command'.step \in {"error", "write"}
      BY <1>2, <2>3 DEF Look
    <3> QED
      BY <3>1 DEF StartedIsWritten
  <2> QED
    BY <2>2, <2>3
<1>3. CASE WriteUnit \/ WritePlist
  <2>1. unit' # NotThere
    BY <1>3, FilesAreFiles DEF WriteUnit, WritePlist, WritesUnit
  <2> QED
    BY <2>1 DEF StartedIsWritten
<1>4. CASE ReloadUnit \/ UnloadAgent \/ StartUnit \/ LoadAgent \/ WaitHealth
  BY <1>4 DEF ReloadUnit, UnloadAgent, StartUnit, LoadAgent, WaitHealth, StartedIsWritten,
              service
<1>5. CASE RestartUnit \/ RestartAgent
  BY <1>5 DEF RestartUnit, RestartAgent, StartedIsWritten, service
<1>6. CASE UNCHANGED <<command, unit>>
  BY <1>6 DEF StartedIsWritten
<1>7. ASSUME UpForeground \/ ChildEnds \/ Upgrade \/ SetDefault \/ ProxyCrashes \/ Heal
             \/ ForeignMoves \/ UNCHANGED serviceVars
      PROVE  UNCHANGED <<command, unit>>
  BY <1>7
  DEF UpForeground, ChildEnds, Upgrade, SetDefault, ProxyCrashes, Heal, ForeignMoves,
      serviceVars, service
<1> QED
  BY <1>1, <1>2, <1>3, <1>4, <1>5, <1>6, <1>7 DEF ServiceNext

LEMMA InitAgent == ServiceInit => Agent
  BY DEF ServiceInit, Agent

LEMMA NextAgent == StartedIsWritten /\ Agent /\ [ServiceNext]_serviceVars => Agent'
<1> SUFFICES ASSUME StartedIsWritten, Agent, [ServiceNext]_serviceVars, manager = "launchd"
             PROVE  Agent'
  BY ManagerStays DEF Agent
<1>1. CASE UNCHANGED <<manager, service>>
  BY <1>1 DEF Agent, service
<1>2. ASSUME Converge \/ LaunchChild \/ DaemonMode \/ Look \/ WaitHealth \/ CommandDies
             \/ RestartAgent \/ UpForeground \/ ChildEnds \/ Upgrade \/ SetDefault
             \/ ForeignMoves \/ UNCHANGED serviceVars
      PROVE  UNCHANGED <<manager, service>>
  BY <1>2 DEF serviceVars, Converge, LaunchChild, DaemonMode, Look, WaitHealth, CommandDies,
              RestartAgent, UpForeground, ChildEnds, Upgrade, SetDefault, ForeignMoves
<1>3. CASE WriteUnit \/ StartUnit \/ RestartUnit
  BY <1>3 DEF WriteUnit, StartUnit, RestartUnit
<1>4. ASSUME UnloadAgent \/ Stop
      PROVE  Agent'
  <2>1. StopManaged /\ unit' = unit
    BY <1>4 DEF UnloadAgent, Stop
  <2>2. \/ loaded' = NotThere /\ proxy' = NotThere
        \/ UNCHANGED <<loaded, proxy, overwritten>>
    BY <2>1 DEF StopManaged, Unloaded
  <2> QED
    BY <2>1, <2>2 DEF Agent
<1>5. CASE WritePlist
  BY <1>5 DEF WritePlist, Agent
<1>6. CASE ReloadUnit
  BY <1>6 DEF ReloadUnit
<1>7. CASE LoadAgent
  <2>1. CASE UNCHANGED <<loaded, proxy>>
    BY <1>7, <2>1 DEF LoadAgent, Agent
  <2>2. CASE ~UNCHANGED <<loaded, proxy>>
    <3>1. loaded = NotThere
      BY <1>7, <2>2 DEF LoadAgent, AsRead
    <3>2. proxy' = Started(loaded') /\ loaded' = unit /\ unit' = unit
      BY <1>7, <2>2, <3>1 DEF LoadAgent, AsRead
    <3>3. unit # NotThere
      BY <1>7 DEF LoadAgent, StartedIsWritten
    <3> QED
      BY <3>2, <3>3, StartedFlags DEF Agent
  <2> QED
    BY <2>1, <2>2
<1>8. CASE ProxyCrashes
  BY <1>8 DEF ProxyCrashes, Agent
<1>9. CASE Heal
  <2>1. /\ loaded # NotThere /\ proxy' = Started(loaded)
        /\ UNCHANGED <<manager, loaded, unit, overwritten>>
    BY <1>9 DEF Heal
  <2> QED
    BY <2>1, StartedFlags DEF Agent
<1> QED
  BY <1>1, <1>2, <1>3, <1>4, <1>5, <1>6, <1>7, <1>8, <1>9 DEF ServiceNext

(* launchd runs a proxy with flags that its plist does not carry only      *)
(* where the plist was written over the loaded agent and no unload has     *)
(* succeeded since, however commands, their deaths, crashes and restarts   *)
(* interleave.                                                             *)
THEOREM AgentIsCurrent == ServiceSpec => []LaunchdCurrent
<1>1. Agent => LaunchdCurrent
  BY DEF Agent, LaunchdCurrent, Current
<1> QED
  BY <1>1, InitWritten, NextWritten, InitAgent, NextAgent, PTL DEF ServiceSpec

-----------------------------------------------------------------------------
(* The Qwen session.                                                       *)

CallRecords ==
  [step : {"idle"}] \cup [step : {"refresh"}, refresh : Nat]
    \cup [step : {"truncate", "write"}, refresh : Nat, used : Nat]

Writer(r) == calls[r].step \in {"truncate", "write"}
Busy(r) == calls[r].step # "idle"

(* The login command has a Qwen grant that is not in the file yet.         *)
GrantHeld == flow.step = "write" \/ (flow.step = "granted" /\ provider = "qwen")

(* A record of the poll loop.                                              *)
Looping(f) ==
  f = [step |-> f.step, age |-> f.age, rest |-> f.rest, polled |-> f.polled,
       life |-> f.life, interval |-> f.interval, asked |-> f.asked]

Shapes ==
  /\ issued \in Nat /\ policy \in Policies
  /\ accepted \subseteq 1 .. issued
  /\ calls \in [Requests -> CallRecords]
  /\ \A r \in Requests : Busy(r) => calls[r].refresh <= issued
  /\ Readable(file) =>
       /\ file = [state |-> "whole", refresh |-> file.refresh, left |-> file.left]
       /\ file.refresh \in 0 .. issued
  /\ flow.step \in {"sleep", "asked"} => Looping(flow)
  /\ flow.step = "granted" => flow = [step |-> "granted", grant |-> flow.grant]

(* What is held is good.                                                   *)
Good ==
  /\ \A r \in Requests : Writer(r) => calls[r].refresh \in accepted
  /\ GrantHeld => flow.grant \in accepted

(* When tokens rotate, what is held is known to its holder alone.          *)
Own ==
  policy = "rotates" =>
    /\ \A r \in Requests : Writer(r) =>
         \A q \in Requests \ {r} : Busy(q) => calls[q].refresh # calls[r].refresh
    /\ \A r \in Requests : Writer(r) /\ Readable(file) => file.refresh # calls[r].refresh
    /\ \A r \in Requests : GrantHeld /\ Busy(r) => calls[r].refresh # flow.grant
    /\ GrantHeld /\ Readable(file) => file.refresh # flow.grant

(* A file whose token was retired has the one coming that replaced it,     *)
(* unless that was lost.                                                   *)
Coming ==
  Readable(file) /\ file.refresh \notin accepted \cup lost =>
    \E r \in Requests : Writer(r) /\ calls[r].used = file.refresh

IInv == Shapes /\ Good /\ Own /\ Coming

LEMMA InitIInv == SignInit => IInv
  BY DEF SignInit, IInv, Shapes, Good, Own, Coming, Busy, Writer, CallRecords, GrantHeld,
         NoFlow, Readable, Absent, Policies

LEMMA MaxOfTwo ==
  ASSUME NEW a \in Nat, NEW b \in Nat
  PROVE  Max({a, b}) = IF a >= b THEN a ELSE b
<1>1. PICK m \in {a, b} : m = (IF a >= b THEN a ELSE b) /\ \A y \in {a, b} : m >= y
  OBVIOUS
<1>2. \A x \in {a, b} : (\A y \in {a, b} : x >= y) => x = m
  BY <1>1
<1> QED
  BY <1>1, <1>2 DEF Max

(* What leaves the requests, the file and the server's tokens alone, and   *)
(* gives the login no grant.                                               *)
LEMMA FlowStep ==
  ASSUME IInv, UNCHANGED <<file, accepted, policy, calls, lost>>,
         issued' \in Nat, issued <= issued',
         flow'.step \in {"sleep", "asked"} => Looping(flow'),
         flow'.step = "granted" => flow' = [step |-> "granted", grant |-> flow'.grant],
         GrantHeld' => GrantHeld /\ flow'.grant = flow.grant
  PROVE  IInv'
<1>1. Shapes'
  BY DEF IInv, Shapes, Busy, Readable, Looping, CallRecords
<1>2. Good' /\ Own' /\ Coming'
  BY DEF IInv, Good, Own, Coming, Writer, Busy, Readable
<1> QED
  BY <1>1, <1>2 DEF IInv

LEMMA LoopShape ==
  ASSUME NEW f, Looping(f), f.step \in {"sleep", "asked"}
  PROVE  /\ Loop(f).step \in {"none", "sleep"}
         /\ Loop(f).step = "sleep" => Looping(Loop(f))
<1> DEFINE u == [f EXCEPT !.step = "sleep"]
           v == [u EXCEPT !.rest = IF f.polled THEN f.interval ELSE 0]
<1>1. Loop(f) \in {NoFlow, v}
  BY DEF Loop
<1>2. u.step = "sleep" /\ Looping(u)
  BY DEF Looping
<1> HIDE DEF u
<1>3. v.step = "sleep" /\ Looping(v)
  BY <1>2 DEF Looping
<1> HIDE DEF v
<1> QED
  BY <1>1, <1>3 DEF NoFlow

LEMMA PolledShape ==
  ASSUME NEW f, Looping(f), NEW p
  PROVE  [f EXCEPT !.polled = p].step = f.step /\ Looping([f EXCEPT !.polled = p])
  BY DEF Looping

LEMMA PollSteps ==
  IInv /\ (Begin \/ Poll \/ QwenAnswered \/ KlavaAnswered) => IInv'
<1> SUFFICES ASSUME IInv, Begin \/ Poll \/ QwenAnswered \/ KlavaAnswered PROVE IInv'
  OBVIOUS
<1>1. issued \in Nat /\ issued <= issued
  BY DEF IInv, Shapes
<1>2. CASE Begin
  <2>1. PICK life \in CodeLives, interval \in PollIntervals :
          flow' \in {QwenFlow(life, interval), KlavaFlow(life, interval)}
    BY <1>2 DEF Begin
  <2>2. /\ flow'.step \in {"none", "sleep"}
        /\ flow'.step = "sleep" => Looping(flow')
    BY <2>1, LoopShape DEF QwenFlow, KlavaFlow, Looping
  <2>3. ~GrantHeld'
    BY <2>2 DEF GrantHeld
  <2> QED
    BY <1>1, <1>2, <2>2, <2>3, FlowStep DEF Begin
<1>3. CASE Poll
  <2> DEFINE u == [flow EXCEPT !.step = "asked"]
             v == [u EXCEPT !.polled = TRUE]
  <2>1. flow' = v /\ Looping(flow)
    BY <1>3 DEF Poll, IInv, Shapes
  <2>2. u.step = "asked" /\ Looping(u)
    BY <2>1 DEF Looping
  <2> HIDE DEF u
  <2>3. v.step = "asked" /\ Looping(v)
    BY <2>2, PolledShape
  <2> HIDE DEF v
  <2>4. ~GrantHeld'
    BY <2>1, <2>3 DEF GrantHeld
  <2> QED
    BY <1>1, <1>3, <2>1, <2>3, <2>4, FlowStep DEF Poll
<1>4. ASSUME flow.step = "asked", flow' \in NotYet,
             UNCHANGED <<issued, accepted, file, policy, calls, lost>>
      PROVE  IInv'
  <2> DEFINE s == [flow EXCEPT !.interval = SlowDown(@)]
  <2>1. Looping(flow)
    BY <1>4 DEF IInv, Shapes
  <2>2. s.step = "asked" /\ Looping(s)
    BY <1>4, <2>1 DEF Looping
  <2>3. flow' \in {Loop(flow), Loop(s), NoFlow}
    BY <1>4 DEF NotYet
  <2> HIDE DEF s
  <2>4. /\ flow'.step \in {"none", "sleep"}
        /\ flow'.step = "sleep" => Looping(flow')
    BY <1>4, <2>1, <2>2, <2>3, LoopShape DEF NoFlow
  <2>5. ~GrantHeld'
    BY <2>4 DEF GrantHeld
  <2> QED
    BY <1>1, <1>4, <2>4, <2>5, FlowStep
<1>5. CASE QwenAnswered /\ Granted /\ accepted' = accepted \cup {issued'}
  <2>1. /\ issued \in Nat /\ issued' = issued + 1 /\ flow' = [step |-> "granted", grant |-> issued']
        /\ UNCHANGED <<file, policy, calls, provider, lost>>
    BY <1>1, <1>5 DEF QwenAnswered, Granted
  <2>2. flow'.step = "granted" /\ flow'.grant = issued + 1
        /\ flow' = [step |-> "granted", grant |-> flow'.grant]
    BY <2>1
  <2>3. Shapes'
    BY <1>5, <2>1, <2>2 DEF IInv, Shapes, Busy, Readable, CallRecords
  <2>4. Good'
    BY <1>5, <2>1, <2>2 DEF IInv, Good, Writer
  <2>5. /\ \A r \in Requests : Busy(r) => calls[r].refresh # flow'.grant
        /\ Readable(file) => file.refresh # flow'.grant
    <3>1. \A r \in Requests : Busy(r) => calls[r].refresh \in Nat /\ calls[r].refresh <= issued
      BY DEF IInv, Shapes, CallRecords, Busy
    <3> QED
      BY <2>1, <2>2, <3>1 DEF IInv, Shapes
  <2>6. Own'
    BY <2>1, <2>5 DEF IInv, Own, Writer, Busy, Readable
  <2>7. Coming'
    BY <1>5, <2>1 DEF IInv, Coming, Writer, Readable
  <2> QED
    BY <2>3, <2>4, <2>6, <2>7 DEF IInv
<1>6. CASE KlavaAnswered /\ Granted
  <2>1. flow' = [step |-> "granted", grant |-> issued'] /\ issued' = issued + 1
    BY <1>6 DEF Granted
  <2>2. flow'.step = "granted" /\ provider' = "klava"
        /\ flow' = [step |-> "granted", grant |-> flow'.grant]
    BY <1>6, <2>1 DEF KlavaAnswered
  <2>3. ~GrantHeld'
    BY <2>2 DEF GrantHeld
  <2> QED
    BY <1>1, <1>6, <2>1, <2>2, <2>3, FlowStep DEF KlavaAnswered
<1> QED
  BY <1>2, <1>3, <1>4, <1>5, <1>6 DEF QwenAnswered, KlavaAnswered

-----------------------------------------------------------------------------
(* The clock, the writes of the login command, and logging out.            *)

LEMMA TickStep == IInv /\ Tick => IInv'
<1> SUFFICES ASSUME IInv, Tick PROVE IInv'
  OBVIOUS
<1> DEFINE older == [flow EXCEPT !.age = IF @ < LongAge THEN @ + 1 ELSE @]
           rested == [older EXCEPT !.rest = Max({@, 1}) - 1]
<1>1. /\ flow' = IF flow.step \in {"sleep", "asked"} THEN rested ELSE flow
      /\ file' = IF Readable(file) THEN [file EXCEPT !.left = Max({@, 1}) - 1] ELSE file
      /\ UNCHANGED <<provider, accepted, policy, calls, issued, lost>>
  BY DEF Tick
<1>2. ASSUME flow.step \in {"sleep", "asked"} PROVE rested.step = flow.step /\ Looping(rested)
  <2>1. Looping(flow)
    BY <1>2 DEF IInv, Shapes
  <2>2. older.step = flow.step /\ Looping(older)
    BY <2>1 DEF Looping
  <2> HIDE DEF older
  <2> QED
    BY <2>2 DEF Looping
<1> HIDE DEF rested
<1>3. flow'.step = flow.step /\ (flow.step \in {"granted", "write"} => flow' = flow)
  BY <1>1, <1>2
<1>4. /\ Readable(file)' <=> Readable(file)
      /\ Readable(file) => file'.refresh = file.refresh
      /\ Readable(file) =>
           file' = [state |-> "whole", refresh |-> file'.refresh, left |-> file'.left]
  BY <1>1 DEF Readable, IInv, Shapes
<1>5. Shapes'
  BY <1>1, <1>2, <1>3, <1>4 DEF IInv, Shapes, Busy, CallRecords
<1>6. Good' /\ Own' /\ Coming'
  BY <1>1, <1>3, <1>4 DEF IInv, Good, Own, Coming, Writer, Busy, GrantHeld
<1> QED
  BY <1>5, <1>6 DEF IInv

LEMMA WrittenShape ==
  ASSUME NEW f, NEW token, NEW g \in Written(f, Session(token))
  PROVE  /\ Readable(g) => g.refresh = token
         /\ Readable(g) => g = [state |-> "whole", refresh |-> g.refresh, left |-> g.left]
  BY DEF Written, Session, Readable, Torn

LEMMA FileGone ==
  ASSUME IInv, ~Readable(file'), UNCHANGED <<accepted, policy, issued>>,
         calls' \in [Requests -> CallRecords],
         \A r \in Requests : /\ Writer(r)' => Writer(r)
                             /\ Busy(r)' => Busy(r) /\ calls'[r].refresh = calls[r].refresh,
         flow'.step \in {"sleep", "asked"} => Looping(flow'),
         flow'.step = "granted" => flow' = [step |-> "granted", grant |-> flow'.grant],
         GrantHeld' => GrantHeld /\ flow'.grant = flow.grant
  PROVE  IInv'
<1>1. Shapes'
  BY DEF IInv, Shapes, Busy, Readable
<1>2. \A r \in Requests : Writer(r) => Busy(r)
  BY DEF Writer, Busy
<1>3. \A r \in Requests : Writer(r)' => Busy(r)'
  BY DEF Writer, Busy
<1>4. Good'
  BY <1>3 DEF IInv, Good
<1>5. Own'
  BY <1>3 DEF IInv, Own, Readable
<1>6. Coming'
  BY DEF Coming, Readable
<1> QED
  BY <1>1, <1>4, <1>5, <1>6 DEF IInv

LEMMA LoginSteps ==
  IInv /\ (LoginTruncates \/ LoginWrites \/ KlavaLoginWrites \/ LoginDies \/ QwenLogout) => IInv'
<1> SUFFICES ASSUME IInv,
                    LoginTruncates \/ LoginWrites \/ KlavaLoginWrites \/ LoginDies \/ QwenLogout
             PROVE  IInv'
  OBVIOUS
<1>1. calls \in [Requests -> CallRecords] /\ issued \in Nat
  BY DEF IInv, Shapes
<1>2. CASE LoginTruncates
  <2>1. /\ flow.step = "granted" /\ provider = "qwen"
        /\ flow = [step |-> "granted", grant |-> flow.grant]
        /\ flow' = [flow EXCEPT !.step = "write"]
    BY <1>2 DEF LoginTruncates, IInv, Shapes
  <2>2. flow'.step = "write" /\ flow'.grant = flow.grant
    BY <2>1
  <2> QED
    BY <1>1, <1>2, <2>1, <2>2, FileGone
       DEF LoginTruncates, Writer, Busy, Readable, Empty, GrantHeld
<1>3. CASE LoginWrites
  <2>1. /\ flow.step = "write" /\ flow' = NoFlow
        /\ file' \in Written(file, Session(flow.grant))
        /\ UNCHANGED <<accepted, policy, calls, issued, lost>>
    BY <1>3 DEF LoginWrites
  <2>2. /\ Readable(file') => file'.refresh = flow.grant
        /\ Readable(file') =>
             file' = [state |-> "whole", refresh |-> file'.refresh, left |-> file'.left]
    BY <2>1, WrittenShape
  <2>3. GrantHeld /\ ~GrantHeld' /\ flow'.step = "none"
    BY <2>1 DEF GrantHeld, NoFlow
  <2>4. flow.grant \in accepted /\ flow.grant \in 0 .. issued
    BY <1>1, <2>3 DEF IInv, Good, Shapes
  <2>5. Shapes'
    BY <2>1, <2>2, <2>3, <2>4 DEF IInv, Shapes, Busy, Readable
  <2>6. Good' /\ Coming'
    BY <2>1, <2>2, <2>3, <2>4 DEF IInv, Good, Coming, Writer, Readable
  <2>7. Own'
    <3>1. \A q \in Requests : Writer(q) => Busy(q)
      BY DEF Writer, Busy
    <3> QED
      BY <2>1, <2>2, <2>3, <3>1 DEF IInv, Own, Writer, Busy, Readable
  <2> QED
    BY <2>5, <2>6, <2>7 DEF IInv
<1>4. CASE KlavaLoginWrites
  BY <1>1, <1>4, FlowStep DEF KlavaLoginWrites, NoFlow, GrantHeld
<1>5. CASE QwenLogout
  BY <1>1, <1>5, FileGone DEF QwenLogout, Writer, Busy, Readable, Absent, GrantHeld, IInv, Shapes
<1>6. CASE LoginDies
  <2>1. /\ flow' = NoFlow /\ flow'.step = "none" /\ ~GrantHeld'
        /\ UNCHANGED <<accepted, policy, calls, issued, lost>>
    BY <1>6 DEF LoginDies, NoFlow, GrantHeld
  <2>2. CASE file' = file
    BY <1>1, <2>1, <2>2, FlowStep
  <2>3. CASE file' # file
    <3>1. file' = Torn
      BY <1>6, <2>3 DEF LoginDies
    <3>2. ~Readable(file')
      BY <3>1 DEF Readable, Torn
    <3>3. \A r \in Requests : /\ Writer(r)' => Writer(r)
                              /\ Busy(r)' => Busy(r) /\ calls'[r].refresh = calls[r].refresh
      BY <2>1 DEF Writer, Busy
    <3> QED
      BY <1>1, <2>1, <3>2, <3>3, FileGone
  <2> QED
    BY <2>2, <2>3
<1> QED
  BY <1>2, <1>3, <1>4, <1>5, <1>6

-----------------------------------------------------------------------------
(* The requests.                                                           *)

LEMMA GetTokenStep ==
  ASSUME NEW r \in Requests, IInv, GetToken(r)
  PROVE  IInv'
<1>1. /\ Readable(file) /\ calls[r].step = "idle"
      /\ calls' = [calls EXCEPT ![r] = [step |-> "refresh", refresh |-> file.refresh]]
      /\ UNCHANGED <<provider, flow, file, accepted, policy, issued, lost>>
  BY DEF GetToken
<1>2. /\ calls \in [Requests -> CallRecords] /\ issued \in Nat
      /\ file.refresh \in Nat /\ file.refresh <= issued
  BY <1>1 DEF IInv, Shapes
<1>3. /\ calls' \in [Requests -> CallRecords]
      /\ calls'[r] = [step |-> "refresh", refresh |-> file.refresh]
      /\ \A q \in Requests \ {r} : calls'[q] = calls[q]
  BY <1>1, <1>2 DEF CallRecords
<1>4. /\ calls'[r].step = "refresh" /\ calls'[r].refresh = file.refresh
      /\ ~Writer(r)' /\ ~Writer(r)
      /\ \A q \in Requests : Writer(q) => q # r
      /\ \A q \in Requests : Writer(q)' <=> Writer(q)
      /\ \A q \in Requests \ {r} : Busy(q)' <=> Busy(q)
  BY <1>1, <1>3 DEF Writer, Busy
<1>5. Shapes'
  BY <1>1, <1>2, <1>3, <1>4 DEF IInv, Shapes, Readable
<1>6. Good' /\ Coming'
  BY <1>1, <1>3, <1>4 DEF IInv, Good, Coming, GrantHeld, Readable
<1>7. Own'
  <2> SUFFICES ASSUME policy = "rotates" PROVE Own'
    BY <1>1 DEF Own
  <2>1. ASSUME NEW w \in Requests, Writer(w)', NEW q \in Requests \ {w}, Busy(q)'
        PROVE  calls'[q].refresh # calls'[w].refresh
    <3>1. Writer(w) /\ w # r
      BY <1>4, <2>1
    <3> QED
      BY <1>1, <1>3, <1>4, <2>1, <3>1 DEF IInv, Own
  <2>2. ASSUME NEW w \in Requests, Writer(w)' PROVE file'.refresh # calls'[w].refresh
    BY <1>1, <1>3, <1>4, <2>2 DEF IInv, Own
  <2>3. ASSUME NEW q \in Requests, GrantHeld', Busy(q)' PROVE calls'[q].refresh # flow'.grant
    BY <1>1, <1>3, <1>4, <2>3 DEF IInv, Own, GrantHeld
  <2>4. GrantHeld' => file'.refresh # flow'.grant
    BY <1>1 DEF IInv, Own, GrantHeld
  <2> QED
    BY <2>1, <2>2, <2>3, <2>4 DEF Own
<1> QED
  BY <1>5, <1>6, <1>7 DEF IInv

LEMMA RequestTruncatesStep ==
  ASSUME NEW r \in Requests, IInv, RequestTruncates(r)
  PROVE  IInv'
<1>1. /\ calls[r].step = "truncate" /\ file' = Empty
      /\ calls' = [calls EXCEPT ![r] = [calls[r] EXCEPT !.step = "write"]]
      /\ UNCHANGED <<provider, flow, accepted, policy, issued>>
  BY DEF RequestTruncates
<1>2. calls \in [Requests -> CallRecords]
  BY DEF IInv, Shapes
<1>3. /\ calls[r] = [step |-> "truncate", refresh |-> calls[r].refresh, used |-> calls[r].used]
      /\ calls[r].refresh \in Nat /\ calls[r].used \in Nat
  BY <1>1, <1>2 DEF CallRecords
<1>4. calls'[r] = [step |-> "write", refresh |-> calls[r].refresh, used |-> calls[r].used]
      /\ \A q \in Requests \ {r} : calls'[q] = calls[q]
  BY <1>1, <1>2, <1>3
<1>5. calls' \in [Requests -> CallRecords]
  BY <1>1, <1>2, <1>3, <1>4 DEF CallRecords
<1>6. \A q \in Requests : /\ Writer(q)' => Writer(q)
                          /\ Busy(q)' => Busy(q) /\ calls'[q].refresh = calls[q].refresh
  BY <1>1, <1>4 DEF Writer, Busy
<1>7. /\ flow'.step \in {"sleep", "asked"} => Looping(flow')
      /\ flow'.step = "granted" => flow' = [step |-> "granted", grant |-> flow'.grant]
      /\ GrantHeld' => GrantHeld /\ flow'.grant = flow.grant
      /\ ~Readable(file')
  BY <1>1 DEF IInv, Shapes, GrantHeld, Readable, Empty
<1> QED
  BY <1>1, <1>5, <1>6, <1>7, FileGone

LEMMA RequestWritesStep ==
  ASSUME NEW r \in Requests, IInv, RequestWrites(r)
  PROVE  IInv'
<1> DEFINE token == calls[r].refresh
<1>1. /\ calls[r].step = "write" /\ file' \in Written(file, Session(token))
      /\ calls' = [calls EXCEPT ![r] = [step |-> "idle"]]
      /\ UNCHANGED <<provider, flow, accepted, policy, issued>>
  BY DEF RequestWrites
<1>2. calls \in [Requests -> CallRecords] /\ issued \in Nat
  BY DEF IInv, Shapes
<1>3. /\ Readable(file') => file'.refresh = token
      /\ Readable(file') =>
           file' = [state |-> "whole", refresh |-> file'.refresh, left |-> file'.left]
  BY <1>1, WrittenShape
<1>4. Writer(r) /\ token \in accepted /\ token \in 0 .. issued
  BY <1>1, <1>2 DEF Writer, IInv, Good, Shapes
<1>5. calls' \in [Requests -> CallRecords] /\ calls'[r] = [step |-> "idle"]
      /\ \A q \in Requests \ {r} : calls'[q] = calls[q]
  BY <1>1, <1>2 DEF CallRecords
<1>6. /\ ~Writer(r)' /\ ~Busy(r)'
      /\ \A q \in Requests : Writer(q)' => Writer(q) /\ q # r
      /\ \A q \in Requests : Busy(q)' => Busy(q) /\ q # r
      /\ \A q \in Requests : Writer(q) => Busy(q)
  BY <1>5 DEF Writer, Busy
<1> HIDE DEF token
<1>7. Shapes'
  BY <1>1, <1>2, <1>3, <1>4, <1>5, <1>6 DEF IInv, Shapes, Readable
<1>8. Good' /\ Coming'
  BY <1>1, <1>3, <1>4, <1>5, <1>6 DEF IInv, Good, Coming, GrantHeld, Readable
<1>9. Own'
  <2> SUFFICES ASSUME policy = "rotates" PROVE Own'
    BY <1>1 DEF Own
  <2>1. ASSUME NEW w \in Requests, Writer(w)', NEW q \in Requests \ {w}, Busy(q)'
        PROVE  calls'[q].refresh # calls'[w].refresh
    BY <1>5, <1>6, <2>1 DEF IInv, Own
  <2>2. ASSUME NEW w \in Requests, Writer(w)', Readable(file')
        PROVE  file'.refresh # calls'[w].refresh
    BY <1>3, <1>4, <1>5, <1>6, <2>2 DEF IInv, Own, token
  <2>3. ASSUME NEW q \in Requests, GrantHeld', Busy(q)' PROVE calls'[q].refresh # flow'.grant
    BY <1>1, <1>5, <1>6, <2>3 DEF IInv, Own, GrantHeld
  <2>4. GrantHeld' /\ Readable(file') => file'.refresh # flow'.grant
    BY <1>1, <1>3, <1>4, <1>6 DEF IInv, Own, GrantHeld, token
  <2> QED
    BY <2>1, <2>2, <2>3, <2>4 DEF Own, Readable
<1> QED
  BY <1>7, <1>8, <1>9 DEF IInv

(* A request that is over: whoever writes after it holds the same as       *)
(* before, and what it has retired without writing is lost.                *)
LEMMA RequestOver ==
  ASSUME NEW r \in Requests, IInv, Busy(r),
         calls' = [calls EXCEPT ![r] = [step |-> "idle"]],
         UNCHANGED <<provider, flow, file, accepted, policy, issued>>,
         lost \subseteq lost', Writer(r) => calls[r].used \in accepted \cup lost'
  PROVE  IInv'
<1>1. calls \in [Requests -> CallRecords]
  BY DEF IInv, Shapes
<1>2. /\ calls' \in [Requests -> CallRecords] /\ calls'[r] = [step |-> "idle"]
      /\ \A q \in Requests \ {r} : calls'[q] = calls[q]
  BY <1>1 DEF CallRecords
<1>3. /\ ~Busy(r)' /\ ~Writer(r)'
      /\ \A q \in Requests : Writer(q)' => Writer(q) /\ q # r
      /\ \A q \in Requests : Busy(q)' => Busy(q) /\ q # r
      /\ \A q \in Requests : Writer(q) => Busy(q)
      /\ \A q \in Requests : Writer(q) /\ q # r => Writer(q)'
  BY <1>2 DEF Busy, Writer
<1>4. Shapes'
  BY <1>2, <1>3 DEF IInv, Shapes, Readable
<1>5. Good'
  BY <1>2, <1>3 DEF IInv, Good, GrantHeld
<1>6. Own'
  BY <1>2, <1>3 DEF IInv, Own, GrantHeld, Readable
<1>7. Coming'
  <2> SUFFICES ASSUME Readable(file), file.refresh \notin accepted \cup lost'
               PROVE  \E q \in Requests : Writer(q)' /\ calls'[q].used = file.refresh
    BY DEF Coming, Readable
  <2>1. PICK q \in Requests : Writer(q) /\ calls[q].used = file.refresh
    BY DEF IInv, Coming
  <2> QED
    BY <1>2, <1>3, <2>1
<1> QED
  BY <1>4, <1>5, <1>6, <1>7 DEF IInv

LEMMA RequestDiesStep ==
  ASSUME NEW r \in Requests, IInv, RequestDies(r)
  PROVE  IInv'
<1>1. /\ calls[r].step \in {"truncate", "write"}
      /\ calls' = [calls EXCEPT ![r] = [step |-> "idle"]]
      /\ lost' = lost \cup ({calls[r].used} \ accepted)
      /\ UNCHANGED <<provider, flow, accepted, policy, issued>>
  BY DEF RequestDies
<1>2. CASE file' = file
  BY <1>1, <1>2, RequestOver DEF Busy
<1>3. CASE file' # file
  <2>1. file' = Torn
    BY <1>3 DEF RequestDies
  <2>2. ~Readable(file')
    BY <2>1 DEF Readable, Torn
  <2>3. calls \in [Requests -> CallRecords]
    BY DEF IInv, Shapes
  <2>4. /\ calls' \in [Requests -> CallRecords] /\ calls'[r] = [step |-> "idle"]
        /\ \A q \in Requests \ {r} : calls'[q] = calls[q]
    BY <1>1, <2>3 DEF CallRecords
  <2>5. \A q \in Requests : /\ Writer(q)' => Writer(q)
                            /\ Busy(q)' => Busy(q) /\ calls'[q].refresh = calls[q].refresh
    BY <2>4 DEF Writer, Busy
  <2>6. /\ flow'.step \in {"sleep", "asked"} => Looping(flow')
        /\ flow'.step = "granted" => flow' = [step |-> "granted", grant |-> flow'.grant]
        /\ GrantHeld' => GrantHeld /\ flow'.grant = flow.grant
    BY <1>1 DEF IInv, Shapes, GrantHeld
  <2> QED
    BY <1>1, <2>2, <2>4, <2>5, <2>6, FileGone
<1> QED
  BY <1>2, <1>3

(* The server's answer: what the request will write is good, and new to    *)
(* everybody else when tokens rotate; what it retired only the file had,   *)
(* and is lost when there will be no write.                                *)
LEMMA RefreshedStep ==
  ASSUME NEW r \in Requests, IInv, Refreshed(r)
  PROVE  IInv'
<1> DEFINE old == calls[r].refresh
           new == IF policy = "omits" THEN NoToken ELSE issued + 1
           kept == KeptRefresh(old, new)
<1>1. /\ calls[r].step = "refresh" /\ calls \in [Requests -> CallRecords] /\ issued \in Nat
      /\ UNCHANGED <<provider, flow, file, policy>>
  BY DEF Refreshed, IInv, Shapes
<1>2. old \in Nat /\ old <= issued /\ Busy(r) /\ ~Writer(r)
  BY <1>1 DEF IInv, Shapes, CallRecords, Busy, Writer
<1>3. policy \in Policies /\ accepted \subseteq 1 .. issued
  BY DEF IInv, Shapes
<1>4. CASE calls' = [calls EXCEPT ![r] = [step |-> "idle"]] /\ UNCHANGED <<accepted, issued, lost>>
  BY <1>1, <1>2, <1>4, RequestOver
<1>5. ASSUME TakesToken(old, new)
      PROVE  /\ new \in Nat /\ issued' = IF policy = "omits" THEN issued ELSE issued + 1
             /\ kept \in accepted' /\ kept \in Nat /\ kept <= issued'
             /\ accepted' \subseteq 1 .. issued'
             /\ \A t \in accepted : (policy = "rotates" /\ t = old) \/ t \in accepted'
             /\ policy = "rotates" => kept = issued + 1
  <2>1. /\ old \in accepted /\ issued' = Max({issued, new})
        /\ accepted' = CASE policy = "omits" -> accepted
                         [] policy = "adds" -> accepted \cup {new}
                         [] policy = "rotates" -> (accepted \ {old}) \cup {new}
    BY <1>5 DEF TakesToken
  <2>2. new \in Nat /\ issued' = IF policy = "omits" THEN issued ELSE issued + 1
    <3>1. new \in Nat /\ Max({issued, new}) = IF issued >= new THEN issued ELSE new
      BY <1>1, MaxOfTwo DEF NoToken
    <3> QED
      BY <1>1, <2>1, <3>1 DEF NoToken
  <2>3. kept = IF policy = "omits" THEN old ELSE issued + 1
    BY <1>1 DEF KeptRefresh, NoToken
  <2>4. /\ kept \in accepted' /\ kept \in Nat /\ kept <= issued'
        /\ accepted' \subseteq 1 .. issued'
    <3>1. CASE policy = "omits"
      <4>1. kept = old /\ accepted' = accepted /\ issued' = issued
        BY <2>1, <2>2, <2>3, <3>1
      <4> QED
        BY <1>2, <1>3, <2>1, <4>1
    <3>2. CASE policy # "omits"
      <4>1. kept = issued + 1 /\ new = issued + 1 /\ issued' = issued + 1
        BY <2>2, <2>3, <3>2
      <4>2. accepted' \in {accepted \cup {new}, (accepted \ {old}) \cup {new}}
        BY <1>3, <2>1, <3>2 DEF Policies
      <4> HIDE DEF old, new, kept
      <4> QED
        BY <1>1, <1>3, <4>1, <4>2
    <3> QED
      BY <3>1, <3>2
  <2>5. \A t \in accepted : (policy = "rotates" /\ t = old) \/ t \in accepted'
    BY <1>3, <2>1 DEF Policies
  <2>6. policy = "rotates" => kept = issued + 1
    BY <2>3
  <2> QED
    BY <2>2, <2>4, <2>5, <2>6
<1>6. \A q \in Requests : Busy(q) => calls[q].refresh \in Nat /\ calls[q].refresh <= issued
  BY DEF IInv, Shapes, CallRecords, Busy
<1>7. ASSUME TakesToken(old, new)
      PROVE  /\ \A q \in Requests : Writer(q) /\ q # r => calls[q].refresh \in accepted'
             /\ GrantHeld => flow.grant \in accepted'
  <2> HIDE DEF new, kept
  <2>1. ASSUME NEW q \in Requests, Writer(q), q # r PROVE calls[q].refresh \in accepted'
    <3>1. policy = "rotates" => calls[q].refresh # old
      BY <1>2, <2>1 DEF IInv, Own
    <3> QED
      BY <1>5, <1>7, <2>1, <3>1 DEF IInv, Good
  <2>2. GrantHeld => flow.grant \in accepted'
    <3>1. GrantHeld /\ policy = "rotates" => flow.grant # old
      BY <1>2 DEF IInv, Own
    <3> QED
      BY <1>5, <1>7, <3>1 DEF IInv, Good
  <2> QED
    BY <2>1, <2>2
<1>8. ASSUME TakesToken(old, new), calls' = [calls EXCEPT ![r] = [step |-> "idle"]],
             lost' = lost \cup ({old} \ accepted')
      PROVE  IInv'
  <2>1. calls' \in [Requests -> CallRecords] /\ calls'[r] = [step |-> "idle"]
        /\ \A q \in Requests \ {r} : calls'[q] = calls[q]
    BY <1>1, <1>8 DEF CallRecords
  <2>2. /\ ~Busy(r)' /\ ~Writer(r)'
        /\ \A q \in Requests : Writer(q)' <=> Writer(q)
        /\ \A q \in Requests : Busy(q)' => Busy(q) /\ q # r
        /\ \A q \in Requests : Writer(q) => Busy(q) /\ q # r
    BY <1>2, <2>1 DEF Busy, Writer
  <2>3. issued' \in Nat /\ issued <= issued' /\ accepted' \subseteq 1 .. issued'
    BY <1>1, <1>5, <1>8
  <2> HIDE DEF new, kept
  <2>4. Shapes'
    <3>1. \A q \in Requests : Busy(q)' => calls'[q].refresh <= issued'
      BY <1>1, <1>6, <2>1, <2>2, <2>3
    <3>2. Readable(file) => file.refresh \in 0 .. issued'
      BY <1>1, <2>3 DEF IInv, Shapes
    <3> QED
      BY <1>1, <2>1, <2>3, <3>1, <3>2 DEF IInv, Shapes, Readable
  <2>5. Good'
    BY <1>1, <1>7, <1>8, <2>1, <2>2 DEF Good, GrantHeld
  <2>6. Own'
    BY <1>1, <2>1, <2>2 DEF IInv, Own, GrantHeld, Readable
  <2>7. Coming'
    <3> SUFFICES ASSUME Readable(file), file.refresh \notin accepted' \cup lost'
                 PROVE  \E q \in Requests : Writer(q)' /\ calls'[q].used = file.refresh
      BY <1>1 DEF Coming, Readable
    <3>1. file.refresh # old /\ file.refresh \notin accepted \cup lost
      BY <1>5, <1>8
    <3>2. PICK q \in Requests : Writer(q) /\ calls[q].used = file.refresh
      BY <3>1 DEF IInv, Coming
    <3> QED
      BY <2>1, <2>2, <3>2
  <2> QED
    BY <2>4, <2>5, <2>6, <2>7 DEF IInv
<1>9. ASSUME TakesToken(old, new), lost' = lost,
             calls' = [calls EXCEPT ![r] =
                         [step |-> "truncate", refresh |-> kept, used |-> old]]
      PROVE  IInv'
  <2>3. issued' \in Nat /\ issued <= issued'
    BY <1>1, <1>5, <1>9
  <2>4. kept \in accepted' /\ kept \in Nat /\ kept <= issued' /\ accepted' \subseteq 1 .. issued'
    BY <1>5, <1>9
  <2>5. policy = "rotates" => kept = issued + 1
    BY <1>5, <1>9
  <2>6. \A t \in accepted : (policy = "rotates" /\ t = old) \/ t \in accepted'
    BY <1>5, <1>9
  <2>7. calls' \in [Requests -> CallRecords]
        /\ calls'[r] = [step |-> "truncate", refresh |-> kept, used |-> old]
        /\ \A q \in Requests \ {r} : calls'[q] = calls[q]
    <3> HIDE DEF old, new, kept
    <3> QED
      BY <1>1, <1>2, <1>9, <2>4 DEF CallRecords
  <2> HIDE DEF old, new, kept
  <2>8. /\ Busy(r)' /\ Writer(r)' /\ calls'[r].refresh = kept /\ calls'[r].used = old
        /\ \A q \in Requests : Writer(q)' => q = r \/ (Writer(q) /\ q # r)
        /\ \A q \in Requests : Busy(q)' => q = r \/ (Busy(q) /\ q # r)
        /\ \A q \in Requests : Writer(q) => Busy(q) /\ Writer(q)'
    BY <1>2, <2>7 DEF Busy, Writer
  <2>10. Shapes'
    <3>2. \A q \in Requests : Busy(q)' => calls'[q].refresh <= issued'
      BY <1>1, <1>6, <2>3, <2>4, <2>7, <2>8
    <3>3. Readable(file) => file.refresh \in 0 .. issued'
      BY <1>1, <2>3 DEF IInv, Shapes
    <3> QED
      BY <1>1, <2>3, <2>4, <2>7, <3>2, <3>3 DEF IInv, Shapes, Readable
  <2>11. Good'
    BY <1>1, <1>7, <1>9, <2>4, <2>7, <2>8 DEF Good, GrantHeld
  <2>12. Coming'
    <3> SUFFICES ASSUME Readable(file), file.refresh \notin accepted' \cup lost
                 PROVE  \E q \in Requests : Writer(q)' /\ calls'[q].used = file.refresh
      BY <1>1, <1>9 DEF Coming, Readable
    <3>1. CASE file.refresh = old
      BY <2>8, <3>1
    <3>2. CASE file.refresh # old
      <4>1. file.refresh \notin accepted \cup lost
        BY <2>6, <3>2
      <4>2. PICK q \in Requests : Writer(q) /\ calls[q].used = file.refresh
        BY <4>1 DEF IInv, Coming
      <4> QED
        BY <1>2, <2>7, <2>8, <4>2
    <3> QED
      BY <3>1, <3>2
  <2>13. Own'
    <3> SUFFICES ASSUME policy = "rotates" PROVE Own'
      BY <1>1 DEF Own
    <3>1. kept = issued + 1 /\ (GrantHeld => flow.grant <= issued /\ flow.grant \in Nat)
      <4>1. \A t \in accepted : t \in Nat /\ t <= issued
        BY <1>1, <1>3
      <4>2. GrantHeld => flow.grant \in accepted
        BY DEF IInv, Good
      <4> QED
        BY <2>5, <4>1, <4>2
    <3>2. ASSUME NEW w \in Requests, Writer(w)', NEW q \in Requests \ {w}, Busy(q)'
          PROVE  calls'[q].refresh # calls'[w].refresh
      <4>1. CASE w = r
        BY <1>1, <2>7, <2>8, <1>6, <3>1, <3>2, <4>1
      <4>2. CASE w # r /\ q = r
        BY <1>1, <2>7, <2>8, <1>6, <3>1, <3>2, <4>2
      <4>3. CASE w # r /\ q # r
        BY <2>7, <2>8, <3>2, <4>3 DEF IInv, Own
      <4> QED
        BY <4>1, <4>2, <4>3
    <3>3. ASSUME NEW w \in Requests, Writer(w)', Readable(file)
          PROVE  file.refresh # calls'[w].refresh
      <4>1. CASE w = r
        BY <1>1, <2>8, <3>1, <3>3, <4>1 DEF IInv, Shapes
      <4>2. CASE w # r
        BY <2>7, <2>8, <3>3, <4>2 DEF IInv, Own
      <4> QED
        BY <4>1, <4>2
    <3>4. ASSUME NEW q \in Requests, GrantHeld, Busy(q)' PROVE calls'[q].refresh # flow.grant
      <4>1. CASE q = r
        BY <1>1, <2>8, <3>1, <3>4, <4>1
      <4>2. CASE q # r
        BY <2>7, <2>8, <3>4, <4>2 DEF IInv, Own
      <4> QED
        BY <4>1, <4>2
    <3>5. GrantHeld /\ Readable(file) => file.refresh # flow.grant
      BY DEF IInv, Own
    <3> QED
      BY <1>1, <3>2, <3>3, <3>4, <3>5 DEF Own, GrantHeld, Readable
  <2> QED
    BY <2>10, <2>11, <2>12, <2>13 DEF IInv
<1> QED
  BY <1>4, <1>8, <1>9 DEF Refreshed

LEMMA NextIInv == IInv /\ [SignNext]_signVars => IInv'
<1> SUFFICES ASSUME IInv, [SignNext]_signVars PROVE IInv'
  OBVIOUS
<1>1. CASE UNCHANGED <<provider, flow, file, accepted, policy, calls, issued, lost>>
  BY <1>1 DEF IInv, Shapes, Good, Own, Coming, Busy, Writer, GrantHeld, Readable, Looping
<1>2. ASSUME KlavaLogoutReads \/ KlavaRevokes \/ KlavaRemoves \/ UNCHANGED signVars
      PROVE  UNCHANGED <<provider, flow, file, accepted, policy, calls, issued, lost>>
  BY <1>2 DEF KlavaLogoutReads, KlavaRevokes, KlavaRemoves, signVars
<1> QED
  BY <1>1, <1>2, TickStep, PollSteps, LoginSteps, GetTokenStep, RefreshedStep,
     RequestTruncatesStep, RequestWritesStep, RequestDiesStep DEF SignNext

(* Whatever requests refresh the session at once, and whatever the server  *)
(* does with used refresh tokens: once every answer has been written or is *)
(* lost, a session file that can be read holds a token the server accepts, *)
(* or one it retired with an answer that was lost.                         *)
THEOREM SessionIsKept == SignSpec => []SessionKept
<1>1. IInv => SessionKept
  BY DEF IInv, Coming, Writer, SessionKept
<1> QED
  BY <1>1, InitIInv, NextIInv, PTL DEF SignSpec

-----------------------------------------------------------------------------
(***************************************************************************)
(* The poll loop.  The last poll leaves in time because a sleep begins     *)
(* only while the code lives, and no sleep is longer than what slow_down   *)
(* leads to or the server asked for: what is left of the sleep, added to   *)
(* the age, is bounded from its first tick on.  What happens between a     *)
(* poll and its answer takes any time.                                     *)
(***************************************************************************)
Asking(f) ==
  /\ Looping(f)
  /\ {f.age, f.rest, f.life, f.interval, f.asked} \subseteq Nat
  /\ f.interval <= Max({Cap, f.asked})

InTime(f) == f.age + f.rest <= f.life + Max({Cap, f.asked})

PollInv ==
  /\ flow.step \in {"sleep", "asked"} => Asking(flow)
  /\ flow.step = "sleep" => InTime(flow)

LEMMA LoopInTime ==
  ASSUME NEW f, Asking(f)
  PROVE  /\ Loop(f).step \in {"none", "sleep"}
         /\ Loop(f).step = "sleep" => Asking(Loop(f)) /\ InTime(Loop(f))
<1> DEFINE rest == IF f.polled THEN f.interval ELSE 0
           v == [step |-> "sleep", age |-> f.age, rest |-> rest, polled |-> f.polled,
                 life |-> f.life, interval |-> f.interval, asked |-> f.asked]
<1>1. Loop(f) = IF Expired(f) THEN NoFlow ELSE v
  <2>1. Loop(f) = IF Expired(f) THEN NoFlow ELSE [f EXCEPT !.step = "sleep", !.rest = rest]
    BY DEF Loop
  <2> HIDE DEF rest
  <2> DEFINE u == [f EXCEPT !.step = "sleep"]
  <2>2. u = [step |-> "sleep", age |-> f.age, rest |-> f.rest, polled |-> f.polled,
             life |-> f.life, interval |-> f.interval, asked |-> f.asked]
    BY DEF Asking, Looping
  <2> HIDE DEF u
  <2>3. [u EXCEPT !.rest = rest] = v
    BY <2>2
  <2> QED
    BY <2>1, <2>3 DEF u
<1>2. CASE Expired(f)
  BY <1>1, <1>2 DEF NoFlow
<1>3. CASE ~Expired(f)
  <2>1. /\ v.step = "sleep" /\ v.age = f.age /\ v.rest = rest /\ v.life = f.life
        /\ v.interval = f.interval /\ v.asked = f.asked /\ Looping(v)
    BY DEF Looping
  <2>2. Max({Cap, f.asked}) \in Nat
    BY MaxOfTwo DEF Asking, Cap
  <2>3. rest \in Nat /\ rest <= Max({Cap, f.asked})
    BY <2>2 DEF Asking
  <2>4. f.age \in Nat /\ f.life \in Nat /\ f.age <= f.life
    BY <1>3 DEF Asking, Expired
  <2> HIDE DEF v, rest
  <2>5. Loop(f) = v
    BY <1>1, <1>3
  <2>6. Asking(v)
    BY <2>1, <2>3 DEF Asking
  <2>7. InTime(v)
    BY <2>1, <2>2, <2>3, <2>4 DEF InTime
  <2> QED
    BY <2>1, <2>5, <2>6, <2>7
<1> QED
  BY <1>2, <1>3

LEMMA BeginInTime ==
  ASSUME NEW life \in CodeLives, NEW interval \in PollIntervals, 
         NEW f \in {QwenFlow(life, interval), KlavaFlow(life, interval)}
  PROVE  f.step \in {"none", "sleep"} /\ (f.step = "sleep" => Asking(f) /\ InTime(f))
<1>1. /\ life \in Nat /\ interval \in Nat /\ DefaultLife \in Nat
  BY TimesAssumption
<1> DEFINE
      qwen == [step |-> "sleep", age |-> 0, rest |-> 0, polled |-> FALSE,
               life |-> life, interval |-> interval, asked |-> interval]
      klava == [step |-> "sleep", age |-> 0, rest |-> 0, polled |-> FALSE,
                life |-> IF life = 0 THEN DefaultLife ELSE life,
                interval |-> Max({interval, 1}), asked |-> interval]
<1>2. f \in {Loop(qwen), Loop(klava)}
  BY DEF QwenFlow, KlavaFlow
<1>3. /\ Max({Cap, interval}) = (IF Cap >= interval THEN Cap ELSE interval)
      /\ Max({interval, 1}) = (IF interval >= 1 THEN interval ELSE 1)
  BY <1>1, MaxOfTwo DEF Cap
<1>4. Asking(qwen)
  BY <1>1, <1>3 DEF Asking, Looping, Cap
<1>5. Asking(klava)
  BY <1>1, <1>3 DEF Asking, Looping, Cap
<1> HIDE DEF qwen, klava
<1> QED
  BY <1>2, <1>4, <1>5, LoopInTime

LEMMA SlowDownCapped ==
  ASSUME NEW i \in Nat
  PROVE  SlowDown(i) \in Nat /\ SlowDown(i) <= Cap
<1> DEFINE j == IF provider = "qwen" THEN i \div 2 ELSE (3 * i + 1) \div 2
<1>1. j \in Nat
  OBVIOUS
<1> HIDE DEF j
<1>2. PICK m \in {Cap, j} : m = (IF Cap <= j THEN Cap ELSE j) /\ \A y \in {Cap, j} : m <= y
  BY <1>1 DEF Cap
<1>3. \A x \in {Cap, j} : (\A y \in {Cap, j} : x <= y) => x = m
  BY <1>1, <1>2 DEF Cap
<1>4. Min({Cap, j}) = m
  BY <1>2, <1>3 DEF Min
<1> QED
  BY <1>1, <1>2, <1>4 DEF SlowDown, j, Cap

LEMMA PollInvInitially == SignInit => PollInv
  BY DEF SignInit, PollInv, NoFlow

LEMMA PollInvKept == PollInv /\ [SignNext]_signVars => PollInv'
<1> SUFFICES ASSUME PollInv, [SignNext]_signVars PROVE PollInv'
  OBVIOUS
<1>1. CASE flow' = flow
  BY <1>1 DEF PollInv
<1>2. CASE flow'.step \notin {"sleep", "asked"}
  BY <1>2 DEF PollInv
<1>3. CASE Tick /\ flow.step \in {"sleep", "asked"}
  <2> DEFINE age == IF flow.age < LongAge THEN flow.age + 1 ELSE flow.age
             rest == Max({flow.rest, 1}) - 1
             v == [step |-> flow.step, age |-> age, rest |-> rest, polled |-> flow.polled,
                   life |-> flow.life, interval |-> flow.interval, asked |-> flow.asked]
  <2>1. Asking(flow)
    BY <1>3 DEF PollInv
  <2>2. flow' = [flow EXCEPT !.age = age, !.rest = rest]
    BY <1>3 DEF Tick
  <2>3. flow' = v
    BY <2>1, <2>2 DEF Asking, Looping
  <2>4. flow.age \in Nat /\ flow.rest \in Nat /\ flow.life \in Nat
    BY <2>1 DEF Asking
  <2>5. age \in Nat /\ age <= flow.age + 1
    BY <2>4
  <2>6. rest \in Nat /\ (flow.rest > 0 => rest = flow.rest - 1)
    BY <2>4, MaxOfTwo
  <2>7. /\ v.step = flow.step /\ v.age = age /\ v.rest = rest /\ v.life = flow.life
        /\ v.interval = flow.interval /\ v.asked = flow.asked /\ Looping(v)
    BY DEF Looping
  <2> HIDE DEF age, rest, v
  <2>8. Asking(v)
    BY <2>1, <2>5, <2>6, <2>7 DEF Asking
  <2>9. flow.step = "sleep" => InTime(v)
    <3> SUFFICES ASSUME flow.step = "sleep" PROVE InTime(v)
      OBVIOUS
    <3>1. flow.rest > 0
      BY <1>3, <2>4 DEF Tick
    <3>2. flow.age + flow.rest <= flow.life + Max({Cap, flow.asked})
      BY DEF PollInv, InTime
    <3>3. Max({Cap, flow.asked}) \in Nat
      BY <2>1, MaxOfTwo DEF Asking, Cap
    <3>4. age + rest <= flow.life + Max({Cap, flow.asked})
      BY <2>4, <2>5, <2>6, <3>1, <3>2, <3>3
    <3> QED
      BY <2>7, <3>4 DEF InTime
  <2> QED
    BY <2>3, <2>7, <2>8, <2>9 DEF PollInv
<1>4. CASE Begin
  <2>1. PICK life \in CodeLives, interval \in PollIntervals :
          flow' \in {QwenFlow(life, interval), KlavaFlow(life, interval)}
    BY <1>4 DEF Begin
  <2>2. flow'.step \in {"none", "sleep"} /\ (flow'.step = "sleep" => Asking(flow') /\ InTime(flow'))
    BY <2>1, BeginInTime
  <2> QED
    BY <2>2 DEF PollInv
<1>5. CASE Poll
  <2> DEFINE v == [step |-> "asked", age |-> flow.age, rest |-> flow.rest, polled |-> TRUE,
                   life |-> flow.life, interval |-> flow.interval, asked |-> flow.asked]
  <2>1. Asking(flow)
    BY <1>5 DEF Poll, PollInv
  <2>2. flow' = v
    BY <1>5, <2>1 DEF Poll, Asking, Looping
  <2>3. v.step = "asked" /\ Asking(v)
    BY <2>1 DEF Asking, Looping
  <2> QED
    BY <2>2, <2>3 DEF PollInv
<1>6. ASSUME flow.step = "asked", flow' \in NotYet PROVE PollInv'
  <2> DEFINE s == [step |-> flow.step, age |-> flow.age, rest |-> flow.rest,
                   polled |-> flow.polled, life |-> flow.life,
                   interval |-> SlowDown(flow.interval), asked |-> flow.asked]
  <2>1. Asking(flow)
    BY <1>6 DEF PollInv
  <2>2. [flow EXCEPT !.interval = SlowDown(@)] = s
    BY <2>1 DEF Asking, Looping
  <2>3. Asking(s)
    <3>1. SlowDown(flow.interval) \in Nat /\ SlowDown(flow.interval) <= Cap
      BY <2>1, SlowDownCapped DEF Asking
    <3>2. Max({Cap, flow.asked}) = (IF Cap >= flow.asked THEN Cap ELSE flow.asked)
      BY <2>1, MaxOfTwo DEF Asking, Cap
    <3>3. SlowDown(flow.interval) <= Max({Cap, flow.asked})
      BY <2>1, <3>1, <3>2 DEF Asking, Cap
    <3> QED
      BY <2>1, <3>1, <3>3 DEF Asking, Looping
  <2> HIDE DEF s
  <2>4. flow' \in {Loop(flow), Loop(s), NoFlow}
    BY <1>6, <2>2 DEF NotYet
  <2>5. flow'.step \in {"none", "sleep"} /\ (flow'.step = "sleep" => Asking(flow') /\ InTime(flow'))
    BY <2>1, <2>3, <2>4, LoopInTime DEF NoFlow
  <2> QED
    BY <2>5 DEF PollInv
<1>7. ASSUME QwenAnswered \/ KlavaAnswered PROVE PollInv'
  <2>1. CASE Granted
    BY <2>1, <1>2 DEF Granted
  <2> QED
    BY <1>6, <1>7, <2>1 DEF QwenAnswered, KlavaAnswered
<1>8. ASSUME LoginTruncates \/ LoginWrites \/ KlavaLoginWrites \/ LoginDies
      PROVE  flow'.step \notin {"sleep", "asked"}
  <2>1. CASE LoginTruncates
    <3>1. flow' = [flow EXCEPT !.step = "write"] /\ flow.step = "granted"
      BY <2>1 DEF LoginTruncates
    <3> QED
      BY <3>1
  <2> QED
    BY <1>8, <2>1 DEF LoginWrites, KlavaLoginWrites, LoginDies, NoFlow
<1>9. ASSUME \/ Tick /\ flow.step \notin {"sleep", "asked"}
             \/ \E r \in Requests :
                  \/ GetToken(r) \/ Refreshed(r)
                  \/ RequestTruncates(r) \/ RequestWrites(r) \/ RequestDies(r)
             \/ QwenLogout \/ KlavaLogoutReads \/ KlavaRevokes \/ KlavaRemoves
             \/ UNCHANGED signVars
      PROVE  flow' = flow
  BY <1>9 DEF Tick, GetToken, Refreshed, RequestTruncates, RequestWrites, RequestDies,
              QwenLogout, KlavaLogoutReads, KlavaRevokes, KlavaRemoves, signVars
<1> QED
  BY <1>1, <1>2, <1>3, <1>4, <1>5, <1>7, <1>8, <1>9 DEF SignNext

(* However long the server takes and however often it says slow_down, the  *)
(* last poll leaves no later than one sleep after the code expired.        *)
THEOREM PollsAreInTime == SignSpec => []PollsInTime
<1>1. PollInv => PollsInTime
  <2> SUFFICES ASSUME PollInv, flow.step = "sleep", flow.rest = 0 PROVE PollsInTime
    BY DEF PollsInTime, PollIsDue
  <2>1. Asking(flow) /\ InTime(flow)
    BY DEF PollInv
  <2> QED
    BY <2>1 DEF Asking, InTime, PollsInTime
<1> QED
  BY <1>1, PollInvInitially, PollInvKept, PTL DEF SignSpec

-----------------------------------------------------------------------------
(***************************************************************************)
(* The extension directory.  What lies in bin/ or aside in the staging     *)
(* directory is always whole, because a file gets there by a rename of one *)
(* that its process has finished writing.  That the renamed file is the    *)
(* one it wrote takes what a process knows (Knows): between any two of its *)
(* steps the staged file of its extension is still the build it fetched,   *)
(* or gone.  Others cannot change it, since two commands at work are about *)
(* different extensions (Apart), unless these are contested, of which      *)
(* nothing is said; another installer may only delete it.                  *)
(* The record is written from the same build, so a plan made after the     *)
(* update finds the hash, or the version, that is already there.           *)
(***************************************************************************)

MaybeBuild == Builds \cup {None}

Steps == {"idle", "clear", "stage", "staging", "aside", "place", "manifest", "hash",
          "drop", "record", "refresh", "next", "remove", "sweep", "config"}

CommandRecords ==
  [pc : Steps, op : {"none", "install", "update", "remove", "set_enabled"},
   about : SUBSET Names, todo : SUBSET Names, name : Names \cup {None},
   pin : MaybeBuild, got : MaybeBuild, sha : MaybeBuild, failed : SUBSET Names,
   conf : [Names -> Flags], set : Flags]

StagingRecords ==
  [made : BOOLEAN, file : [Names -> File], by : [Names -> Procs \cup {"nobody"}],
   toml : SUBSET Names, previous : [Names -> File]]

FileTypes ==
  /\ bin \in [Names -> File]
  /\ record \in [Names -> Records]
  /\ staging \in StagingRecords
  /\ conf \in [Names -> Flags]
  /\ upstream \in [Names -> MaybeBuild]
  /\ cmd \in [Procs -> CommandRecords]
  /\ contested \subseteq Names

(* The extension a command works on, or last worked on.                    *)
Working(c) == c.pc # "idle" /\ ~(c.pc = "next" /\ c.name = None)

(* A command works on its own extensions.                                  *)
Apart ==
  /\ \A p \in Procs : /\ cmd[p].todo \subseteq cmd[p].about
                      /\ Working(cmd[p]) => cmd[p].name \in cmd[p].about
  /\ \A p, q \in Procs : p # q => cmd[p].about \cap cmd[q].about \subseteq contested

(* What one process knows of the extension it works on, if it is the only  *)
(* one to: the staged file and the installed one are what it fetched, ...  *)
Alone(c) == c.name \notin contested
Writing(p, c) ==
  c.pc = "staging" /\ Alone(c) =>
    \/ staging.file[c.name] = NoFile
    \/ staging.file[c.name] = Half(c.got) /\ staging.by[c.name] = p
Staged(c) ==
  c.pc \in {"aside", "place"} /\ Alone(c) =>
    staging.file[c.name] \in {Whole(c.got), NoFile}
Placed(c) ==
  c.pc \in {"manifest", "hash"} /\ Alone(c) => bin[c.name] = Whole(c.got)
Fetched(c) ==
  c.pc \in {"staging", "aside", "place", "manifest", "hash"} => c.got # None

(* ... and so is the fingerprint, which goes into the record.              *)
Updated(c) ==
  c.pc = "refresh" \/ (c.pc = "next" /\ c.name # None /\ c.name \notin c.failed)
Hashed(c) ==
  (c.pc = "record" \/ (c.pc = "drop" /\ c.name \notin c.failed) \/ Updated(c)) /\ Alone(c) =>
    c.got # None /\ c.sha = c.got
Recorded(c) ==
  Updated(c) /\ Alone(c) =>
    record[c.name] = [pin |-> None, sha |-> c.got,
                      version |-> IF KindOf[c.name] = "local" THEN None ELSE c.got]

(* `update` drops the pin of the record.                                   *)
Unpinned(c) == /\ c.op = "update" => c.pin = None
               /\ c.pc \in {"next", "refresh"} => c.op = "update"

Knows(p) == /\ Writing(p, cmd[p]) /\ Staged(cmd[p]) /\ Placed(cmd[p])
            /\ Fetched(cmd[p]) /\ Hashed(cmd[p]) /\ Recorded(cmd[p]) /\ Unpinned(cmd[p])

Wholes ==
  \A n \in Names \ contested : bin[n].whole /\ staging.previous[n].whole

FilesInv == FileTypes /\ Apart /\ Wholes /\ \A p \in Procs : Knows(p)
-----------------------------------------------------------------------------
(* The command of p goes on at pc, for the same extensions.                *)
Goes(p, pc) ==
  /\ cmd' \in [Procs -> CommandRecords]
  /\ \A q \in Procs \ {p} : cmd'[q] = cmd[q]
  /\ cmd'[p].pc = pc
  /\ cmd'[p].op = cmd[p].op /\ cmd'[p].about = cmd[p].about
  /\ cmd'[p].todo = cmd[p].todo /\ cmd'[p].name = cmd[p].name
  /\ cmd'[p].pin = cmd[p].pin /\ cmd'[p].got = cmd[p].got
  /\ cmd'[p].sha = cmd[p].sha

LEMMA GoesOn ==
  ASSUME cmd \in [Procs -> CommandRecords], NEW p \in Procs,
         NEW pc \in Steps \ {"idle"}, Goto(p, pc)
  PROVE  Goes(p, pc) /\ cmd'[p].failed = cmd[p].failed
<1> DEFINE c == [cmd[p] EXCEPT !.pc = pc]
<1>1. cmd' = [cmd EXCEPT ![p] = c]
  BY DEF Goto
<1>2. cmd[p] \in CommandRecords
  OBVIOUS
<1>3. /\ c \in CommandRecords /\ c.pc = pc
      /\ c.op = cmd[p].op /\ c.about = cmd[p].about /\ c.todo = cmd[p].todo
      /\ c.name = cmd[p].name /\ c.pin = cmd[p].pin /\ c.got = cmd[p].got
      /\ c.sha = cmd[p].sha /\ c.failed = cmd[p].failed
  BY <1>2 DEF CommandRecords
<1> HIDE DEF c
<1> QED
  BY <1>1, <1>3 DEF Goes

LEMMA IdleIsRecord == Idle \in CommandRecords /\ Idle.pc = "idle"
  BY DEF Idle, CommandRecords, Steps, MaybeBuild, NoSettings, Flags

LEMMA EndsIdle ==
  ASSUME cmd \in [Procs -> CommandRecords], NEW p \in Procs, Goto(p, "idle")
  PROVE  /\ cmd' \in [Procs -> CommandRecords]
         /\ \A q \in Procs \ {p} : cmd'[q] = cmd[q]
         /\ cmd'[p] = Idle
<1>1. cmd' = [cmd EXCEPT ![p] = Idle]
  BY DEF Goto
<1> QED
  BY <1>1, IdleIsRecord

LEMMA FailGoes ==
  ASSUME cmd \in [Procs -> CommandRecords], NEW p \in Procs, Fail(p),
         cmd[p].name \in Names
  PROVE  Goes(p, "drop") /\ cmd'[p].failed = cmd[p].failed \cup {cmd[p].name}
<1> DEFINE c == [cmd[p] EXCEPT !.pc = "drop", !.failed = @ \cup {cmd[p].name}]
<1>1. cmd' = [cmd EXCEPT ![p] = c]
  BY DEF Fail
<1>2. cmd[p] \in CommandRecords
  OBVIOUS
<1>3. /\ c \in CommandRecords /\ c.pc = "drop"
      /\ c.op = cmd[p].op /\ c.about = cmd[p].about /\ c.todo = cmd[p].todo
      /\ c.name = cmd[p].name /\ c.pin = cmd[p].pin /\ c.got = cmd[p].got
      /\ c.sha = cmd[p].sha /\ c.failed = cmd[p].failed \cup {cmd[p].name}
  BY <1>2 DEF CommandRecords, Steps
<1> HIDE DEF c
<1> QED
  BY <1>1, <1>3 DEF Goes
-----------------------------------------------------------------------------
(* Nobody but p touches the extension p works on; an installer may empty   *)
(* the staging directory under the others.                                 *)
Spares(p) ==
  /\ contested' = contested
  /\ \A n \in Names \ {cmd[p].name} :
       /\ bin'[n] = bin[n] /\ record'[n] = record[n]
       /\ \/ staging'.file[n] = NoFile
          \/ staging'.file[n] = staging.file[n] /\ staging'.by[n] = staging.by[n]

LEMMA OthersKnow ==
  ASSUME FilesInv, NEW p \in Procs, NEW q \in Procs, q # p, cmd'[q] = cmd[q],
         Working(cmd[p]), Spares(p)
  PROVE  Knows(q)'
<1>1. /\ cmd[q].about \cap cmd[p].about \subseteq contested
      /\ cmd[p].name \in cmd[p].about
  BY DEF FilesInv, Apart
<1>2. Working(cmd[q]) /\ Alone(cmd[q]) => cmd[q].name \in Names \ {cmd[p].name}
  <2>1. cmd[q].about \subseteq Names
    BY DEF FilesInv, FileTypes, CommandRecords
  <2> QED
    BY <1>1, <2>1 DEF FilesInv, Apart, Alone
<1>3. contested' = contested
  BY DEF Spares
<1>4. Working(cmd[q]) /\ Alone(cmd[q]) =>
        /\ bin'[cmd[q].name] = bin[cmd[q].name]
        /\ record'[cmd[q].name] = record[cmd[q].name]
        /\ \/ staging'.file[cmd[q].name] = NoFile
           \/ /\ staging'.file[cmd[q].name] = staging.file[cmd[q].name]
              /\ staging'.by[cmd[q].name] = staging.by[cmd[q].name]
  BY <1>2 DEF Spares
<1>5. Knows(q)
  BY DEF FilesInv
<1>6. Staged(cmd[q])' /\ Placed(cmd[q])' /\ Fetched(cmd[q])' /\ Writing(q, cmd[q])'
  BY <1>3, <1>4, <1>5 DEF Knows, Alone, Writing, Staged, Placed, Fetched, Working
<1>7. Hashed(cmd[q])' /\ Unpinned(cmd[q])'
  BY <1>3, <1>5 DEF Knows, Hashed, Updated, Unpinned, Alone
<1>8. Recorded(cmd[q])'
  BY <1>3, <1>4, <1>5 DEF Knows, Recorded, Updated, Working, Alone
<1> QED
  BY <1>6, <1>7, <1>8 DEF Knows

LEMMA StillApart ==
  ASSUME FilesInv, NEW p \in Procs, \A q \in Procs \ {p} : cmd'[q] = cmd[q],
         contested' = contested,
         cmd'[p].about \subseteq cmd[p].about,
         cmd'[p].todo \subseteq cmd'[p].about,
         Working(cmd'[p]) => cmd'[p].name \in cmd'[p].about
  PROVE  Apart'
<1>1. ASSUME NEW q \in Procs
      PROVE  /\ cmd'[q].todo \subseteq cmd'[q].about
             /\ Working(cmd'[q]) => cmd'[q].name \in cmd'[q].about
  BY DEF FilesInv, Apart
<1>2. ASSUME NEW q \in Procs, NEW r \in Procs, q # r
      PROVE  cmd'[q].about \cap cmd'[r].about \subseteq contested
  <2>1. cmd'[q].about \subseteq cmd[q].about /\ cmd'[r].about \subseteq cmd[r].about
    OBVIOUS
  <2>2. cmd[q].about \cap cmd[r].about \subseteq contested
    BY <1>2 DEF FilesInv, Apart
  <2> QED
    BY <2>1, <2>2
<1> QED
  BY <1>1, <1>2 DEF Apart, Working

LEMMA IdleKnows ==
  ASSUME NEW p \in Procs, cmd'[p] = Idle
  PROVE  /\ Knows(p)' /\ cmd'[p].about = {} /\ cmd'[p].todo = {}
         /\ ~Working(cmd'[p])
<1>1. cmd'[p].pc = "idle" /\ cmd'[p].op = "none" /\ cmd'[p].about = {} /\ cmd'[p].todo = {}
  BY DEF Idle
<1> QED
  BY <1>1 DEF Knows, Alone, Writing, Staged, Placed, Fetched, Hashed, Recorded, Updated, Unpinned, Working

LEMMA Proceeds ==
  ASSUME FilesInv, NEW p \in Procs, Working(cmd[p]),
         \A q \in Procs \ {p} : cmd'[q] = cmd[q],
         cmd'[p].about = cmd[p].about, cmd'[p].todo = cmd[p].todo,
         cmd'[p].name = cmd[p].name,
         FileTypes', Wholes', Spares(p), Knows(p)'
  PROVE  FilesInv'
<1>1. /\ cmd[p].name \in cmd[p].about
      /\ cmd[p].todo \subseteq cmd[p].about
  BY DEF FilesInv, Apart
<1>2. Apart'
  BY <1>1, StillApart DEF Spares
<1>3. \A q \in Procs : Knows(q)'
  BY OthersKnow
<1> QED
  BY <1>2, <1>3 DEF FilesInv

LEMMA Ends ==
  ASSUME FilesInv, NEW p \in Procs, Working(cmd[p]), Goto(p, "idle"),
         bin' \in [Names -> File], record' \in [Names -> Records],
         staging' \in StagingRecords, conf' \in [Names -> Flags],
         UNCHANGED upstream, Wholes', Spares(p)
  PROVE  FilesInv'
<1>1. /\ cmd' \in [Procs -> CommandRecords] /\ cmd'[p] = Idle
      /\ \A q \in Procs \ {p} : cmd'[q] = cmd[q]
  BY EndsIdle DEF FilesInv, FileTypes
<1>2. /\ Knows(p)' /\ cmd'[p].about = {} /\ cmd'[p].todo = {}
      /\ ~Working(cmd'[p])
  BY <1>1, IdleKnows
<1>3. Apart'
  BY <1>1, <1>2, StillApart DEF Spares
<1>4. \A q \in Procs : Knows(q)'
  BY <1>1, <1>2, OthersKnow
<1>5. FileTypes'
  BY <1>1 DEF FilesInv, FileTypes, Spares
<1> QED
  BY <1>3, <1>4, <1>5 DEF FilesInv

(* What every step of a command at work starts from.                       *)
LEMMA AtWork ==
  ASSUME FilesInv, NEW p \in Procs, NEW pc \in Steps \ {"idle", "next"}, At(p, pc)
  PROVE  /\ Working(cmd[p]) /\ cmd[p].name \in Names /\ cmd[p].name \in cmd[p].about
         /\ FileTypes /\ Wholes /\ Knows(p) /\ cmd[p] \in CommandRecords
<1>1. Working(cmd[p])
  BY DEF At, Working
<1>2. cmd[p].about \subseteq Names
  BY DEF FilesInv, FileTypes, CommandRecords
<1> QED
  BY <1>1, <1>2 DEF FilesInv, Apart, FileTypes

LEMMA EmptiedIsStaging ==
  ASSUME NEW made \in BOOLEAN
  PROVE  /\ Emptied(made) \in StagingRecords
         /\ \A n \in Names : /\ Emptied(made).file[n] = NoFile
                             /\ Emptied(made).previous[n].whole
<1>1. NoFile \in File /\ None \in MaybeBuild /\ NoFile.whole
  BY DEF NoFile, File, MaybeBuild
<1> QED
  BY <1>1 DEF Emptied, StagingRecords

LEMMA ClearStagingKeeps ==
  ASSUME FilesInv, NEW p \in Procs, ClearStaging(p)
  PROVE  FilesInv'
<1>1. /\ At(p, "clear") /\ staging' = Emptied(TRUE)
      /\ Goto(p, "stage")
      /\ UNCHANGED <<bin, manifest, record, conf, upstream, contested>>
  BY DEF ClearStaging, Steady
<1>2. /\ Working(cmd[p]) /\ FileTypes /\ Wholes /\ Knows(p) /\ cmd[p] \in CommandRecords
  BY <1>1, AtWork DEF Steps
<1>3. Goes(p, "stage")
  BY <1>1, <1>2, GoesOn DEF FileTypes, Steps
<1>4. FileTypes'
  BY <1>1, <1>2, <1>3, EmptiedIsStaging DEF FileTypes, Goes
<1>5. Wholes' /\ Spares(p)
  BY <1>1, <1>2, EmptiedIsStaging DEF Wholes, Spares
<1>6. Knows(p)'
  BY <1>2, <1>3
  DEF Goes, Knows, Alone, Writing, Staged, Placed, Fetched, Hashed, Recorded, Updated, Unpinned
<1> QED
  BY <1>2, <1>3, <1>4, <1>5, <1>6, Proceeds DEF Goes

LEMMA FailKeeps ==
  ASSUME FilesInv, NEW p \in Procs, NEW pc \in Steps \ {"idle", "next"}, At(p, pc), Fail(p),
         bin' \in [Names -> File], staging' \in StagingRecords, Wholes', Spares(p),
         UNCHANGED <<record, conf, upstream, contested>>
  PROVE  FilesInv'
<1>1. /\ Working(cmd[p]) /\ FileTypes /\ Wholes /\ Knows(p) /\ cmd[p].name \in Names
  BY AtWork
<1>2. Goes(p, "drop") /\ cmd'[p].failed = cmd[p].failed \cup {cmd[p].name}
  BY <1>1, FailGoes DEF FileTypes
<1>3. FileTypes'
  BY <1>1, <1>2 DEF FileTypes, Goes
<1>4. Knows(p)'
  BY <1>1, <1>2
  DEF Goes, Knows, Alone, Writing, Staged, Placed, Fetched, Hashed, Recorded, Updated, Unpinned
<1> QED
  BY <1>1, <1>2, <1>3, <1>4, Proceeds DEF Goes

LEMMA BuildsAreNot ==
  /\ \A b \in Builds : b # None
  /\ \A b \in Builds : Half(b) \in File /\ Whole(b) \in File /\ Whole(b).whole
  /\ NoFile \in File /\ NoFile.whole
  BY BuildAssumption DEF Builds, None, Half, Whole, File, NoFile

(* Writing one extension's fields of the staging directory.                *)
LEMMA StagedFile ==
  ASSUME staging \in StagingRecords, NEW n \in Names, NEW f \in File, NEW t \in SUBSET Names,
         staging' = [staging EXCEPT !.file[n] = f, !.toml = t]
  PROVE  /\ staging' \in StagingRecords
         /\ staging'.file = [staging.file EXCEPT ![n] = f]
         /\ staging'.by = staging.by /\ staging'.previous = staging.previous
<1> DEFINE written == [staging.file EXCEPT ![n] = f]
<1>1. staging' = [[staging EXCEPT !.file = written] EXCEPT !.toml = t]
  BY DEF StagingRecords
<1>2. written \in [Names -> File]
  BY DEF StagingRecords
<1> HIDE DEF written
<1>3. staging' = [made |-> staging.made, file |-> written, by |-> staging.by, toml |-> t,
                  previous |-> staging.previous]
  BY <1>1 DEF StagingRecords
<1> QED
  BY <1>2, <1>3 DEF StagingRecords, written

LEMMA OpenedFile ==
  ASSUME staging \in StagingRecords, NEW n \in Names, NEW f \in File, NEW p \in Procs,
         staging' = [staging EXCEPT !.file[n] = f, !.by[n] = p]
  PROVE  /\ staging' \in StagingRecords
         /\ staging'.file = [staging.file EXCEPT ![n] = f]
         /\ staging'.by = [staging.by EXCEPT ![n] = p]
         /\ staging'.previous = staging.previous
<1> DEFINE written == [staging.file EXCEPT ![n] = f]
           by == [staging.by EXCEPT ![n] = p]
<1>1. staging' = [[staging EXCEPT !.file = written] EXCEPT !.by = by]
  BY DEF StagingRecords
<1>2. written \in [Names -> File] /\ by \in [Names -> Procs \cup {"nobody"}]
  BY DEF StagingRecords
<1> HIDE DEF written, by
<1>3. staging' = [made |-> staging.made, file |-> written, by |-> by, toml |-> staging.toml,
                  previous |-> staging.previous]
  BY <1>1 DEF StagingRecords
<1> QED
  BY <1>2, <1>3 DEF StagingRecords, written, by

LEMMA StagedOneFile ==
  ASSUME staging \in StagingRecords, NEW n \in Names, NEW f \in File,
         staging' = [staging EXCEPT !.file[n] = f]
  PROVE  /\ staging' \in StagingRecords
         /\ staging'.file = [staging.file EXCEPT ![n] = f]
         /\ staging'.by = staging.by /\ staging'.previous = staging.previous
<1> DEFINE written == [staging.file EXCEPT ![n] = f]
<1>1. written \in [Names -> File]
  BY DEF StagingRecords
<1>2. staging' = [staging EXCEPT !.file = written]
  BY DEF StagingRecords
<1> HIDE DEF written
<1> QED
  BY <1>1, <1>2 DEF StagingRecords, written

LEMMA StagedOnePrevious ==
  ASSUME staging \in StagingRecords, NEW n \in Names, NEW f \in File,
         staging' = [staging EXCEPT !.previous[n] = f]
  PROVE  /\ staging' \in StagingRecords
         /\ staging'.previous = [staging.previous EXCEPT ![n] = f]
         /\ staging'.file = staging.file /\ staging'.by = staging.by
<1> DEFINE previous == [staging.previous EXCEPT ![n] = f]
<1>1. previous \in [Names -> File]
  BY DEF StagingRecords
<1>2. staging' = [staging EXCEPT !.previous = previous]
  BY DEF StagingRecords
<1> HIDE DEF previous
<1> QED
  BY <1>1, <1>2 DEF StagingRecords, previous

LEMMA StageBeginKeeps ==
  ASSUME FilesInv, NEW p \in Procs, StageBegin(p)
  PROVE  FilesInv'
<1> DEFINE n == cmd[p].name
           b == IF cmd[p].pin = None THEN upstream[n] ELSE cmd[p].pin
           c == [cmd[p] EXCEPT !.pc = "staging", !.got = b]
<1>1. /\ At(p, "stage")
      /\ \/ Fail(p) /\ UNCHANGED staging
         \/ /\ b # None
            /\ staging' = [staging EXCEPT !.file[n] = Half(b), !.by[n] = p]
            /\ cmd' = [cmd EXCEPT ![p] = c]
      /\ UNCHANGED <<bin, record, conf, upstream, contested>>
  BY DEF StageBegin, Steady
<1>2. /\ Working(cmd[p]) /\ FileTypes /\ Wholes /\ Knows(p) /\ cmd[p] \in CommandRecords
      /\ n \in Names
  BY <1>1, AtWork DEF Steps
<1>3. CASE Fail(p) /\ UNCHANGED staging
  <2>1. /\ bin' \in [Names -> File] /\ staging' \in StagingRecords /\ Wholes' /\ Spares(p)
    BY <1>1, <1>2, <1>3 DEF FileTypes, Wholes, Spares
  <2> HIDE DEF n, b, c
  <2> QED
    BY <1>1, <1>3, <2>1, FailKeeps DEF Steps
<1>4. CASE /\ b # None
           /\ staging' = [staging EXCEPT !.file[n] = Half(b), !.by[n] = p]
           /\ cmd' = [cmd EXCEPT ![p] = c]
  <2>1. b \in MaybeBuild /\ b \in Builds
    BY <1>2, <1>4 DEF FileTypes, CommandRecords, MaybeBuild
  <2> HIDE DEF b
  <2>2. /\ c \in CommandRecords /\ c.pc = "staging" /\ c.about = cmd[p].about
        /\ c.todo = cmd[p].todo /\ c.name = cmd[p].name /\ c.op = cmd[p].op
        /\ c.pin = cmd[p].pin /\ c.got = b
    BY <1>2, <2>1 DEF CommandRecords, Steps
  <2> HIDE DEF n, c
  <2>3. /\ cmd' \in [Procs -> CommandRecords] /\ cmd'[p] = c
        /\ \A q \in Procs \ {p} : cmd'[q] = cmd[q]
    BY <1>2, <1>4, <2>2 DEF FileTypes
  <2>4. /\ staging' \in StagingRecords
        /\ staging'.file = [staging.file EXCEPT ![n] = Half(b)]
        /\ staging'.by = [staging.by EXCEPT ![n] = p]
        /\ staging'.previous = staging.previous
    BY <1>2, <1>4, <2>1, BuildsAreNot, OpenedFile DEF FileTypes
  <2>5. FileTypes' /\ Wholes'
    BY <1>1, <1>2, <2>3, <2>4 DEF FileTypes, Wholes
  <2>6. Spares(p)
    BY <1>1, <1>2, <2>4 DEF Spares, n, FileTypes, StagingRecords
  <2>7. staging'.file[c.name] = Half(c.got) /\ staging'.by[c.name] = p
    BY <1>2, <2>2, <2>4 DEF n, FileTypes, StagingRecords
  <2>8. Knows(p)'
    BY <1>2, <1>4, <2>2, <2>3, <2>7
    DEF Knows, Alone, Writing, Staged, Placed, Fetched, Hashed, Recorded, Updated, Unpinned
  <2> QED
    BY <1>2, <2>2, <2>3, <2>5, <2>6, <2>8, Proceeds
<1> QED
  BY <1>1, <1>3, <1>4

(* No other command writes the staged file of an extension nobody          *)
(* contests.                                                               *)
LEMMA SoleWriter ==
  ASSUME FilesInv, NEW p \in Procs, At(p, "staging"), Alone(cmd[p]),
         Exists(staging.file[cmd[p].name])
  PROVE  Sole(p) /\ staging.file[cmd[p].name] = Half(cmd[p].got)
<1> DEFINE n == cmd[p].name
<1>1. n \in cmd[p].about /\ Knows(p)
  BY AtWork DEF Steps
<1>2. staging.by[n] = p /\ staging.file[n] = Half(cmd[p].got)
  BY <1>1 DEF Knows, Writing, At, Exists, NoFile
<1>3. ASSUME NEW q \in Procs \ {p}, cmd[q].pc = "staging", cmd[q].name = n PROVE FALSE
  <2>1. n \in cmd[q].about
    BY <1>3, AtWork DEF Steps, At
  <2> QED
    BY <1>1, <2>1 DEF FilesInv, Apart, Alone
<1> QED
  BY <1>2, <1>3 DEF Sole

LEMMA StageEndKeeps ==
  ASSUME FilesInv, NEW p \in Procs, StageEnd(p)
  PROVE  FilesInv'
<1> DEFINE n == cmd[p].name
<1>1. /\ At(p, "staging")
      /\ \/ /\ Exists(staging.file[n])
            /\ \E whole \in BOOLEAN, toml \in SUBSET {n} :
                  /\ Sole(p) => whole
                  /\ staging' = [staging EXCEPT !.file[n].whole = whole,
                                                !.toml = @ \cup toml]
            /\ Goto(p, "aside")
         \/ Fail(p) /\ UNCHANGED staging
      /\ UNCHANGED <<bin, record, conf, upstream, contested>>
  BY DEF StageEnd, Steady
<1>2. /\ Working(cmd[p]) /\ FileTypes /\ Wholes /\ Knows(p) /\ cmd[p] \in CommandRecords
      /\ n \in Names
  BY <1>1, AtWork DEF Steps
<1>3. CASE Fail(p) /\ UNCHANGED staging
  <2>1. /\ bin' \in [Names -> File] /\ staging' \in StagingRecords /\ Wholes' /\ Spares(p)
    BY <1>1, <1>2, <1>3 DEF FileTypes, Wholes, Spares
  <2> HIDE DEF n
  <2> QED
    BY <1>1, <1>3, <2>1, FailKeeps DEF Steps
<1>4. ASSUME Exists(staging.file[n]), Goto(p, "aside"),
             NEW whole \in BOOLEAN, NEW toml \in SUBSET {n}, Sole(p) => whole,
             staging' = [staging EXCEPT !.file[n].whole = whole, !.toml = @ \cup toml]
      PROVE  FilesInv'
  <2> DEFINE f == [staging.file[n] EXCEPT !.whole = whole]
             t == staging.toml \cup toml
  <2>1. Goes(p, "aside")
    BY <1>2, <1>4, GoesOn DEF FileTypes, Steps
  <2>2. f \in File /\ f.build = staging.file[n].build /\ f.whole = whole
    BY <1>2, <1>4 DEF FileTypes, StagingRecords, File, Exists
  <2>3. t \in SUBSET Names
    BY <1>2 DEF FileTypes, StagingRecords
  <2>4. staging' = [staging EXCEPT !.file[n] = f, !.toml = t]
    BY <1>2, <1>4 DEF FileTypes, StagingRecords
  <2>5. Alone(cmd[p]) => f = Whole(cmd[p].got)
    <3>1. Alone(cmd[p]) => whole /\ staging.file[n] = Half(cmd[p].got)
      BY <1>1, <1>4, SoleWriter
    <3>2. f = [build |-> f.build, whole |-> f.whole]
      BY <2>2 DEF File
    <3>3. \A b : Half(b).build = b
      BY DEF Half
    <3> HIDE DEF f
    <3> QED
      BY <1>4, <2>2, <3>1, <3>2, <3>3 DEF Whole
  <2>6. cmd[p].got # None
    BY <1>1, <1>2 DEF Knows, Fetched, At
  <2> HIDE DEF n, f, t
  <2>7. /\ staging' \in StagingRecords
        /\ staging'.file = [staging.file EXCEPT ![n] = f]
        /\ staging'.by = staging.by /\ staging'.previous = staging.previous
    BY <1>2, <2>2, <2>3, <2>4, StagedFile DEF FileTypes
  <2>8. FileTypes' /\ Wholes'
    BY <1>1, <1>2, <2>1, <2>7 DEF FileTypes, Wholes, Goes
  <2>9. Spares(p)
    BY <1>1, <1>2, <2>7 DEF Spares, n, FileTypes, StagingRecords
  <2>10. Alone(cmd'[p]) => staging'.file[cmd'[p].name] = Whole(cmd'[p].got)
    BY <1>2, <2>1, <2>5, <2>7 DEF Goes, Alone, n, FileTypes, StagingRecords
  <2>11. Knows(p)'
    BY <1>1, <1>2, <2>1, <2>6, <2>10
    DEF Goes, Knows, Alone, Writing, Staged, Placed, Fetched, Hashed, Recorded, Updated,
        Unpinned
  <2> QED
    BY <1>2, <2>1, <2>8, <2>9, <2>11, Proceeds DEF Goes
<1> QED
  BY <1>1, <1>3, <1>4

LEMMA MoveAsideKeeps ==
  ASSUME FilesInv, NEW p \in Procs, MoveAside(p)
  PROVE  FilesInv'
<1> DEFINE n == cmd[p].name
<1>1. /\ At(p, "aside")
      /\ \/ /\ Goto(p, "place")
            /\ \/ /\ staging' = [staging EXCEPT !.previous[n] = bin[n]]
                  /\ bin' = [bin EXCEPT ![n] = NoFile]
               \/ UNCHANGED <<staging, bin>>
         \/ Fail(p) /\ UNCHANGED <<staging, bin>>
      /\ UNCHANGED <<record, conf, upstream, contested>>
  BY DEF MoveAside, Steady
<1>2. /\ Working(cmd[p]) /\ FileTypes /\ Wholes /\ Knows(p) /\ cmd[p] \in CommandRecords
      /\ n \in Names
  BY <1>1, AtWork DEF Steps
<1>3. CASE Fail(p) /\ UNCHANGED <<staging, bin>>
  <2>1. /\ bin' \in [Names -> File] /\ staging' \in StagingRecords /\ Wholes' /\ Spares(p)
    BY <1>1, <1>2, <1>3 DEF FileTypes, Wholes, Spares
  <2> QED
    BY <1>1, <1>3, <2>1, FailKeeps DEF Steps
<1>4. CASE /\ Goto(p, "place")
           /\ \/ /\ staging' = [staging EXCEPT !.previous[n] = bin[n]]
                 /\ bin' = [bin EXCEPT ![n] = NoFile]
              \/ UNCHANGED <<staging, bin>>
  <2>1. Goes(p, "place")
    BY <1>2, <1>4, GoesOn DEF FileTypes, Steps
  <2>2. bin[n] \in File /\ (n \notin contested => bin[n].whole)
    BY <1>2 DEF FileTypes, Wholes
  <2> HIDE DEF n
  <2>3. /\ staging' \in StagingRecords
        /\ staging'.file = staging.file /\ staging'.by = staging.by
        /\ \/ staging'.previous = [staging.previous EXCEPT ![n] = bin[n]]
           \/ staging'.previous = staging.previous
    BY <1>2, <1>4, <2>2, StagedOnePrevious DEF FileTypes
  <2>4. /\ bin' \in [Names -> File] /\ \A m \in Names \ {n} : bin'[m] = bin[m]
        /\ \A m \in Names \ contested : bin'[m].whole
    BY <1>2, <1>4, BuildsAreNot DEF FileTypes, Wholes
  <2>5. FileTypes'
    BY <1>1, <1>2, <2>1, <2>3, <2>4 DEF FileTypes, Goes
  <2>6. Wholes'
    BY <1>1, <1>2, <2>2, <2>3, <2>4 DEF Wholes, FileTypes, StagingRecords
  <2>7. Spares(p)
    BY <1>1, <2>3, <2>4 DEF Spares, n
  <2>8. Knows(p)'
    BY <1>1, <1>2, <2>1, <2>3
    DEF At, Goes, Knows, Alone, Writing, Staged, Placed, Fetched, Hashed, Recorded, Updated, Unpinned
  <2> QED
    BY <1>2, <2>1, <2>5, <2>6, <2>7, <2>8, Proceeds DEF Goes
<1> QED
  BY <1>1, <1>3, <1>4

LEMMA PlaceKeeps ==
  ASSUME FilesInv, NEW p \in Procs, Place(p)
  PROVE  FilesInv'
<1> DEFINE n == cmd[p].name
<1>1. /\ At(p, "place")
      /\ \/ /\ Exists(staging.file[n])
            /\ bin' = [bin EXCEPT ![n] = staging.file[n]]
            /\ staging' = [staging EXCEPT !.file[n] = NoFile]
            /\ Goto(p, "manifest")
         \/ /\ \/ /\ bin' = [bin EXCEPT ![n] = staging.previous[n]]
                  /\ staging' = [staging EXCEPT !.previous[n] = NoFile]
               \/ UNCHANGED <<bin, staging>>
            /\ Fail(p)
      /\ UNCHANGED <<record, conf, upstream, contested>>
  BY DEF Place, Steady
<1>2. /\ Working(cmd[p]) /\ FileTypes /\ Wholes /\ Knows(p) /\ cmd[p] \in CommandRecords
      /\ n \in Names
  BY <1>1, AtWork DEF Steps
<1>3. CASE /\ \/ /\ bin' = [bin EXCEPT ![n] = staging.previous[n]]
                 /\ staging' = [staging EXCEPT !.previous[n] = NoFile]
              \/ UNCHANGED <<bin, staging>>
           /\ Fail(p)
  <2>1. /\ staging.previous[n] \in File
        /\ n \notin contested => staging.previous[n].whole
    BY <1>2 DEF FileTypes, StagingRecords, Wholes
  <2> HIDE DEF n
  <2>2. /\ bin' \in [Names -> File] /\ \A m \in Names \ {n} : bin'[m] = bin[m]
        /\ \A m \in Names \ contested : bin'[m].whole
    BY <1>2, <1>3, <2>1 DEF FileTypes, Wholes
  <2>3. /\ staging' \in StagingRecords
        /\ staging'.file = staging.file /\ staging'.by = staging.by
        /\ \/ staging'.previous = [staging.previous EXCEPT ![n] = NoFile]
           \/ staging'.previous = staging.previous
    BY <1>2, <1>3, BuildsAreNot, StagedOnePrevious DEF FileTypes
  <2>4. Wholes'
    BY <1>1, <1>2, <2>2, <2>3, BuildsAreNot DEF Wholes, FileTypes, StagingRecords
  <2>5. Spares(p)
    BY <1>1, <2>2, <2>3 DEF Spares, n
  <2> QED
    BY <1>1, <1>3, <2>2, <2>3, <2>4, <2>5, FailKeeps DEF Steps
<1>4. CASE /\ Exists(staging.file[n])
           /\ bin' = [bin EXCEPT ![n] = staging.file[n]]
           /\ staging' = [staging EXCEPT !.file[n] = NoFile]
           /\ Goto(p, "manifest")
  <2>1. Goes(p, "manifest")
    BY <1>2, <1>4, GoesOn DEF FileTypes, Steps
  <2>2. /\ cmd[p].got \in Builds /\ staging.file[n] \in File
        /\ n \notin contested => staging.file[n] = Whole(cmd[p].got)
    <3>1. cmd[p].got \in Builds /\ staging.file[n] \in File
      BY <1>1, <1>2
      DEF Knows, Fetched, At, CommandRecords, MaybeBuild, FileTypes, StagingRecords
    <3>2. n \notin contested => staging.file[n] \in {Whole(cmd[p].got), NoFile}
      BY <1>1, <1>2 DEF Knows, Alone, Staged, At
    <3> QED
      BY <1>4, <3>1, <3>2 DEF Exists, NoFile
  <2> HIDE DEF n
  <2>3. /\ staging' \in StagingRecords
        /\ staging'.by = staging.by /\ staging'.previous = staging.previous
        /\ staging'.file = [staging.file EXCEPT ![n] = NoFile]
    BY <1>2, <1>4, BuildsAreNot, StagedOneFile DEF FileTypes
  <2>4. /\ bin' \in [Names -> File] /\ \A m \in Names \ {n} : bin'[m] = bin[m]
        /\ n \notin contested => bin'[n] = Whole(cmd[p].got)
        /\ \A m \in Names \ contested : bin'[m].whole
    BY <1>2, <1>4, <2>2, BuildsAreNot DEF FileTypes, Wholes
  <2>5. FileTypes' /\ Wholes'
    BY <1>1, <1>2, <2>1, <2>3, <2>4 DEF FileTypes, Wholes, Goes
  <2>6. Spares(p)
    BY <1>1, <1>2, <2>3, <2>4 DEF Spares, n, FileTypes, StagingRecords
  <2>7. /\ cmd'[p].name \notin contested => bin'[cmd'[p].name] = Whole(cmd'[p].got)
        /\ cmd'[p].got # None
    BY <2>1, <2>2, <2>4, BuildsAreNot DEF Goes, n
  <2>8. Knows(p)'
    BY <1>1, <1>2, <2>1, <2>7
    DEF Goes, Knows, Alone, Writing, Staged, Placed, Fetched, Hashed, Recorded, Updated, Unpinned
  <2> QED
    BY <1>2, <2>1, <2>5, <2>6, <2>8, Proceeds DEF Goes
<1> QED
  BY <1>1, <1>3, <1>4

LEMMA TakeManifestKeeps ==
  ASSUME FilesInv, NEW p \in Procs, TakeManifest(p)
  PROVE  FilesInv'
<1>1. /\ At(p, "manifest") /\ Goto(p, "hash")
      /\ UNCHANGED <<bin, record, staging, conf, upstream, contested>>
  BY DEF TakeManifest, Steady
<1>2. /\ Working(cmd[p]) /\ FileTypes /\ Wholes /\ Knows(p) /\ cmd[p] \in CommandRecords
  BY <1>1, AtWork DEF Steps
<1>3. Goes(p, "hash")
  BY <1>1, <1>2, GoesOn DEF FileTypes, Steps
<1>4. FileTypes' /\ Wholes' /\ Spares(p)
  BY <1>1, <1>2, <1>3 DEF FileTypes, Wholes, Goes, Spares
<1>5. Knows(p)'
  BY <1>1, <1>2, <1>3
  DEF At, Goes, Knows, Alone, Writing, Staged, Placed, Fetched, Hashed, Recorded, Updated, Unpinned
<1> QED
  BY <1>2, <1>3, <1>4, <1>5, Proceeds DEF Goes

LEMMA FingerprintKeeps ==
  ASSUME FilesInv, NEW p \in Procs, Fingerprint(p)
  PROVE  FilesInv'
<1> DEFINE c == [cmd[p] EXCEPT !.pc = "drop", !.sha = bin[cmd[p].name].build]
<1>1. /\ At(p, "hash")
      /\ cmd' = [cmd EXCEPT ![p] = c] \/ Fail(p)
      /\ UNCHANGED <<bin, record, staging, conf, upstream, contested>>
  BY DEF Fingerprint, Steady, files
<1>2. /\ Working(cmd[p]) /\ FileTypes /\ Wholes /\ Knows(p) /\ cmd[p] \in CommandRecords
  BY <1>1, AtWork DEF Steps
<1>3. CASE Fail(p)
  <2>1. /\ bin' \in [Names -> File] /\ staging' \in StagingRecords /\ Wholes' /\ Spares(p)
    BY <1>1, <1>2 DEF FileTypes, Wholes, Spares
  <2> QED
    BY <1>1, <1>3, <2>1, FailKeeps DEF Steps
<1>4. CASE cmd' = [cmd EXCEPT ![p] = c]
  <2>1. cmd[p].got \in Builds /\ cmd[p].got # None
    BY <1>1, <1>2 DEF Knows, Fetched, At, CommandRecords, MaybeBuild
  <2>2. /\ bin[cmd[p].name].build \in MaybeBuild
        /\ Alone(cmd[p]) => bin[cmd[p].name].build = cmd[p].got
    <3>1. bin[cmd[p].name] \in File /\ (Alone(cmd[p]) => bin[cmd[p].name] = Whole(cmd[p].got))
      BY <1>1, <1>2, AtWork DEF Knows, Placed, At, FileTypes, Steps
    <3>2. \A f \in File : f.build \in MaybeBuild
      BY DEF File, MaybeBuild
    <3>3. \A b : Whole(b).build = b
      BY DEF Whole
    <3> QED
      BY <3>1, <3>2, <3>3
  <2>3. /\ c \in CommandRecords /\ c.pc = "drop" /\ c.about = cmd[p].about
        /\ c.todo = cmd[p].todo /\ c.name = cmd[p].name /\ c.op = cmd[p].op
        /\ c.pin = cmd[p].pin /\ c.got = cmd[p].got
        /\ Alone(cmd[p]) => c.sha = cmd[p].got
    BY <1>2, <2>1, <2>2 DEF CommandRecords, Steps, MaybeBuild
  <2> HIDE DEF c
  <2>4. /\ cmd' \in [Procs -> CommandRecords] /\ cmd'[p] = c
        /\ \A q \in Procs \ {p} : cmd'[q] = cmd[q]
    BY <1>2, <1>4, <2>3 DEF FileTypes
  <2>5. FileTypes' /\ Wholes' /\ Spares(p)
    BY <1>1, <1>2, <2>4 DEF FileTypes, Wholes, Spares
  <2>6. Knows(p)'
    BY <1>1, <1>2, <2>1, <2>3, <2>4
    DEF Knows, Alone, Writing, Staged, Placed, Fetched, Hashed, Recorded, Updated, Unpinned
  <2> QED
    BY <1>2, <2>3, <2>4, <2>5, <2>6, Proceeds
<1> QED
  BY <1>1, <1>3, <1>4

LEMMA DropStagingKeeps ==
  ASSUME FilesInv, NEW p \in Procs, DropStaging(p)
  PROVE  FilesInv'
<1>1. /\ At(p, "drop") /\ staging' = Emptied(FALSE)
      /\ \/ cmd[p].name \notin cmd[p].failed /\ Goto(p, "record")
         \/ cmd[p].name \in cmd[p].failed /\ cmd[p].op = "update" /\ Goto(p, "next")
         \/ Goto(p, "idle")
      /\ UNCHANGED <<bin, record, conf, upstream, contested>>
  BY DEF DropStaging, Steady
<1>2. /\ Working(cmd[p]) /\ FileTypes /\ Wholes /\ Knows(p) /\ cmd[p] \in CommandRecords
  BY <1>1, AtWork DEF Steps
<1>3. /\ staging' \in StagingRecords /\ Wholes' /\ Spares(p)
      /\ bin' \in [Names -> File] /\ record' \in [Names -> Records]
      /\ conf' \in [Names -> Flags]
  BY <1>1, <1>2, EmptiedIsStaging DEF Wholes, Spares, FileTypes
<1>4. CASE Goto(p, "idle")
  BY <1>1, <1>2, <1>3, <1>4, Ends
<1>5. CASE cmd[p].name \notin cmd[p].failed /\ Goto(p, "record")
  <2>1. Goes(p, "record") /\ cmd'[p].failed = cmd[p].failed
    BY <1>2, <1>5, GoesOn DEF FileTypes, Steps
  <2>2. Knows(p)'
    BY <1>1, <1>2, <1>5, <2>1
    DEF At, Goes, Knows, Alone, Writing, Staged, Placed, Fetched, Hashed, Recorded, Updated, Unpinned
  <2>3. FileTypes'
    BY <1>1, <1>2, <1>3, <2>1 DEF Goes, FileTypes
  <2> QED
    BY <1>2, <1>3, <2>1, <2>2, <2>3, Proceeds DEF Goes
<1>6. CASE cmd[p].name \in cmd[p].failed /\ cmd[p].op = "update" /\ Goto(p, "next")
  <2>1. Goes(p, "next") /\ cmd'[p].failed = cmd[p].failed
    BY <1>2, <1>6, GoesOn DEF FileTypes, Steps
  <2>2. Knows(p)'
    BY <1>1, <1>2, <1>6, <2>1
    DEF At, Goes, Knows, Alone, Writing, Staged, Placed, Fetched, Hashed, Recorded, Updated, Unpinned
  <2>3. FileTypes'
    BY <1>1, <1>2, <1>3, <2>1 DEF Goes, FileTypes
  <2> QED
    BY <1>2, <1>3, <2>1, <2>2, <2>3, Proceeds DEF Goes
<1> QED
  BY <1>1, <1>4, <1>5, <1>6

LEMMA NextItemKeeps ==
  ASSUME FilesInv, NEW p \in Procs, NextItem(p)
  PROVE  FilesInv'
<1>1. /\ At(p, "next")
      /\ \/ Goto(p, "idle")
         \/ \E n \in cmd[p].todo :
               cmd' = [cmd EXCEPT ![p] =
                         [cmd[p] EXCEPT !.pc = "clear", !.name = n, !.todo = @ \ {n},
                                        !.got = None, !.sha = None]]
      /\ UNCHANGED <<bin, record, staging, conf, upstream, contested>>
  <2>1. UNCHANGED <<bin, record, staging, conf, upstream, contested>>
    BY DEF NextItem, Steady, files
  <2> QED
    BY <2>1, Zenon DEF NextItem
<1>2. /\ FileTypes /\ Wholes /\ Knows(p) /\ cmd[p] \in CommandRecords
      /\ cmd[p].todo \subseteq cmd[p].about
  BY DEF FilesInv, FileTypes, Apart
<1>3. \A n \in Names : /\ bin'[n] = bin[n] /\ record'[n] = record[n]
                       /\ staging'.file[n] = staging.file[n]
  BY <1>1
<1>4. ASSUME NEW q \in Procs, cmd'[q] = cmd[q]
      PROVE  Knows(q)'
  <2>1. Knows(q)
    BY DEF FilesInv
  <2> QED
    BY <1>1, <1>4, <2>1
    DEF Knows, Alone, Writing, Staged, Placed, Fetched, Hashed, Recorded, Updated, Unpinned
<1>5. CASE Goto(p, "idle")
  <2>1. /\ cmd' \in [Procs -> CommandRecords] /\ cmd'[p] = Idle
        /\ \A q \in Procs \ {p} : cmd'[q] = cmd[q]
    BY <1>2, <1>5, EndsIdle DEF FileTypes
  <2>2. /\ Knows(p)' /\ cmd'[p].about = {} /\ cmd'[p].todo = {}
        /\ ~Working(cmd'[p])
    BY <2>1, IdleKnows
  <2>3. Apart' /\ FileTypes' /\ Wholes'
    BY <1>1, <1>2, <2>1, <2>2, StillApart DEF FileTypes, Wholes
  <2>4. \A q \in Procs : Knows(q)'
    BY <1>4, <2>1, <2>2
  <2> QED
    BY <2>3, <2>4 DEF FilesInv
<1>6. ASSUME NEW n \in cmd[p].todo,
             cmd' = [cmd EXCEPT ![p] =
                       [cmd[p] EXCEPT !.pc = "clear", !.name = n, !.todo = @ \ {n},
                                      !.got = None, !.sha = None]]
      PROVE  FilesInv'
  <2> DEFINE c == [cmd[p] EXCEPT !.pc = "clear", !.name = n, !.todo = @ \ {n},
                                 !.got = None, !.sha = None]
  <2>1. /\ c \in CommandRecords /\ c.pc = "clear" /\ c.about = cmd[p].about
        /\ c.todo \subseteq cmd[p].todo /\ c.name = n /\ c.pin = cmd[p].pin
        /\ c.op = cmd[p].op
    <3>1. n \in Names /\ cmd[p].todo \ {n} \in SUBSET Names
      BY <1>2 DEF CommandRecords
    <3> QED
      BY <1>2, <3>1 DEF CommandRecords, Steps, MaybeBuild
  <2> HIDE DEF c
  <2>2. /\ cmd' \in [Procs -> CommandRecords] /\ cmd'[p] = c
        /\ \A q \in Procs \ {p} : cmd'[q] = cmd[q]
    BY <1>2, <1>6, <2>1 DEF FileTypes, c
  <2>3. Apart' /\ FileTypes' /\ Wholes'
    BY <1>1, <1>2, <2>1, <2>2, StillApart DEF FileTypes, Wholes
  <2>4. Knows(p)'
    BY <1>2, <2>1, <2>2
    DEF Knows, Alone, Writing, Staged, Placed, Fetched, Hashed, Recorded, Updated, Unpinned
  <2> QED
    BY <1>4, <2>2, <2>3, <2>4 DEF FilesInv
<1> QED
  BY <1>1, <1>5, <1>6

LEMMA SaveRecordKeeps ==
  ASSUME FilesInv, NEW p \in Procs, SaveRecord(p)
  PROVE  FilesInv'
<1> DEFINE n == cmd[p].name
           c == [cmd[p] EXCEPT !.pc = "next", !.failed = @ \cup {n}]
<1>1. /\ At(p, "record")
      /\ \/ /\ record' = [record EXCEPT ![n] = RecordOf(p)]
            /\ \/ cmd[p].op = "update" /\ Goto(p, "refresh")
               \/ cmd[p].op # "update" /\ Goto(p, "config")
               \/ Goto(p, "idle")
         \/ /\ \/ cmd[p].op = "update" /\ cmd' = [cmd EXCEPT ![p] = c]
               \/ Goto(p, "idle")
            /\ UNCHANGED record
      /\ UNCHANGED <<bin, staging, conf, upstream, contested>>
  BY DEF SaveRecord, Steady
<1>2. /\ Working(cmd[p]) /\ FileTypes /\ Wholes /\ Knows(p) /\ cmd[p] \in CommandRecords
      /\ n \in Names
  BY <1>1, AtWork DEF Steps
<1>3. Alone(cmd[p]) => cmd[p].sha = cmd[p].got /\ cmd[p].got # None
  BY <1>1, <1>2 DEF Knows, Hashed, At
<1>4. RecordOf(p) \in Records
  BY <1>2 DEF RecordOf, Records, CommandRecords, MaybeBuild
<1>5. /\ bin' \in [Names -> File] /\ record' \in [Names -> Records]
      /\ staging' \in StagingRecords /\ conf' \in [Names -> Flags]
      /\ Wholes' /\ Spares(p)
  <2> HIDE DEF n, c
  <2>1. record' = record \/ record' = [record EXCEPT ![n] = RecordOf(p)]
    BY <1>1
  <2> QED
    BY <1>1, <1>2, <1>4, <2>1 DEF FileTypes, Wholes, Spares, n
<1>6. CASE Goto(p, "idle")
  BY <1>1, <1>2, <1>5, <1>6, Ends
<1>7. CASE cmd[p].op # "update" /\ Goto(p, "config")
  <2>1. Goes(p, "config")
    BY <1>2, <1>7, GoesOn DEF FileTypes, Steps
  <2>2. Knows(p)'
    BY <1>2, <1>7, <2>1
    DEF Goes, Knows, Alone, Writing, Staged, Placed, Fetched, Hashed, Recorded, Updated, Unpinned
  <2>3. FileTypes'
    BY <1>1, <1>2, <1>5, <2>1 DEF Goes, FileTypes
  <2> QED
    BY <1>2, <1>5, <2>1, <2>2, <2>3, Proceeds DEF Goes
<1>8. CASE /\ record' = [record EXCEPT ![n] = RecordOf(p)]
           /\ cmd[p].op = "update" /\ Goto(p, "refresh")
  <2>1. Goes(p, "refresh")
    BY <1>2, <1>8, GoesOn DEF FileTypes, Steps
  <2>2. cmd[p].pin = None
    BY <1>2, <1>8 DEF Knows, Unpinned
  <2>3. Alone(cmd[p]) =>
          record'[n] = [pin |-> None, sha |-> cmd[p].got,
                        version |-> IF KindOf[n] = "local" THEN None ELSE cmd[p].got]
    BY <1>2, <1>3, <1>8, <2>2 DEF RecordOf, FileTypes
  <2>4. Knows(p)'
    BY <1>1, <1>2, <1>3, <1>8, <2>1, <2>3
    DEF Goes, Knows, Alone, Writing, Staged, Placed, Fetched, Hashed, Recorded, Updated, Unpinned
  <2>5. FileTypes'
    BY <1>1, <1>2, <1>5, <2>1 DEF Goes, FileTypes
  <2> QED
    BY <1>2, <1>5, <2>1, <2>4, <2>5, Proceeds DEF Goes
<1>9. CASE cmd[p].op = "update" /\ cmd' = [cmd EXCEPT ![p] = c]
  <2>1. /\ c \in CommandRecords /\ c.pc = "next" /\ c.about = cmd[p].about
        /\ c.todo = cmd[p].todo /\ c.name = cmd[p].name /\ c.op = cmd[p].op
        /\ c.pin = cmd[p].pin /\ n \in c.failed
    BY <1>2 DEF CommandRecords, Steps
  <2> HIDE DEF c
  <2>2. /\ cmd' \in [Procs -> CommandRecords] /\ cmd'[p] = c
        /\ \A q \in Procs \ {p} : cmd'[q] = cmd[q]
    BY <1>2, <1>9, <2>1 DEF FileTypes
  <2>3. Knows(p)'
    BY <1>2, <1>9, <2>1, <2>2
    DEF Knows, Alone, Writing, Staged, Placed, Fetched, Hashed, Recorded, Updated, Unpinned
  <2>4. FileTypes'
    BY <1>1, <1>2, <1>5, <2>2 DEF FileTypes
  <2> QED
    BY <1>2, <1>5, <2>1, <2>2, <2>3, <2>4, Proceeds
<1> QED
  BY <1>1, <1>6, <1>7, <1>8, <1>9

LEMMA RefreshManifestKeeps ==
  ASSUME FilesInv, NEW p \in Procs, RefreshManifest(p)
  PROVE  FilesInv'
<1>1. /\ At(p, "refresh") /\ Goto(p, "next")
      /\ UNCHANGED <<bin, record, staging, conf, upstream, contested>>
  BY DEF RefreshManifest, Steady
<1>2. /\ Working(cmd[p]) /\ FileTypes /\ Wholes /\ Knows(p) /\ cmd[p] \in CommandRecords
  BY <1>1, AtWork DEF Steps
<1>3. Goes(p, "next") /\ cmd'[p].failed = cmd[p].failed
  BY <1>1, <1>2, GoesOn DEF FileTypes, Steps
<1>4. FileTypes' /\ Wholes' /\ Spares(p)
  BY <1>1, <1>2, <1>3 DEF FileTypes, Wholes, Goes, Spares
<1>5. Knows(p)'
  BY <1>1, <1>2, <1>3
  DEF At, Goes, Knows, Alone, Writing, Staged, Placed, Fetched, Hashed, Recorded, Updated, Unpinned
<1> QED
  BY <1>2, <1>3, <1>4, <1>5, Proceeds DEF Goes

LEMMA RemoveKeeps ==
  ASSUME FilesInv, NEW p \in Procs, RemoveBinary(p) \/ RemoveRest(p)
  PROVE  FilesInv'
<1> DEFINE n == cmd[p].name
<1>1. /\ At(p, "remove") \/ At(p, "sweep")
      /\ Goto(p, "sweep") \/ Goto(p, "config") \/ Goto(p, "idle")
      /\ bin' = bin \/ bin' = [bin EXCEPT ![n] = NoFile]
      /\ record' = record \/ record' = [record EXCEPT ![n] = NoRecord]
      /\ UNCHANGED <<staging, conf, upstream, contested>>
  BY DEF RemoveBinary, RemoveRest, Steady
<1>2. /\ Working(cmd[p]) /\ FileTypes /\ Wholes /\ Knows(p) /\ cmd[p] \in CommandRecords
      /\ n \in Names
  BY <1>1, AtWork DEF Steps
<1>3. NoRecord \in Records
  BY DEF NoRecord, Records
<1>4. /\ bin' \in [Names -> File] /\ record' \in [Names -> Records]
      /\ staging' \in StagingRecords /\ conf' \in [Names -> Flags]
      /\ Wholes' /\ Spares(p)
  <2> HIDE DEF n
  <2> QED
    BY <1>1, <1>2, <1>3, BuildsAreNot DEF FileTypes, Wholes, Spares, n
<1>5. CASE Goto(p, "idle")
  BY <1>1, <1>2, <1>4, <1>5, Ends
<1>6. ASSUME NEW pc \in {"sweep", "config"}, Goto(p, pc) PROVE FilesInv'
  <2>1. Goes(p, pc)
    BY <1>2, <1>6, GoesOn DEF FileTypes, Steps
  <2>2. cmd[p].pc \in {"remove", "sweep"} /\ cmd'[p].pc \in {"sweep", "config"}
    BY <1>1, <2>1 DEF At, Goes
  <2>3. Knows(p)'
    BY <1>2, <2>1, <2>2
    DEF Goes, Knows, Alone, Writing, Staged, Placed, Fetched, Hashed, Recorded, Updated, Unpinned
  <2>4. FileTypes'
    BY <1>1, <1>2, <1>4, <2>1 DEF Goes, FileTypes
  <2> QED
    BY <1>2, <1>4, <2>1, <2>3, <2>4, Proceeds DEF Goes
<1> QED
  BY <1>1, <1>5, <1>6

LEMMA SaveConfigKeeps ==
  ASSUME FilesInv, NEW p \in Procs, SaveConfig(p)
  PROVE  FilesInv'
<1>1. /\ At(p, "config") /\ Goto(p, "idle")
      /\ conf' = [cmd[p].conf EXCEPT ![cmd[p].name] = cmd[p].set]
      /\ UNCHANGED <<bin, record, staging, upstream, contested>>
  BY DEF SaveConfig, files
<1>2. /\ Working(cmd[p]) /\ FileTypes /\ Wholes /\ cmd[p] \in CommandRecords
  BY <1>1, AtWork DEF Steps
<1>3. conf' \in [Names -> Flags]
  BY <1>1, <1>2 DEF CommandRecords
<1> QED
  BY <1>1, <1>2, <1>3, Ends DEF FileTypes, Wholes, Spares

LEMMA CrashKeeps ==
  ASSUME FilesInv, NEW p \in Procs, Crash(p)
  PROVE  FilesInv'
<1>1. /\ Goto(p, "idle") /\ UNCHANGED <<bin, record, staging, conf, upstream, contested>>
  BY DEF Crash, Steady, files
<1>2. FileTypes /\ Wholes
  BY DEF FilesInv
<1>3. /\ cmd' \in [Procs -> CommandRecords] /\ cmd'[p] = Idle
      /\ \A q \in Procs \ {p} : cmd'[q] = cmd[q]
  BY <1>1, <1>2, EndsIdle DEF FileTypes
<1>4. /\ Knows(p)' /\ cmd'[p].about = {} /\ cmd'[p].todo = {}
      /\ ~Working(cmd'[p])
  BY <1>3, IdleKnows
<1>5. Apart' /\ FileTypes' /\ Wholes'
  BY <1>1, <1>2, <1>3, <1>4, StillApart DEF FileTypes, Wholes
<1>6. ASSUME NEW q \in Procs, q # p PROVE Knows(q)'
  <2>1. Knows(q) /\ cmd'[q] = cmd[q]
    BY <1>3, <1>6 DEF FilesInv
  <2> QED
    BY <1>1, <2>1
    DEF Knows, Alone, Writing, Staged, Placed, Fetched, Hashed, Recorded, Updated, Unpinned
<1> QED
  BY <1>4, <1>5, <1>6 DEF FilesInv
-----------------------------------------------------------------------------
(* What a command that starts has in common with another one is contested. *)
LEMMA StartsKeep ==
  ASSUME FilesInv, NEW p \in Procs, NEW S \in SUBSET Names, MayStart(p, S),
         NEW c \in CommandRecords, cmd' = [cmd EXCEPT ![p] = c], c.about = S,
         c.todo \subseteq S, Working(c) => c.name \in S,
         c.pc \in {"clear", "next", "remove", "config"},
         c.pc = "next" => c.name = None /\ c.op = "update",
         c.op = "update" => c.pin = None
  PROVE  FilesInv'
<1>1. /\ contested' = contested \cup (S \cap UNION {cmd[q].about : q \in Procs})
      /\ UNCHANGED <<bin, record, staging, conf, upstream>>
  BY DEF MayStart, files
<1>2. FileTypes /\ Wholes /\ Apart
  BY DEF FilesInv
<1>3. /\ cmd' \in [Procs -> CommandRecords] /\ cmd'[p] = c
      /\ \A q \in Procs \ {p} : cmd'[q] = cmd[q]
  BY <1>2 DEF FileTypes
<1>4. contested \subseteq contested' /\ contested' \subseteq Names
  BY <1>1, <1>2 DEF FileTypes
<1>5. FileTypes' /\ Wholes'
  BY <1>1, <1>2, <1>3, <1>4 DEF FileTypes, Wholes
<1>6. Apart'
  <2>1. ASSUME NEW q \in Procs
        PROVE  /\ cmd'[q].todo \subseteq cmd'[q].about
               /\ Working(cmd'[q]) => cmd'[q].name \in cmd'[q].about
    BY <1>2, <1>3 DEF Apart
  <2>2. \A q \in Procs : cmd[q].about \cap S \subseteq contested'
    BY <1>1
  <2>3. ASSUME NEW q \in Procs, NEW r \in Procs, q # r
        PROVE  cmd'[q].about \cap cmd'[r].about \subseteq contested'
    <3>1. CASE q = p
      BY <1>3, <2>2, <2>3, <3>1
    <3>2. CASE r = p
      BY <1>3, <2>2, <2>3, <3>2
    <3>3. CASE q # p /\ r # p
      BY <1>2, <1>3, <1>4, <2>3, <3>3 DEF Apart
    <3> QED
      BY <3>1, <3>2, <3>3
  <2> QED
    BY <2>1, <2>3 DEF Apart, Working
<1>7. ASSUME NEW q \in Procs, q # p PROVE Knows(q)'
  <2>1. Knows(q) /\ cmd'[q] = cmd[q]
    BY <1>3, <1>7 DEF FilesInv
  <2> QED
    BY <1>1, <1>4, <2>1
    DEF Knows, Alone, Writing, Staged, Placed, Fetched, Hashed, Recorded, Updated, Unpinned
<1>8. Knows(p)'
  BY <1>3
  DEF Knows, Alone, Writing, Staged, Placed, Fetched, Hashed, Recorded, Updated, Unpinned
<1> QED
  BY <1>5, <1>6, <1>7, <1>8 DEF FilesInv

LEMMA StartKeeps ==
  ASSUME FilesInv, NEW p \in Procs, Start(p)
  PROVE  FilesInv'
<1>1. conf \in [Names -> Flags] /\ NoSettings \in [Names -> Flags] /\ None \in MaybeBuild
  BY DEF FilesInv, FileTypes, MaybeBuild, NoSettings, Flags
<1>2. ASSUME NEW n \in Names, NEW pin \in Builds \cup {None}, NEW set \in {"on", "unset"},
             StartInstall(p, n, pin, set)
      PROVE  FilesInv'
  <2> DEFINE c == [Idle EXCEPT !.pc = "clear", !.op = "install", !.about = {n}, !.name = n,
                               !.pin = pin, !.conf = conf, !.set = set]
  <2>1. MayStart(p, {n}) /\ cmd' = [cmd EXCEPT ![p] = c]
    BY <1>2 DEF StartInstall
  <2>2. c \in CommandRecords
    BY <1>1, IdleIsRecord DEF CommandRecords, Steps, MaybeBuild, Flags
  <2>3. /\ c.about = {n} /\ c.todo = {} /\ c.name = n /\ c.pc = "clear" /\ c.op = "install"
    BY DEF Idle
  <2> HIDE DEF c
  <2> QED
    BY <2>1, <2>2, <2>3, StartsKeep
<1>3. ASSUME NEW S \in SUBSET Names, NEW force \in BOOLEAN, NEW answers \in BOOLEAN,
             StartUpdate(p, S, force, answers)
      PROVE  FilesInv'
  <2> DEFINE work == {n \in {n \in S : Exists(bin[n])} : PlanFor(n, force, answers) = "available"}
             c == [Idle EXCEPT !.pc = "next", !.op = "update", !.about = work,
                               !.todo = work, !.conf = conf]
  <2>1. MayStart(p, work) /\ cmd' = [cmd EXCEPT ![p] = c]
    BY <1>3 DEF StartUpdate
  <2>2. work \in SUBSET Names
    OBVIOUS
  <2> HIDE DEF work
  <2>3. c \in CommandRecords
    BY <1>1, <2>2, IdleIsRecord DEF CommandRecords, Steps, MaybeBuild, Flags
  <2>4. /\ c.about = work /\ c.todo = work /\ c.name = None /\ c.pc = "next" /\ c.op = "update"
        /\ c.pin = None
    BY DEF Idle
  <2> HIDE DEF c
  <2> QED
    BY <2>1, <2>2, <2>3, <2>4, StartsKeep DEF Working
<1>4. ASSUME NEW n \in Names, StartRemove(p, n)
      PROVE  FilesInv'
  <2> DEFINE c == [Idle EXCEPT !.pc = "remove", !.op = "remove", !.about = {n}, !.name = n,
                               !.conf = conf]
  <2>1. MayStart(p, {n}) /\ cmd' = [cmd EXCEPT ![p] = c]
    BY <1>4 DEF StartRemove
  <2>2. c \in CommandRecords
    BY <1>1, IdleIsRecord DEF CommandRecords, Steps, MaybeBuild, Flags
  <2>3. /\ c.about = {n} /\ c.todo = {} /\ c.name = n /\ c.pc = "remove" /\ c.op = "remove"
    BY DEF Idle
  <2> HIDE DEF c
  <2> QED
    BY <2>1, <2>2, <2>3, StartsKeep
<1>5. ASSUME NEW n \in Names, NEW set \in {"on", "off"}, StartSetEnabled(p, n, set)
      PROVE  FilesInv'
  <2> DEFINE c == [Idle EXCEPT !.pc = "config", !.op = "set_enabled", !.about = {n}, !.name = n,
                               !.conf = conf, !.set = set]
  <2>1. MayStart(p, {n}) /\ cmd' = [cmd EXCEPT ![p] = c]
    BY <1>5 DEF StartSetEnabled
  <2>2. c \in CommandRecords
    BY <1>1, IdleIsRecord DEF CommandRecords, Steps, MaybeBuild, Flags
  <2>3. /\ c.about = {n} /\ c.todo = {} /\ c.name = n /\ c.pc = "config"
        /\ c.op = "set_enabled"
    BY DEF Idle
  <2> HIDE DEF c
  <2> QED
    BY <2>1, <2>2, <2>3, StartsKeep
<1> QED
  BY <1>2, <1>3, <1>4, <1>5 DEF Start

LEMMA PublishKeeps ==
  ASSUME FilesInv, NEW n \in Names, Publish(n)
  PROVE  FilesInv'
<1>1. PICK b \in Builds \cup {None} : upstream' = [upstream EXCEPT ![n] = b]
  BY DEF Publish
<1>2. UNCHANGED <<bin, record, staging, conf, cmd, contested>>
  BY DEF Publish, files
<1>3. FileTypes /\ Wholes /\ Apart /\ \A p \in Procs : Knows(p)
  BY DEF FilesInv
<1>4. FileTypes'
  BY <1>1, <1>2, <1>3 DEF FileTypes, MaybeBuild
<1>5. Apart' /\ Wholes'
  BY <1>2, <1>3 DEF Apart, Working, Wholes
<1>6. \A p \in Procs : Knows(p)'
  BY <1>2, <1>3
  DEF Knows, Alone, Writing, Staged, Placed, Fetched, Hashed, Recorded, Updated, Unpinned
<1> QED
  BY <1>4, <1>5, <1>6 DEF FilesInv
-----------------------------------------------------------------------------
LEMMA FilesInvInitially == Init => FilesInv
<1> SUFFICES ASSUME Init PROVE FilesInv
  OBVIOUS
<1>1. 1 \in Builds /\ 1 \in MaybeBuild /\ None \in MaybeBuild /\ 1 # None
  BY BuildAssumption DEF Builds, MaybeBuild, None
<1>2. PICK S \in SUBSET Names :
        /\ bin = [n \in Names |-> IF n \in S THEN Whole(1) ELSE NoFile]
        /\ record = [n \in Names |->
               IF n \notin S THEN NoRecord
               ELSE [pin |-> None, sha |-> 1,
                     version |-> IF KindOf[n] = "local" THEN None ELSE 1]]
  BY DEF Init
<1>3. \A n \in Names : bin[n] \in File /\ bin[n].whole
  BY <1>1, <1>2, BuildsAreNot
<1>4. bin \in [Names -> File]
  BY <1>2, <1>3
<1>5. record \in [Names -> Records]
  <2>1. \A n \in Names :
          (IF n \notin S THEN NoRecord
           ELSE [pin |-> None, sha |-> 1,
                 version |-> IF KindOf[n] = "local" THEN None ELSE 1]) \in Records
    BY <1>1 DEF NoRecord, Records
  <2> QED
    BY <1>2, <2>1
<1>6. /\ staging = Emptied(FALSE) /\ conf = NoSettings
      /\ upstream = [n \in Names |-> 1] /\ cmd = [p \in Procs |-> Idle]
      /\ contested = {}
  BY DEF Init
<1>7. FileTypes
  BY <1>1, <1>4, <1>5, <1>6, EmptiedIsStaging, IdleIsRecord DEF FileTypes, NoSettings, Flags
<1>8. Wholes
  BY <1>3, <1>6, EmptiedIsStaging DEF Wholes
<1>9. \A p \in Procs : cmd[p].pc = "idle" /\ cmd[p].op = "none" /\ cmd[p].about = {} /\ cmd[p].todo = {}
  BY <1>6 DEF Idle
<1>10. Apart
  BY <1>9 DEF Apart, Working
<1>11. \A p \in Procs : Knows(p)
  BY <1>9 DEF Knows, Alone, Writing, Staged, Placed, Fetched, Hashed, Recorded, Updated, Unpinned
<1> QED
  BY <1>7, <1>8, <1>10, <1>11 DEF FilesInv

LEMMA FilesInvKept == FilesInv /\ [Next]_vars => FilesInv'
<1> SUFFICES ASSUME FilesInv, [Next]_vars PROVE FilesInv'
  OBVIOUS
<1>1. CASE UNCHANGED vars
  BY <1>1 DEF vars, FilesInv, FileTypes, Apart, Working, Wholes, Knows, Alone, Writing, Staged,
              Placed, Fetched, Hashed, Recorded, Updated, Unpinned
<1>2. ASSUME NEW p \in Procs, InstallStep(p) PROVE FilesInv'
  BY <1>2, ClearStagingKeeps, StageBeginKeeps, StageEndKeeps, MoveAsideKeeps, PlaceKeeps,
     TakeManifestKeeps, FingerprintKeeps, DropStagingKeeps DEF InstallStep
<1>3. ASSUME NEW p \in Procs, CommandStep(p) PROVE FilesInv'
  BY <1>2, <1>3, NextItemKeeps, SaveRecordKeeps, RefreshManifestKeeps, RemoveKeeps,
     SaveConfigKeeps DEF CommandStep
<1> QED
  BY <1>1, <1>3, StartKeeps, CrashKeeps, PublishKeeps DEF Next

(* No crash, and no installer that deletes the others' staging, leaves a   *)
(* half-written executable where klava would run it, unless two commands   *)
(* at once were about that extension.                                      *)
THEOREM InstalledIsWhole == Spec => []NothingHalfWritten
<1>1. FilesInv => NothingHalfWritten
  BY DEF FilesInv, Wholes, NothingHalfWritten
<1> QED
  BY <1>1, FilesInvInitially, FilesInvKept, PTL DEF Spec

(* What `update` has just updated of an executable or from a registry, the *)
(* next `update` calls current, unless upstream has moved on or another    *)
(* command was about the same extension.                                   *)
THEOREM UpdatesSettle == Spec => []UpdateSettles
<1>1. ASSUME FilesInv PROVE UpdateSettles
  <2> SUFFICES ASSUME NEW p \in Procs, At(p, "next"), cmd[p].name # None,
                      cmd[p].name \notin cmd[p].failed, cmd[p].name \notin contested,
                      upstream[cmd[p].name] = cmd[p].got,
                      KindOf[cmd[p].name] \notin {"git", "crate"}
               PROVE  PlanFor(cmd[p].name, FALSE, TRUE) = "current"
    BY DEF UpdateSettles
  <2> DEFINE n == cmd[p].name
  <2>1. n \in Names
    BY <1>1 DEF FilesInv, FileTypes, CommandRecords
  <2>2. Knows(p) /\ Updated(cmd[p])
    BY <1>1 DEF FilesInv, At, Updated
  <2>3. /\ cmd[p].got # None
        /\ record[n] = [pin |-> None, sha |-> cmd[p].got,
                        version |-> IF KindOf[n] = "local" THEN None ELSE cmd[p].got]
    BY <2>2 DEF Knows, Hashed, Recorded, Alone
  <2>4. record[n] # NoRecord /\ record[n].sha = upstream[n] /\ upstream[n] # None
    BY <2>3 DEF NoRecord
  <2>5. KindOf[n] \in {"local", "registry"}
    BY <2>1, KindAssumption DEF Kinds
  <2>6. CASE KindOf[n] = "local"
    BY <2>4, <2>6 DEF PlanFor, OnDisk
  <2>7. CASE KindOf[n] = "registry"
    <3>1. record[n].version = upstream[n]
      BY <2>3, <2>7
    <3>2. Latest(n, TRUE) = upstream[n]
      BY <2>7 DEF Latest
    <3> QED
      BY <2>4, <2>7, <3>1, <3>2 DEF PlanFor, OnDisk
  <2> QED
    BY <2>5, <2>6, <2>7
<1> QED
  BY <1>1, FilesInvInitially, FilesInvKept, PTL DEF Spec

-----------------------------------------------------------------------------
(***************************************************************************)
(* The model file.  ModelWhole speaks of finished files only.  The         *)
(* invariant says the same of a file under way that one run alone is       *)
(* downloading: what is in its .part matches the server's version block by *)
(* block, the body that is being read goes on exactly where the .part      *)
(* ends, and it is renamed at full length.  Of a file that two runs were   *)
(* downloading at once it says nothing but what kind of values it has.     *)
(***************************************************************************)

USE FetchAssumption

Cells == [version : 0 .. 2, block : Nat]

Runs == [step : {"over", "look", "ask", "read", "rename"}, file : Files, offset : Nat,
         body : Seq(Cells), expected : Nat, written : Nat,
         into : {"none", "part", "dest", "gone"}]

FetchTypes ==
  /\ remote \in 1 .. 2
  /\ part \in [Files -> Seq(Cells)]
  /\ dest \in [Files -> Seq(Cells)]
  /\ run \in [Runners -> Runs]
  /\ remote = 1 => torn = {}

Downloads(p) == run[p].step \in {"ask", "read", "rename"}

(* Two downloads of one file are in the history.                           *)
OneEach ==
  \A p, q \in Runners :
    Downloads(p) /\ Downloads(q) /\ run[p].file = run[q].file /\ p # q =>
      run[p].file \in overlapped

(* Only who reads or renames has a file open, and what was moved away      *)
(* from under it is overlapped.                                            *)
Handles ==
  \A p \in Runners :
    /\ run[p].into # "none" => run[p].step \in {"read", "rename"}
    /\ run[p].into \in {"dest", "gone"} => run[p].file \in overlapped

(* The cell at place i of the server's file.                               *)
There(i) == [version |-> remote, block |-> i]

(* A .part that no new version has overtaken is a beginning of the file.   *)
Matches(s) == Len(s) <= Blocks /\ \A i \in 1 .. Len(s) : s[i] = There(i)

PartsMatch == \A f \in Files \ (torn \cup overlapped) : Matches(part[f])

(* The body read is the rest of the file behind the .part.                 *)
BodyGoesOn(r, s) ==
  /\ r.into = "part" /\ Blocks > 0 /\ r.expected = Blocks
  /\ r.written = Len(s) /\ r.written + Len(r.body) = Blocks
  /\ \A i \in 1 .. Len(r.body) : r.body[i] = There(r.written + i)

(* A download that is alone goes on where its .part ends.                  *)
Fits(p) ==
  LET r == run[p]
      s == part[r.file]
  IN  /\ r.step = "ask" => r.offset = Len(s)
      /\ r.step = "read" /\ r.file \notin torn => BodyGoesOn(r, s)
      /\ r.step = "rename" /\ r.file \notin torn => Blocks > 0 /\ Len(s) = Blocks

AllFit == \A p \in Runners : run[p].file \notin overlapped => Fits(p)

(* A file in its place is whole.                                           *)
Served(s) == s # << >> => \E v \in 1 .. remote : s = Content(v)

FetchInv == FetchTypes /\ OneEach /\ Handles /\ PartsMatch /\ AllFit /\ ModelWhole

-----------------------------------------------------------------------------
(* The server's file is a sequence of its cells.                           *)
LEMMA ContentIsSeq ==
  ASSUME NEW v \in 1 .. 2
  PROVE  /\ Content(v) \in Seq(Cells)
         /\ Len(Content(v)) = Blocks
         /\ \A i \in 1 .. Blocks : Content(v)[i] = [version |-> v, block |-> i]
<1>1. Content(v) \in [1 .. Blocks -> Cells]
  BY DEF Content, Cells
<1>2. \A i \in 1 .. Blocks : Content(v)[i] = [version |-> v, block |-> i]
  BY DEF Content
<1> QED
  BY <1>1, <1>2, SeqDef, LenProperties

(* A .part of full length is the file.                                     *)
LEMMA FullIsContent ==
  ASSUME remote \in 1 .. 2, NEW s \in Seq(Cells),
         Matches(s), Len(s) = Blocks
  PROVE  s = Content(remote)
<1>1. /\ Content(remote) \in Seq(Cells)
      /\ Len(Content(remote)) = Blocks
      /\ \A i \in 1 .. Blocks : Content(remote)[i] = [version |-> remote, block |-> i]
  BY ContentIsSeq
<1>2. \A i \in 1 .. Len(s) : s[i] = Content(remote)[i]
  BY <1>1 DEF Matches, There
<1> QED
  BY <1>1, <1>2, SeqEqual

LEMMA OverIsRun ==
  /\ Over \in Runs /\ Over.step = "over" /\ Over.into = "none"
  /\ RunAt("look", 1) \in Runs /\ RunAt("look", 1).step = "look" /\ RunAt("look", 1).into = "none"
  /\ \A f \in Files : /\ NextFile(f) \in Runs /\ NextFile(f).step \in {"over", "look"}
                      /\ NextFile(f).into = "none"
<1>1. ASSUME NEW step \in {"over", "look"}, NEW f \in Files
      PROVE  RunAt(step, f) \in Runs /\ RunAt(step, f).step = step /\ RunAt(step, f).into = "none"
  BY EmptySeq DEF RunAt, Runs
<1> QED
  BY <1>1 DEF Over, NextFile, Files

(* A step of p: of the others' files it changes none but those that are    *)
(* overlapped.                                                             *)
LEMMA StepOf ==
  ASSUME NEW p \in Runners, FetchInv, FetchTypes', Handles',
         overlapped \subseteq overlapped', UNCHANGED <<remote, torn>>,
         \A q \in Runners \ {p} :
           /\ run'[q].step = run[q].step /\ run'[q].file = run[q].file
           /\ run[q].file \notin overlapped' => run'[q] = run[q],
         \A g \in Files \ {run[p].file} : part'[g] = part[g] /\ dest'[g] = dest[g],
         part'[run[p].file] # part[run[p].file] => Downloads(p),
         Downloads(p)' =>
           /\ run'[p].file = run[p].file
           /\ \A q \in Runners \ {p} :
                Downloads(q) /\ run[q].file = run[p].file => run[p].file \in overlapped',
         run[p].file \notin torn \cup overlapped' =>
           /\ Matches(part'[run[p].file])
           /\ Served(dest'[run[p].file]),
         run'[p].file \notin overlapped' => Fits(p)'
  PROVE  FetchInv'
<1>1. \A q \in Runners : run[q] \in Runs /\ run[q].file \in Files
  BY DEF FetchInv, FetchTypes, Runs
<1>2. OneEach'
  BY DEF FetchInv, OneEach, Downloads
<1>3. PartsMatch'
  BY DEF FetchInv, PartsMatch, Matches, There
<1>4. AllFit'
  <2> SUFFICES ASSUME NEW q \in Runners, run'[q].file \notin overlapped' PROVE Fits(q)'
    BY DEF AllFit
  <2>1. CASE q = p
    BY <2>1
  <2>2. CASE q # p
    <3>1. run'[q] = run[q] /\ run[q].file \notin overlapped /\ run[q].file \notin overlapped'
      BY <2>2
    <3>2. Fits(q)
      BY <3>1 DEF FetchInv, AllFit
    <3>3. CASE part'[run[q].file] = part[run[q].file]
      BY <3>1, <3>2, <3>3 DEF Fits, BodyGoesOn, There
    <3>4. CASE part'[run[q].file] # part[run[q].file]
      <4>1. run[q].file = run[p].file /\ Downloads(p)
        BY <1>1, <3>4
      <4>2. ~Downloads(q)
        BY <2>2, <3>1, <4>1 DEF FetchInv, OneEach
      <4> QED
        BY <3>1, <4>2 DEF Fits, Downloads
    <3> QED
      BY <3>3, <3>4
  <2> QED
    BY <2>1, <2>2
<1>5. ModelWhole'
  <2> SUFFICES ASSUME NEW f \in Files, f \notin torn \cup overlapped'
               PROVE  Served(dest'[f])
    BY DEF ModelWhole, Served, Content
  <2>1. Served(dest[f])
    BY DEF FetchInv, ModelWhole, Served
  <2> QED
    BY <2>1
<1> QED
  BY <1>2, <1>3, <1>4, <1>5 DEF FetchInv

(* Steps that leave the files and the server alone, and end or begin the   *)
(* look at a file.                                                         *)
LEMMA QuietStep ==
  ASSUME NEW p \in Runners, FetchInv, run'[p] \in Runs, run'[p].step \in {"over", "look"},
         run'[p].into = "none", run' = [run EXCEPT ![p] = run'[p]],
         UNCHANGED <<remote, part, dest, torn, overlapped>>
  PROVE  FetchInv'
<1>1. run' \in [Runners -> Runs] /\ \A q \in Runners \ {p} : run'[q] = run[q]
  BY DEF FetchInv, FetchTypes
<1>2. FetchTypes' /\ Handles'
  BY <1>1 DEF FetchInv, FetchTypes, Handles
<1>3. run[p].file \in Files
  BY DEF FetchInv, FetchTypes, Runs
<1>4. ~Downloads(p)' /\ Fits(p)'
  BY DEF Downloads, Fits
<1>5. run[p].file \notin torn \cup overlapped' =>
        /\ Matches(part'[run[p].file])
        /\ Served(dest'[run[p].file])
  BY <1>3 DEF FetchInv, PartsMatch, ModelWhole, Served
<1> QED
  BY <1>1, <1>2, <1>4, <1>5, StepOf

LEMMA FetchInitially == ASSUME FetchInit PROVE FetchInv
<1>1. FetchTypes
  BY OverIsRun, EmptySeq DEF FetchInit, FetchTypes, Files
<1>2. \A p \in Runners : run[p].step = "over" /\ run[p].into = "none"
  BY OverIsRun DEF FetchInit
<1>3. OneEach /\ Handles /\ AllFit
  BY <1>2 DEF OneEach, Handles, AllFit, Fits, Downloads
<1> QED
  BY <1>1, <1>3, EmptySeq
  DEF FetchInit, FetchInv, PartsMatch, Matches, ModelWhole, Files

(* An open file that is moved: the other runs are as they were but for it. *)
LEMMA FollowedRuns ==
  ASSUME NEW f, NEW moved, run \in [Runners -> Runs],
         \A x \in DOMAIN moved : x # "none" /\ moved[x] \in {"dest", "gone"}
  PROVE  /\ Followed(f, moved) \in [Runners -> Runs]
         /\ \A q \in Runners :
              /\ Followed(f, moved)[q].step = run[q].step
              /\ Followed(f, moved)[q].file = run[q].file
              /\ \/ Followed(f, moved)[q] = run[q]
                 \/ run[q].file = f /\ run[q].into # "none"
<1> SUFFICES ASSUME NEW q \in Runners
             PROVE  /\ Followed(f, moved)[q] \in Runs
                    /\ Followed(f, moved)[q].step = run[q].step
                    /\ Followed(f, moved)[q].file = run[q].file
                    /\ \/ Followed(f, moved)[q] = run[q]
                       \/ run[q].file = f /\ run[q].into # "none"
  BY DEF Followed
<1> DEFINE r == run[q]
           m == moved[r.into]
<1>1. r \in Runs
  OBVIOUS
<1>2. Followed(f, moved)[q] = IF r.file = f /\ r.into \in DOMAIN moved
                              THEN [r EXCEPT !.into = m] ELSE r
  BY DEF Followed
<1>3. r.into \in DOMAIN moved => m \in {"dest", "gone"} /\ r.into # "none"
  OBVIOUS
<1> HIDE DEF r, m
<1>4. r.into \in DOMAIN moved =>
        /\ [r EXCEPT !.into = m] \in Runs
        /\ [r EXCEPT !.into = m].step = r.step /\ [r EXCEPT !.into = m].file = r.file
  BY <1>1, <1>3 DEF Runs
<1>5. /\ Followed(f, moved)[q] \in Runs
      /\ Followed(f, moved)[q].step = r.step /\ Followed(f, moved)[q].file = r.file
      /\ Followed(f, moved)[q] = r \/ (r.file = f /\ r.into # "none")
  BY <1>1, <1>2, <1>3, <1>4
<1> QED
  BY <1>5 DEF r

(* A run that is over with its file takes the .part away.                  *)
LEMMA MovedStep ==
  ASSUME NEW p \in Runners, FetchInv, Downloads(p), NEW moved,
         \A x \in DOMAIN moved : x # "none" /\ moved[x] \in {"dest", "gone"},
         NEW r \in Runs, r.step \in {"over", "look"}, r.into = "none",
         run' = [Followed(run[p].file, moved) EXCEPT ![p] = r],
         part' = [part EXCEPT ![run[p].file] = << >>],
         dest' \in [Files -> Seq(Cells)],
         \A g \in Files \ {run[p].file} : dest'[g] = dest[g],
         run[p].file \notin torn \cup overlapped => Served(dest'[run[p].file]),
         UNCHANGED <<remote, torn, overlapped>>
  PROVE  FetchInv'
<1> DEFINE f == run[p].file
           F == Followed(f, moved)
<1>1. f \in Files /\ run \in [Runners -> Runs] /\ part \in [Files -> Seq(Cells)]
  BY DEF FetchInv, FetchTypes, Runs
<1> HIDE DEF f
<1>2. /\ F \in [Runners -> Runs]
      /\ \A q \in Runners : /\ F[q].step = run[q].step /\ F[q].file = run[q].file
                            /\ F[q] = run[q] \/ (run[q].file = f /\ run[q].into # "none")
  BY <1>1, FollowedRuns
<1>3. run' = [F EXCEPT ![p] = r]
  BY DEF f
<1> HIDE DEF F
<1>4. /\ run' \in [Runners -> Runs] /\ run'[p] = r
      /\ \A q \in Runners \ {p} : run'[q] = F[q]
  BY <1>2, <1>3
<1>5. \A q \in Runners \ {p} : Downloads(q) /\ run[q].file = f => f \in overlapped
  BY DEF FetchInv, OneEach, f
<1>6. \A q \in Runners : run[q].into # "none" => Downloads(q)
  BY DEF FetchInv, Handles, Downloads
<1>7. \A q \in Runners \ {p} :
        /\ run'[q].step = run[q].step /\ run'[q].file = run[q].file
        /\ run[q].file \notin overlapped' => run'[q] = run[q]
  BY <1>2, <1>4, <1>5, <1>6
<1>8. FetchTypes'
  BY <1>1, <1>4, EmptySeq DEF FetchInv, FetchTypes, f
<1>9. Handles'
  <2> SUFFICES ASSUME NEW q \in Runners
               PROVE  /\ run'[q].into # "none" => run'[q].step \in {"read", "rename"}
                      /\ run'[q].into \in {"dest", "gone"} => run'[q].file \in overlapped'
    BY DEF Handles
  <2>1. CASE q = p
    BY <1>4, <2>1
  <2>2. CASE q # p
    <3>1. CASE run'[q] = run[q]
      BY <3>1 DEF FetchInv, Handles
    <3>2. CASE run'[q] # run[q]
      BY <1>2, <1>4, <1>5, <1>6, <2>2, <3>2 DEF FetchInv, Handles
    <3> QED
      BY <3>1, <3>2
  <2> QED
    BY <2>1, <2>2
<1>10. /\ \A g \in Files \ {f} : part'[g] = part[g]
       /\ part'[f] = << >>
  BY <1>1 DEF f
<1>11. Matches(part'[f]) /\ ~Downloads(p)' /\ Fits(p)'
  BY <1>4, <1>10, EmptySeq DEF Matches, Downloads, Fits
<1> QED
  BY <1>7, <1>8, <1>9, <1>10, <1>11, StepOf DEF f

LEMMA RejectedKeeps == ASSUME NEW p \in Runners, FetchInv, RangeRejected(p) PROVE FetchInv'
<1> DEFINE moved == [part |-> "gone"]
<1>1. \A x \in DOMAIN moved : x # "none" /\ moved[x] \in {"dest", "gone"}
  OBVIOUS
<1>2. /\ run' = [Followed(run[p].file, moved) EXCEPT ![p] = Over]
      /\ part' = [part EXCEPT ![run[p].file] = << >>]
      /\ run[p].step = "ask" /\ UNCHANGED <<remote, dest, torn, overlapped>>
  BY DEF RangeRejected
<1> HIDE DEF moved
<1>3. /\ dest' \in [Files -> Seq(Cells)]
      /\ run[p].file \notin torn \cup overlapped => Served(dest'[run[p].file])
  BY <1>2 DEF FetchInv, FetchTypes, Runs, ModelWhole, Served
<1> QED
  BY <1>1, <1>2, <1>3, OverIsRun, MovedStep DEF Downloads

(* What is asked for begins where the .part ends; a download of the same   *)
(* file that is under way is in the history from then on.                  *)
LEMMA AskKeeps == ASSUME NEW p \in Runners, FetchInv, AsksFor(p) PROVE FetchInv'
<1> DEFINE f == run[p].file
           r == [RunAt("ask", f) EXCEPT !.offset = Len(part[f])]
<1>1. f \in Files /\ run \in [Runners -> Runs] /\ part[f] \in Seq(Cells) /\ Len(part[f]) \in Nat
  BY LenProperties DEF FetchInv, FetchTypes, Runs
<1>2. /\ run[p].step = "look" /\ run' = [run EXCEPT ![p] = r]
      /\ overlapped' = IF Fetching(f) = {} THEN overlapped ELSE overlapped \cup {f}
      /\ UNCHANGED <<remote, part, dest, torn>>
  BY DEF AsksFor
<1>3. /\ r \in Runs /\ r.step = "ask" /\ r.file = f /\ r.into = "none"
      /\ r.offset = Len(part[f])
  BY <1>1, EmptySeq DEF RunAt, Runs
<1> HIDE DEF r
<1>4. /\ run' \in [Runners -> Runs] /\ run'[p] = r
      /\ \A q \in Runners \ {p} : run'[q] = run[q]
  BY <1>1, <1>2, <1>3
<1>5. FetchTypes'
  BY <1>2, <1>4 DEF FetchInv, FetchTypes
<1>6. overlapped \subseteq overlapped'
  BY <1>2
<1>7. Handles'
  BY <1>3, <1>4, <1>6 DEF FetchInv, Handles
<1>8. \A q \in Runners \ {p} : Downloads(q) /\ run[q].file = f => f \in overlapped'
  BY <1>2 DEF Fetching, Downloads
<1>9. Fits(p)'
  BY <1>2, <1>3, <1>4 DEF Fits
<1>10. f \notin torn \cup overlapped' =>
         /\ Matches(part'[f])
         /\ Served(dest'[f])
  BY <1>1, <1>2, <1>6 DEF FetchInv, PartsMatch, ModelWhole, Served
<1> QED
  BY <1>2, <1>3, <1>4, <1>5, <1>6, <1>7, <1>8, <1>9, <1>10, StepOf

-----------------------------------------------------------------------------
(* A step of p on the file it downloads, which is the only one it changes, *)
(* and which it goes on with.                                              *)
LEMMA DownloadStep ==
  ASSUME NEW p \in Runners, FetchInv, Downloads(p), NEW r \in Runs,
         r.step \in {"read", "rename"}, r.file = run[p].file,
         run' = [run EXCEPT ![p] = r],
         r.into = "part" \/ r.into = run[p].into,
         part' \in [Files -> Seq(Cells)], dest' \in [Files -> Seq(Cells)],
         \A g \in Files \ {r.file} : part'[g] = part[g] /\ dest'[g] = dest[g],
         r.file \notin torn \cup overlapped => Matches(part'[r.file]) /\ dest'[r.file] = dest[r.file],
         r.file \notin overlapped => Fits(p)',
         UNCHANGED <<remote, torn, overlapped>>
  PROVE  FetchInv'
<1>1. /\ run' \in [Runners -> Runs] /\ run'[p] = r
      /\ \A q \in Runners \ {p} : run'[q] = run[q]
  BY DEF FetchInv, FetchTypes
<1>2. FetchTypes'
  BY <1>1 DEF FetchInv, FetchTypes
<1>3. Handles'
  BY <1>1 DEF FetchInv, Handles
<1>4. \A q \in Runners \ {p} : Downloads(q) /\ run[q].file = run[p].file => run[p].file \in overlapped'
  BY DEF FetchInv, OneEach
<1>5. r.file \notin torn \cup overlapped => Served(dest'[r.file])
  <2>1. r.file \in Files
    BY DEF Runs
  <2> QED
    BY <2>1 DEF FetchInv, ModelWhole, Served
<1> QED
  BY <1>1, <1>2, <1>3, <1>4, <1>5, StepOf

(* An answer: the .part is kept or truncated, and the body goes on there.  *)
LEMMA AnswerKeeps == ASSUME NEW p \in Runners, FetchInv, Answered(p) PROVE FetchInv'
<1> DEFINE f == run[p].file
           asked == run[p].offset
<1>1. /\ f \in Files /\ part[f] \in Seq(Cells) /\ asked \in Nat /\ remote \in 1 .. 2
      /\ run[p].step = "ask" /\ (f \notin overlapped => asked = Len(part[f]))
  BY DEF FetchInv, FetchTypes, Runs, Answered, AllFit, Fits
<1>2. PICK offset \in {0, asked} :
        /\ offset < Blocks
        /\ part' = [part EXCEPT ![f] = PartOpened(@, offset)]
        /\ run' = [run EXCEPT ![p] =
             [step |-> "read", file |-> f, offset |-> offset, written |-> offset,
              body |-> SubSeq(Content(remote), offset + 1, Blocks),
              expected |-> Blocks, into |-> "part"]]
  BY Zenon DEF Answered
<1> HIDE DEF f, asked
<1> DEFINE rest == SubSeq(Content(remote), offset + 1, Blocks)
           opened == PartOpened(part[f], offset)
<1>3. /\ rest \in Seq(Cells)
      /\ Len(rest) = Blocks - offset
      /\ \A i \in 1 .. Blocks - offset : rest[i] = There(offset + i)
  <2>1. /\ Content(remote) \in Seq(Cells)
        /\ Len(Content(remote)) = Blocks
        /\ \A i \in 1 .. Blocks : Content(remote)[i] = There(i)
    BY <1>1, ContentIsSeq DEF There
  <2>2. \A i \in offset + 1 .. Blocks : Content(remote)[i] \in Cells
    BY <1>1, <1>2, <2>1, ElementOfSeq
  <2>3. /\ rest \in Seq(Cells)
        /\ Len(rest) = IF offset + 1 <= Blocks THEN Blocks - (offset + 1) + 1 ELSE 0
        /\ \A i \in 1 .. Blocks - (offset + 1) + 1 :
             rest[i] = Content(remote)[offset + 1 + i - 1]
    <3>1. offset + 1 \in Int /\ Blocks \in Int
      BY <1>1, <1>2
    <3> QED
      BY <3>1, <2>2, SubSeqProperties
  <2>4. Len(rest) = Blocks - offset
    <3> HIDE DEF rest
    <3> QED
      BY <1>1, <1>2, <2>3
  <2>5. ASSUME NEW i \in 1 .. Blocks - offset PROVE rest[i] = There(offset + i)
    <3>1. /\ i \in 1 .. Blocks - (offset + 1) + 1
          /\ offset + 1 + i - 1 = offset + i
          /\ offset + i \in 1 .. Blocks
      BY <1>1, <1>2
    <3>2. rest[i] = Content(remote)[offset + 1 + i - 1]
      BY <2>3, <3>1
    <3> HIDE DEF rest
    <3> QED
      BY <2>1, <3>1, <3>2
  <2> QED
    BY <2>3, <2>4, <2>5
<1>4. /\ opened \in Seq(Cells) /\ (opened = << >> \/ opened = part[f])
      /\ f \notin overlapped => Len(opened) = offset
  BY <1>1, <1>2, EmptySeq DEF PartOpened, PartMode
<1> DEFINE r == [step |-> "read", file |-> f, offset |-> offset, written |-> offset,
                 body |-> rest, expected |-> Blocks, into |-> "part"]
<1>5. run' = [run EXCEPT ![p] = r] /\ part' = [part EXCEPT ![f] = opened]
  BY <1>2
<1> HIDE DEF rest, opened
<1>6. /\ r \in Runs /\ r.step = "read" /\ r.file = f /\ r.into = "part"
      /\ r.expected = Blocks /\ r.body = rest /\ r.written = offset
  BY <1>1, <1>2, <1>3 DEF Runs
<1> HIDE DEF r
<1>7. /\ part' \in [Files -> Seq(Cells)] /\ part'[f] = opened /\ run'[p] = r
      /\ \A g \in Files \ {f} : part'[g] = part[g]
  BY <1>1, <1>4, <1>5 DEF FetchInv, FetchTypes
<1>8. UNCHANGED <<remote, dest, torn, overlapped>> /\ dest \in [Files -> Seq(Cells)]
  BY DEF Answered, FetchInv, FetchTypes
<1>9. f \notin torn \cup overlapped => Matches(opened)
  BY <1>1, <1>4, EmptySeq DEF FetchInv, PartsMatch, Matches
<1>10. f \notin overlapped => Fits(p)'
  <2> SUFFICES ASSUME f \notin overlapped PROVE Fits(p)'
    OBVIOUS
  <2>1. /\ Blocks > 0 /\ offset = Len(part'[f]) /\ offset + Len(rest) = Blocks
        /\ \A i \in 1 .. Len(rest) : rest[i] = There(offset + i)
    BY <1>1, <1>2, <1>3, <1>4, <1>7
  <2>2. BodyGoesOn(r, part'[f])
    BY <2>1, <1>6 DEF BodyGoesOn
  <2> QED
    BY <2>2, <1>6, <1>7, <1>8 DEF Fits, BodyGoesOn, There
<1>11. Downloads(p)
  BY <1>1 DEF Downloads
<1>12. /\ r.file = run[p].file
       /\ \A g \in Files \ {r.file} : part'[g] = part[g] /\ dest'[g] = dest[g]
       /\ r.file \notin torn \cup overlapped =>
            Matches(part'[r.file]) /\ dest'[r.file] = dest[r.file]
       /\ r.file \notin overlapped => Fits(p)'
       /\ dest' \in [Files -> Seq(Cells)]
  BY <1>6, <1>7, <1>8, <1>9, <1>10 DEF f
<1> QED
  BY <1>5, <1>6, <1>7, <1>8, <1>11, <1>12, DownloadStep

-----------------------------------------------------------------------------
(* A write keeps a sequence one; it appends where the writer is at the end.*)
LEMMA PutIsSeq ==
  ASSUME NEW s \in Seq(Cells), NEW r \in Runs, r.body # << >>
  PROVE  /\ Put(s, r) \in Seq(Cells)
         /\ r.written = Len(s) => Put(s, r) = Append(s, Head(r.body))
<1>1. Head(r.body) \in Cells /\ Hole \in Cells /\ r.written \in Nat /\ Len(s) \in Nat
  <2>1. r.body \in Seq(Cells) /\ r.written \in Nat /\ Len(s) \in Nat
    BY LenProperties DEF Runs
  <2>2. Head(r.body) \in Cells
    BY <2>1
  <2> QED
    BY <2>1, <2>2 DEF Cells, Hole
<1> DEFINE b == Head(r.body)
           w == r.written
           n == IF w < Len(s) THEN Len(s) ELSE w + 1
           t == [i \in 1 .. n |-> IF i = w + 1 THEN b ELSE IF i <= Len(s) THEN s[i] ELSE Hole]
<1>2. Put(s, r) = IF r.offset # 0 THEN Append(s, b) ELSE t
  BY DEF Put, PartMode
<1>3. Append(s, b) \in Seq(Cells)
  BY <1>1
<1> HIDE DEF b, w
<1>4. n \in Nat /\ t \in [1 .. n -> Cells]
  <2>1. \A i \in 1 .. Len(s) : s[i] \in Cells
    BY ElementOfSeq
  <2> QED
    BY <1>1, <2>1 DEF b, w
<1>5. t \in Seq(Cells) /\ Len(t) = n
  <2> HIDE DEF t, n
  <2> QED
    BY <1>4, SeqDef, LenProperties
<1>6. ASSUME w = Len(s) PROVE t = Append(s, b)
  <2>1. Len(Append(s, b)) = n /\ n = Len(s) + 1
    BY <1>1, <1>6, AppendProperties DEF b
  <2>2. \A i \in 1 .. n : t[i] = Append(s, b)[i]
    <3> SUFFICES ASSUME NEW i \in 1 .. n PROVE t[i] = Append(s, b)[i]
      OBVIOUS
    <3>1. t[i] = IF i = w + 1 THEN b ELSE IF i <= Len(s) THEN s[i] ELSE Hole
      OBVIOUS
    <3>2. Append(s, b)[i] = IF i <= Len(s) THEN s[i] ELSE b
      BY <1>1, <2>1, AppendProperties DEF b
    <3>3. i \in Nat /\ i <= Len(s) + 1 /\ Len(s) \in Nat
      BY <1>1, <2>1
    <3> HIDE DEF t, n
    <3> QED
      BY <1>6, <3>1, <3>2, <3>3
  <2> HIDE DEF t, n
  <2> QED
    BY <1>3, <1>5, <2>1, <2>2, SeqEqual
<1> HIDE DEF t
<1> QED
  BY <1>2, <1>3, <1>5, <1>6 DEF b, w

(* A block is appended: the .part grows by the block its length names.     *)
LEMMA BlockKeeps == ASSUME NEW p \in Runners, FetchInv, ReadBlock(p) PROVE FetchInv'
<1> DEFINE f == run[p].file
           r == run[p]
           next == [r EXCEPT !.body = Tail(@), !.written = @ + 1]
<1>1. /\ f \in Files /\ r \in Runs /\ r.file = f
      /\ part[f] \in Seq(Cells) /\ Len(part[f]) \in Nat /\ dest[f] \in Seq(Cells)
      /\ r.body \in Seq(Cells) /\ Len(r.body) \in Nat /\ r.body # << >>
      /\ r.written \in Nat /\ r.step = "read"
  BY LenProperties DEF FetchInv, FetchTypes, Runs, ReadBlock
<1>2. /\ part' = IF r.into = "part" THEN [part EXCEPT ![f] = Put(@, r)] ELSE part
      /\ dest' = IF r.into = "dest" THEN [dest EXCEPT ![f] = Put(@, r)] ELSE dest
      /\ run' = [run EXCEPT ![p] = next]
      /\ UNCHANGED <<remote, torn, overlapped>>
  BY DEF ReadBlock
<1>3. /\ f \notin overlapped => r.into \notin {"dest", "gone"}
      /\ f \notin torn \cup overlapped => BodyGoesOn(r, part[f]) /\ Matches(part[f])
  BY <1>1 DEF FetchInv, Handles, AllFit, Fits, PartsMatch
<1> HIDE DEF f, r
<1> DEFINE rest == Tail(r.body)
           block == Head(r.body)
           grown == Append(part[f], block)
<1>4. /\ block \in Cells /\ block = r.body[1] /\ Len(r.body) > 0
      /\ rest \in Seq(Cells) /\ Len(rest) = Len(r.body) - 1
      /\ \A i \in 1 .. Len(r.body) - 1 : rest[i] = r.body[i + 1]
  BY <1>1
<1>5. /\ grown \in Seq(Cells) /\ Len(grown) = Len(part[f]) + 1
      /\ \A i \in 1 .. Len(part[f]) : grown[i] = part[f][i]
      /\ grown[Len(part[f]) + 1] = block
  BY <1>1, <1>4
<1>6. /\ next \in Runs /\ next.step = "read" /\ next.file = f /\ next.into = r.into
      /\ next.body = rest /\ next.written = r.written + 1 /\ next.expected = r.expected
  <2> DEFINE n == r.written + 1
             u == [r EXCEPT !.body = rest]
             q == [u EXCEPT !.written = n]
  <2>1. r \in Runs /\ rest \in Seq(Cells) /\ n \in Nat
    BY <1>1, <1>4
  <2>2. next = q
    OBVIOUS
  <2> HIDE DEF next, n, rest
  <2>3. /\ u \in Runs /\ u.step = r.step /\ u.file = r.file /\ u.into = r.into
        /\ u.body = rest /\ u.expected = r.expected
    BY <2>1 DEF Runs
  <2> HIDE DEF u
  <2>4. /\ q \in Runs /\ q.step = u.step /\ q.file = u.file /\ q.into = u.into
        /\ q.body = u.body /\ q.written = n /\ q.expected = u.expected
    BY <2>1, <2>3 DEF Runs
  <2> HIDE DEF q
  <2> QED
    BY <1>1, <2>2, <2>3, <2>4 DEF n
<1>7. /\ Put(part[f], r) \in Seq(Cells) /\ Put(dest[f], r) \in Seq(Cells)
      /\ r.written = Len(part[f]) => Put(part[f], r) = grown
  BY <1>1, PutIsSeq
<1> HIDE DEF next, rest, block, grown
<1>8. /\ part' \in [Files -> Seq(Cells)] /\ dest' \in [Files -> Seq(Cells)]
      /\ \A g \in Files \ {f} : part'[g] = part[g] /\ dest'[g] = dest[g]
      /\ r.into = "part" => part'[f] = Put(part[f], r)
      /\ r.into # "dest" => dest'[f] = dest[f]
      /\ r.into # "part" => part'[f] = part[f]
  BY <1>1, <1>2, <1>7 DEF FetchInv, FetchTypes
<1>9. ASSUME f \notin torn \cup overlapped
      PROVE  /\ part'[f] = grown /\ dest'[f] = dest[f] /\ Blocks > 0 /\ r.expected = Blocks
             /\ r.into = "part" /\ r.written = Len(part[f])
             /\ r.written + Len(r.body) = Blocks
             /\ \A i \in 1 .. Len(r.body) : r.body[i] = There(r.written + i)
  BY <1>3, <1>7, <1>8, <1>9 DEF BodyGoesOn
<1>10. ASSUME f \notin torn \cup overlapped PROVE Matches(grown)
  <2> DEFINE n == Len(r.body)
             m == Len(part[f])
  <2>1. n \in Nat /\ n > 0 /\ m \in Nat /\ m + n = Blocks /\ Len(grown) = m + 1
    BY <1>1, <1>4, <1>5, <1>9, <1>10
  <2>2. block = There(m + 1)
    <3>1. 1 \in 1 .. n
      <4> HIDE DEF n
      <4> QED
        BY <2>1
    <3>2. r.body[1] = There(r.written + 1) /\ r.written = m
      BY <3>1, <1>9, <1>10
    <3> QED
      BY <3>2, <1>4
  <2>3. Len(grown) <= Blocks
    <3> HIDE DEF n, m
    <3> QED
      BY <2>1
  <2>4. ASSUME NEW i \in 1 .. Len(grown) PROVE grown[i] = There(i)
    <3>1. i \in 1 .. Len(part[f]) \/ i = Len(part[f]) + 1
      BY <1>1, <1>5
    <3>2. \A j \in 1 .. Len(part[f]) : part[f][j] = There(j)
      BY <1>3, <1>10 DEF Matches
    <3> QED
      BY <3>1, <3>2, <2>2, <1>5
  <2> QED
    BY <2>3, <2>4 DEF Matches
<1>11. ASSUME f \notin torn \cup overlapped
       PROVE  /\ r.written + 1 + Len(rest) = Blocks
              /\ \A i \in 1 .. Len(rest) : rest[i] = There(r.written + 1 + i)
  <2> DEFINE n == Len(r.body)
  <2>1. n \in Nat /\ Len(rest) = n - 1 /\ r.written + n = Blocks
    BY <1>1, <1>4, <1>9, <1>11
  <2>2. r.written + 1 + Len(rest) = Blocks
    <3> HIDE DEF n
    <3> QED
      BY <2>1, <1>1
  <2>3. ASSUME NEW i \in 1 .. Len(rest) PROVE rest[i] = There(r.written + 1 + i)
    <3>1. rest[i] = r.body[i + 1] /\ i + 1 \in 1 .. Len(r.body)
      BY <1>1, <1>4, <2>1
    <3>2. r.body[i + 1] = There(r.written + (i + 1))
      BY <1>9, <1>11, <3>1
    <3>3. r.written + (i + 1) = r.written + 1 + i
      <4>1. i \in Nat /\ r.written \in Nat
        BY <1>1, <2>1, <3>1
      <4> QED
        BY <4>1
    <3> QED
      BY <3>1, <3>2, <3>3
  <2> QED
    BY <2>2, <2>3
<1>12. run'[p] = next
  BY <1>2 DEF FetchInv, FetchTypes
<1>13. f \notin overlapped => Fits(p)'
  <2> SUFFICES ASSUME f \notin torn \cup overlapped PROVE BodyGoesOn(next, part'[f])
    BY <1>2, <1>6, <1>12 DEF Fits, BodyGoesOn, There
  <2>1. next.written = Len(part'[f])
    BY <1>5, <1>6, <1>9
  <2> QED
    BY <2>1, <1>6, <1>9, <1>11 DEF BodyGoesOn
<1>14. f \notin torn \cup overlapped => Matches(part'[f]) /\ dest'[f] = dest[f]
  BY <1>9, <1>10
<1>15. Downloads(p) /\ next.into = run[p].into /\ next.file = run[p].file
  BY <1>1, <1>6 DEF Downloads, r, f
<1> QED
  BY <1>2, <1>6, <1>8, <1>13, <1>14, <1>15, DownloadStep

-----------------------------------------------------------------------------
(* Only a body of the expected length is renamed.                          *)
LEMMA EndKeeps == ASSUME NEW p \in Runners, FetchInv, BodyEnds(p) PROVE FetchInv'
<1>1. CASE run[p].written # run[p].expected
  <2>1. run' = [run EXCEPT ![p] = Over] /\ UNCHANGED <<remote, part, dest, torn, overlapped>>
    BY <1>1 DEF BodyEnds
  <2>2. run'[p] = Over
    BY <2>1 DEF FetchInv, FetchTypes
  <2> QED
    BY <2>1, <2>2, QuietStep, OverIsRun
<1>2. CASE run[p].written = run[p].expected
  <2> DEFINE r == [run[p] EXCEPT !.step = "rename"]
  <2>1. /\ run' = [run EXCEPT ![p] = r] /\ UNCHANGED <<remote, part, dest, torn, overlapped>>
        /\ run[p].step = "read"
    BY <1>2 DEF BodyEnds
  <2>2. r \in Runs /\ r.step = "rename" /\ r.file = run[p].file /\ r.into = run[p].into
    BY <2>1 DEF FetchInv, FetchTypes, Runs
  <2> HIDE DEF r
  <2>3. run'[p] = r
    BY <2>1 DEF FetchInv, FetchTypes
  <2>4. r.file \notin overlapped => Fits(p)'
    BY <1>2, <2>1, <2>2, <2>3 DEF FetchInv, AllFit, Fits, BodyGoesOn
  <2>5. /\ part' \in [Files -> Seq(Cells)] /\ dest' \in [Files -> Seq(Cells)]
        /\ r.file \notin torn \cup overlapped =>
             Matches(part'[r.file]) /\ dest'[r.file] = dest[r.file]
    BY <2>1, <2>2 DEF FetchInv, FetchTypes, PartsMatch, Runs
  <2> QED
    BY <2>1, <2>2, <2>4, <2>5, DownloadStep DEF Downloads
<1> QED
  BY <1>1, <1>2

(* A .part of full length takes its place, and the next begins empty.      *)
LEMMA RenameKeeps == ASSUME NEW p \in Runners, FetchInv, Rename(p) PROVE FetchInv'
<1> DEFINE f == run[p].file
           moved == [part |-> "dest", dest |-> "gone"]
<1>1. \A x \in DOMAIN moved : x # "none" /\ moved[x] \in {"dest", "gone"}
  OBVIOUS
<1>2. /\ run' = [Followed(f, moved) EXCEPT ![p] = NextFile(f)]
      /\ part' = [part EXCEPT ![f] = << >>] /\ dest' = [dest EXCEPT ![f] = part[f]]
      /\ run[p].step = "rename" /\ UNCHANGED <<remote, torn, overlapped>>
  BY DEF Rename
<1> HIDE DEF moved
<1>3. f \in Files /\ part[f] \in Seq(Cells) /\ remote \in 1 .. 2
  BY DEF FetchInv, FetchTypes, Runs
<1>4. /\ dest' \in [Files -> Seq(Cells)] /\ dest'[f] = part[f]
      /\ \A g \in Files \ {f} : dest'[g] = dest[g]
  BY <1>2, <1>3 DEF FetchInv, FetchTypes
<1>5. f \notin torn \cup overlapped => Served(dest'[f])
  <2> SUFFICES ASSUME f \notin torn \cup overlapped PROVE dest'[f] = Content(remote)
    BY <1>3 DEF Served
  <2>1. Matches(part[f]) /\ Len(part[f]) = Blocks
    BY <1>2, <1>3 DEF FetchInv, PartsMatch, AllFit, Fits
  <2> QED
    BY <1>3, <1>4, <2>1, FullIsContent
<1>6. /\ NextFile(f) \in Runs /\ NextFile(f).step \in {"over", "look"}
      /\ NextFile(f).into = "none"
  BY <1>3, OverIsRun
<1> QED
  BY <1>1, <1>2, <1>4, <1>5, <1>6, MovedStep DEF Downloads

(* A new version overtakes every download that has begun.                  *)
LEMMA NewVersionKeeps == ASSUME FetchInv, RemotePublishes PROVE FetchInv'
<1>1. /\ remote = 1 /\ remote' = 2 /\ torn = {}
      /\ torn' = {f \in Files : part[f] # << >>
                    \/ \E p \in Runners : run[p].step = "read" /\ run[p].file = f}
      /\ UNCHANGED <<part, dest, run, overlapped>>
  BY DEF RemotePublishes, FetchInv, FetchTypes
<1>2. FetchTypes' /\ OneEach' /\ Handles'
  BY <1>1 DEF FetchInv, FetchTypes, OneEach, Handles, Downloads
<1>3. PartsMatch'
  BY <1>1, EmptySeq DEF PartsMatch, Matches
<1>4. AllFit'
  <2> SUFFICES ASSUME NEW p \in Runners, run[p].file \notin overlapped PROVE Fits(p)'
    BY <1>1 DEF AllFit
  <2>1. Fits(p) /\ run[p].file \in Files
    BY DEF FetchInv, AllFit, FetchTypes, Runs
  <2>2. run[p].file \notin torn' => part[run[p].file] = << >> /\ run[p].step # "read"
    BY <1>1, <2>1
  <2>3. run[p].step = "rename" => run[p].file \in torn'
    BY <1>1, <2>1, <2>2, EmptySeq DEF Fits
  <2> QED
    BY <1>1, <2>1, <2>2, <2>3 DEF Fits
<1>5. ModelWhole'
  BY <1>1 DEF FetchInv, ModelWhole, Content
<1> QED
  BY <1>2, <1>3, <1>4, <1>5 DEF FetchInv

-----------------------------------------------------------------------------
LEMMA FetchKeeps == ASSUME FetchInv, [FetchNext]_fetchVars PROVE FetchInv'
<1>1. CASE UNCHANGED fetchVars
  BY <1>1
  DEF fetchVars, FetchInv, FetchTypes, OneEach, Handles, Downloads, PartsMatch, Matches, There,
      AllFit, Fits, BodyGoesOn, ModelWhole, Content
<1>2. ASSUME NEW p \in Runners, FetchModel(p) \/ Have(p) \/ Refused(p) \/ FetchDies(p)
      PROVE  FetchInv'
  <2>1. \/ run' = [run EXCEPT ![p] = RunAt("look", 1)]
        \/ run' = [run EXCEPT ![p] = NextFile(run[p].file)]
        \/ run' = [run EXCEPT ![p] = Over]
    BY <1>2 DEF FetchModel, Have, Refused, FetchDies
  <2>2. run'[p] \in {RunAt("look", 1), NextFile(run[p].file), Over}
        /\ run' = [run EXCEPT ![p] = run'[p]]
    BY <2>1 DEF FetchInv, FetchTypes
  <2>3. run'[p] \in Runs /\ run'[p].step \in {"over", "look"} /\ run'[p].into = "none"
    <3>1. run[p].file \in Files
      BY DEF FetchInv, FetchTypes, Runs
    <3> QED
      BY <2>2, <3>1, OverIsRun
  <2>4. UNCHANGED <<remote, part, dest, torn, overlapped>>
    BY <1>2 DEF FetchModel, Have, Refused, FetchDies
  <2> QED
    BY <2>2, <2>3, <2>4, QuietStep
<1> QED
  BY <1>1, <1>2, RejectedKeeps, AskKeeps, AnswerKeeps, BlockKeeps, EndKeeps, RenameKeeps,
     NewVersionKeeps DEF FetchNext

(* A model file in its place is what the server had, but for one that two  *)
(* runs downloaded at once or that was resumed across a new version        *)
(* (fetch_one).                                                            *)
THEOREM ModelIsWhole == FetchSpec => []ModelWhole
<1>1. FetchInit => FetchInv
  BY FetchInitially
<1>2. FetchInv /\ [FetchNext]_fetchVars => FetchInv'
  BY FetchKeeps
<1>3. FetchInv => ModelWhole
  BY DEF FetchInv
<1> QED
  BY <1>1, <1>2, <1>3, PTL DEF FetchSpec

-----------------------------------------------------------------------------
(***************************************************************************)
(* The config file.                                                        *)
(***************************************************************************)
LEMMA LeastOf ==
  ASSUME NEW T \in SUBSET Nat, T # {}
  PROVE  \E n \in T : \A k \in T : n <= k
<1>1. \E n \in T : \A k \in T : <<k, n>> \notin OpToRel(<, Nat)
  BY WFMin, NatLessThanWellFounded, Zenon
<1>2. PICK n \in T : \A k \in T : ~(k < n)
  BY <1>1, Zenon DEF OpToRel
<1> QED
  BY <1>2

LEMMA MinIsLeast ==
  ASSUME NEW T \in SUBSET Nat, T # {}
  PROVE  Min(T) \in T
<1>1. \E n \in T : \A k \in T : n <= k
  BY LeastOf
<1> QED
  BY <1>1, Zenon DEF Min

(* What holds of 0 and goes from one number to the next holds up to n.     *)
LEMMA Climb ==
  ASSUME NEW n \in Nat, NEW T, 0 \in T, \A i \in 1 .. n : i - 1 \in T => i \in T
  PROVE  \A i \in 0 .. n : i \in T
<1> DEFINE U == {i \in 0 .. n : i \notin T}
<1>1. SUFFICES ASSUME U # {} PROVE FALSE
  OBVIOUS
<1>2. PICK m \in U : \A k \in U : m <= k
  <2>1. U \in SUBSET Nat /\ U # {}
    BY <1>1
  <2> HIDE DEF U
  <2> QED
    BY <2>1, LeastOf
<1>3. m # 0 /\ m - 1 \in 0 .. n /\ m \in 1 .. n
  BY <1>2
<1>4. m - 1 \in T
  BY <1>2, <1>3
<1> QED
  BY <1>2, <1>3, <1>4

(* A sequence of steps, each from what the one before it left.             *)
Walk(f, n, X, x0, s) ==
  f \in [0 .. n -> X] /\ f[0] = x0 /\ \A i \in 1 .. n : f[i] = s[i][f[i - 1]]

LEMMA WalkExists ==
  ASSUME NEW X, NEW x0 \in X, NEW n \in Nat, NEW s \in [1 .. n -> [X -> X]]
  PROVE  \E f : Walk(f, n, X, x0, s)
<1> DEFINE T == {m \in 0 .. n : \E f : Walk(f, m, X, x0, s)}
<1>1. 0 \in T
  <2> DEFINE f == [i \in 0 .. 0 |-> x0]
  <2>1. f \in [0 .. 0 -> X] /\ f[0] = x0
    OBVIOUS
  <2> HIDE DEF f
  <2>2. Walk(f, 0, X, x0, s)
    BY <2>1 DEF Walk
  <2> QED
    BY <2>2
<1>2. ASSUME NEW m \in 1 .. n, m - 1 \in T PROVE m \in T
  <2>1. PICK g : Walk(g, m - 1, X, x0, s)
    BY <1>2
  <2> DEFINE f == [i \in 0 .. m |-> IF i = m THEN s[m][g[m - 1]] ELSE g[i]]
  <2>2. g[m - 1] \in X /\ s[m] \in [X -> X]
    BY <2>1 DEF Walk
  <2>3. f \in [0 .. m -> X] /\ f[0] = x0
    BY <2>1, <2>2 DEF Walk
  <2>4. ASSUME NEW i \in 1 .. m PROVE f[i] = s[i][f[i - 1]]
    <3>1. CASE i = m
      BY <3>1
    <3>2. CASE i # m
      <4>1. i \in 1 .. m - 1 /\ f[i] = g[i] /\ f[i - 1] = g[i - 1]
        BY <3>2
      <4> QED
        BY <2>1, <4>1 DEF Walk
    <3> QED
      BY <3>1, <3>2
  <2> HIDE DEF f
  <2>5. Walk(f, m, X, x0, s)
    BY <2>3, <2>4 DEF Walk
  <2> QED
    BY <2>5
<1>3. n \in T
  <2> HIDE DEF T
  <2>1. \A i \in 0 .. n : i \in T
    BY <1>1, <1>2, Climb
  <2> QED
    BY <2>1
<1> QED
  BY <1>3

LEMMA RangeOfAppend ==
  ASSUME NEW E, NEW s \in Seq(E), NEW e \in E
  PROVE  Append(s, e) \in Seq(E) /\ Range(Append(s, e)) = Range(s) \cup {e}
<1>1. Append(s, e) \in Seq(E) /\ Len(Append(s, e)) = Len(s) + 1 /\ Len(s) \in Nat
  OBVIOUS
<1>2. \A i \in 1 .. Len(s) : Append(s, e)[i] = s[i]
  OBVIOUS
<1>3. Append(s, e)[Len(s) + 1] = e
  OBVIOUS
<1>4. DOMAIN s = 1 .. Len(s) /\ DOMAIN Append(s, e) = 1 .. Len(s) + 1
  BY <1>1
<1> DEFINE t == Append(s, e)
<1> HIDE DEF t
<1>5. ASSUME NEW x \in Range(t) PROVE x \in Range(s) \cup {e}
  <2>1. PICK i \in DOMAIN t : x = t[i]
    BY <1>5, Zenon DEF Range
  <2>2. i \in 1 .. Len(s) \/ i = Len(s) + 1
    BY <1>1, <1>4, <2>1 DEF t
  <2> QED
    BY <1>2, <1>3, <1>4, <2>1, <2>2 DEF t, Range
<1>6. Range(s) \subseteq Range(t)
  BY <1>1, <1>2, <1>4 DEF t, Range
<1>7. e \in Range(t)
  <2>1. Len(s) + 1 \in DOMAIN t
    BY <1>1, <1>4 DEF t
  <2> QED
    BY <2>1, <1>3 DEF t, Range
<1> QED
  BY <1>1, <1>5, <1>6, <1>7 DEF t

-----------------------------------------------------------------------------
(* Entries pushed.                                                         *)

Twin(m, e, fields) == \A x \in fields : m[x] = e[x]
PushedOne(ms, e, fields) ==
  IF \E m \in Range(ms) : Twin(m, e, fields) THEN ms ELSE Append(ms, e)

LEMMA PushedOneKeeps ==
  ASSUME NEW E, NEW ms \in Seq(E), NEW e \in E, NEW fields
  PROVE  /\ PushedOne(ms, e, fields) \in Seq(E)
         /\ Range(ms) \subseteq Range(PushedOne(ms, e, fields))
         /\ \E m \in Range(PushedOne(ms, e, fields)) : Twin(m, e, fields)
<1>1. CASE \E m \in Range(ms) : Twin(m, e, fields)
  BY <1>1 DEF PushedOne
<1>2. CASE ~\E m \in Range(ms) : Twin(m, e, fields)
  <2>1. PushedOne(ms, e, fields) = Append(ms, e)
    BY <1>2 DEF PushedOne
  <2>2. Twin(e, e, fields)
    BY DEF Twin
  <2> QED
    BY <2>1, <2>2, RangeOfAppend
<1> QED
  BY <1>1, <1>2

PushedUpto(ms, es, fields, f) ==
  f = [i \in 0 .. Len(es) |-> IF i = 0 THEN ms ELSE PushedOne(f[i - 1], es[i], fields)]

LEMMA PushedIs ==
  ASSUME NEW ms, NEW es, NEW fields
  PROVE  Pushed(ms, es, fields)
           = (CHOOSE f : PushedUpto(ms, es, fields, f))[Len(es)]
BY DEF Pushed, PushedUpto, PushedOne, Twin

LEMMA PushedHolds ==
  ASSUME NEW E, NEW ms \in Seq(E), NEW es \in Seq(E), NEW fields
  PROVE  /\ Pushed(ms, es, fields) \in Seq(E)
         /\ Range(ms) \subseteq Range(Pushed(ms, es, fields))
         /\ \A j \in 1 .. Len(es) :
              \E m \in Range(Pushed(ms, es, fields)) : Twin(m, es[j], fields)
<1> DEFINE n == Len(es)
           s == [i \in 1 .. n |-> [x \in Seq(E) |-> PushedOne(x, es[i], fields)]]
           f == CHOOSE f : PushedUpto(ms, es, fields, f)
<1>1. n \in Nat /\ \A i \in 1 .. n : es[i] \in E
  OBVIOUS
<1>2. s \in [1 .. n -> [Seq(E) -> Seq(E)]]
  BY <1>1, PushedOneKeeps
<1>3. \A x \in Seq(E), i \in 1 .. n : s[i][x] = PushedOne(x, es[i], fields)
  OBVIOUS
<1> HIDE DEF s
<1>4. PICK g : Walk(g, n, Seq(E), ms, s)
  BY <1>1, <1>2, WalkExists
<1>6. PushedUpto(ms, es, fields, g)
  <2> DEFINE h == [i \in 0 .. n |-> IF i = 0 THEN ms ELSE PushedOne(g[i - 1], es[i], fields)]
  <2>1. ASSUME NEW i \in 0 .. n PROVE g[i] = h[i]
    <3>1. CASE i = 0
      BY <1>4, <3>1 DEF Walk
    <3>2. CASE i # 0
      <4>1. i \in 1 .. n /\ i - 1 \in 0 .. n
        BY <1>1, <3>2
      <4>2. g[i] = s[i][g[i - 1]] /\ g[i - 1] \in Seq(E)
        BY <1>4, <4>1 DEF Walk
      <4>3. g[i] = PushedOne(g[i - 1], es[i], fields)
        BY <1>3, <4>1, <4>2
      <4> QED
        BY <4>3, <3>2
    <3> QED
      BY <3>1, <3>2
  <2>2. g = [i \in 0 .. n |-> g[i]]
    BY <1>4 DEF Walk
  <2>3. g = h
    BY <2>1, <2>2
  <2> QED
    BY <2>3 DEF PushedUpto
<1>7. PushedUpto(ms, es, fields, f)
  BY <1>6
<1> HIDE DEF f
<1>8. f[0] = ms /\ \A i \in 1 .. n : f[i] = PushedOne(f[i - 1], es[i], fields)
  BY <1>1, <1>7 DEF PushedUpto
<1> DEFINE Fine(i) == /\ f[i] \in Seq(E)
                      /\ Range(ms) \subseteq Range(f[i])
                      /\ \A j \in 1 .. i : \E m \in Range(f[i]) : Twin(m, es[j], fields)
           T == {i \in 0 .. n : Fine(i)}
<1>9. 0 \in T
  BY <1>1, <1>8
<1>10. ASSUME NEW i \in 1 .. n, i - 1 \in T PROVE i \in T
  <2>1. Fine(i - 1) /\ es[i] \in E
    BY <1>1, <1>10
  <2>2. /\ f[i] \in Seq(E)
        /\ Range(f[i - 1]) \subseteq Range(f[i])
        /\ \E m \in Range(f[i]) : Twin(m, es[i], fields)
    <3>1. f[i] = PushedOne(f[i - 1], es[i], fields)
      BY <1>8
    <3> QED
      BY <2>1, <3>1, PushedOneKeeps
  <2>3. ASSUME NEW j \in 1 .. i PROVE \E m \in Range(f[i]) : Twin(m, es[j], fields)
    <3>1. j \in 1 .. i - 1 \/ j = i
      OBVIOUS
    <3> QED
      BY <2>1, <2>2, <3>1
  <2> QED
    BY <2>1, <2>2, <2>3
<1>11. n \in T
  <2> HIDE DEF T
  <2>1. n \in Nat
    BY <1>1
  <2> HIDE DEF n
  <2>2. \A i \in 0 .. n : i \in T
    BY <2>1, <1>9, <1>10, Climb
  <2> QED
    BY <2>1, <2>2
<1>12. Pushed(ms, es, fields) = f[n]
  BY PushedIs DEF f
<1> QED
  BY <1>11, <1>12

-----------------------------------------------------------------------------
(* The entries without those of a name.                                    *)
Kept(models, n, i, f) == IF models[i].name = n THEN f[i - 1] ELSE Append(f[i - 1], models[i])
KeptUpto(models, n, f) ==
  f = [i \in 0 .. Len(models) |-> IF i = 0 THEN <<>> ELSE Kept(models, n, i, f)]

LEMMA WithoutIs ==
  ASSUME NEW models, NEW n
  PROVE  Without(models, n) = (CHOOSE f : KeptUpto(models, n, f))[Len(models)]
BY DEF Without, KeptUpto, Kept

LEMMA WithoutHolds ==
  ASSUME NEW E, NEW models \in Seq(E), NEW n
  PROVE  /\ Without(models, n) \in Seq(E)
         /\ Range(Without(models, n)) = {e \in Range(models) : e.name # n}
<1> DEFINE l == Len(models)
           s == [i \in 1 .. l |-> [x \in Seq(E) |->
                   IF models[i].name = n THEN x ELSE Append(x, models[i])]]
           f == CHOOSE f : KeptUpto(models, n, f)
<1>1. l \in Nat /\ DOMAIN models = 1 .. l /\ \A i \in 1 .. l : models[i] \in E
  OBVIOUS
<1>2. s \in [1 .. l -> [Seq(E) -> Seq(E)]]
  BY <1>1, RangeOfAppend
<1>3. \A x \in Seq(E), i \in 1 .. l :
        s[i][x] = IF models[i].name = n THEN x ELSE Append(x, models[i])
  OBVIOUS
<1>4. <<>> \in Seq(E)
  OBVIOUS
<1> HIDE DEF s
<1>5. PICK g : Walk(g, l, Seq(E), <<>>, s)
  <2> DEFINE none == <<>>
  <2>1. none \in Seq(E)
    BY <1>4
  <2> HIDE DEF none
  <2>2. \E g : Walk(g, l, Seq(E), none, s)
    BY <1>1, <1>2, <2>1, WalkExists
  <2> QED
    BY <2>2 DEF none
<1>6. KeptUpto(models, n, g)
  <2> DEFINE h == [i \in 0 .. l |-> IF i = 0 THEN <<>> ELSE Kept(models, n, i, g)]
  <2>1. ASSUME NEW i \in 0 .. l PROVE g[i] = h[i]
    <3>1. CASE i = 0
      BY <1>5, <3>1 DEF Walk
    <3>2. CASE i # 0
      <4>1. i \in 1 .. l /\ i - 1 \in 0 .. l
        BY <1>1, <3>2
      <4>2. g[i] = s[i][g[i - 1]] /\ g[i - 1] \in Seq(E)
        BY <1>5, <4>1 DEF Walk
      <4>3. g[i] = Kept(models, n, i, g)
        BY <1>3, <4>1, <4>2 DEF Kept
      <4> QED
        BY <4>3, <3>2
    <3> QED
      BY <3>1, <3>2
  <2>2. g = [i \in 0 .. l |-> g[i]]
    BY <1>5 DEF Walk
  <2>3. g = h
    BY <2>1, <2>2
  <2> QED
    BY <2>3 DEF KeptUpto
<1>7. KeptUpto(models, n, f)
  BY <1>6
<1> HIDE DEF f
<1>8. f[0] = <<>> /\ \A i \in 1 .. l : f[i] = Kept(models, n, i, f)
  BY <1>1, <1>7 DEF KeptUpto
<1> DEFINE Fine(i) == /\ f[i] \in Seq(E)
                      /\ \A e \in Range(f[i]) : e \in Range(models) /\ e.name # n
                      /\ \A j \in 1 .. i : models[j].name # n => models[j] \in Range(f[i])
           T == {i \in 0 .. l : Fine(i)}
<1>9. 0 \in T
  <2>1. Range(f[0]) = {} /\ f[0] \in Seq(E)
    BY <1>4, <1>8 DEF Range
  <2>2. 0 \in 0 .. l /\ 1 .. 0 = {}
    BY <1>1
  <2> QED
    BY <2>1, <2>2
<1>10. ASSUME NEW i \in 1 .. l, i - 1 \in T PROVE i \in T
  <2>1. Fine(i - 1) /\ models[i] \in E /\ models[i] \in Range(models)
    BY <1>1, <1>10 DEF Range
  <2>2. \A j \in 1 .. i : j \in 1 .. i - 1 \/ j = i
    OBVIOUS
  <2>3. f[i] = IF models[i].name = n THEN f[i - 1] ELSE Append(f[i - 1], models[i])
    BY <1>8 DEF Kept
  <2>4. CASE models[i].name = n
    BY <2>1, <2>2, <2>3, <2>4
  <2>5. CASE models[i].name # n
    <3>1. f[i] \in Seq(E) /\ Range(f[i]) = Range(f[i - 1]) \cup {models[i]}
      BY <2>1, <2>3, <2>5, RangeOfAppend
    <3> QED
      BY <2>1, <2>2, <2>5, <3>1
  <2> QED
    BY <2>4, <2>5
<1>11. l \in T
  <2> HIDE DEF T
  <2>1. l \in Nat
    BY <1>1
  <2> HIDE DEF l
  <2>2. \A i \in 0 .. l : i \in T
    BY <2>1, <1>9, <1>10, Climb
  <2> QED
    BY <2>1, <2>2
<1>12. Without(models, n) = f[l]
  BY WithoutIs DEF f
<1>13. \A e \in Range(models) : e.name # n => e \in Range(f[l])
  BY <1>1, <1>11 DEF Range
<1> QED
  BY <1>11, <1>12, <1>13

-----------------------------------------------------------------------------
(* The old layout.                                                         *)
OldProviders == UNION {Range(t) : t \in LegacyTables}
Connections == Backends \cup {LoginBackend} \cup OldProviders
EverNamed ==
  ModelNames \cup {NoModel} \cup {p.name : p \in OldProviders}
    \cup {p.completion : p \in OldProviders} \cup {p.reasoning : p \in OldProviders}
Entries == [name : EverNamed, kind : {b.kind : b \in Connections},
            base : {b.base : b \in Connections}, key : {b.key : b \in Connections}]

LEMMA EntryIsEntry ==
  ASSUME NEW n \in EverNamed, NEW b \in Connections
  PROVE  Entry(n, b) \in Entries /\ Entry(n, b).name = n
BY DEF Entry, Entries

LEMMA LegacyIdsHold ==
  ASSUME NEW p \in OldProviders
  PROVE  /\ LegacyIds(p) \in Seq(EverNamed)
         /\ \A x \in {p.completion, p.reasoning} \ {NoModel} :
              \E k \in 1 .. Len(LegacyIds(p)) : LegacyIds(p)[k] = x
<1>1. {p.name, p.completion, p.reasoning} \subseteq EverNamed
  BY DEF EverNamed
<1>2. CASE {p.completion, p.reasoning} = {NoModel}
  <2>1. LegacyIds(p) = <<p.name>>
    BY <1>2 DEF LegacyIds
  <2> QED
    BY <1>1, <1>2, <2>1
<1>3. CASE NoModel \notin {p.completion, p.reasoning} /\ p.completion # p.reasoning
  <2> DEFINE two == <<p.completion, p.reasoning>>
  <2>1. LegacyIds(p) = two
    BY <1>3 DEF LegacyIds
  <2>2. two \in Seq(EverNamed) /\ Len(two) = 2 /\ two[1] = p.completion /\ two[2] = p.reasoning
    BY <1>1
  <2>3. 1 \in 1 .. 2 /\ 2 \in 1 .. 2
    OBVIOUS
  <2> HIDE DEF two
  <2> QED
    BY <2>1, <2>2, <2>3
<1>4. CASE /\ {p.completion, p.reasoning} # {NoModel}
           /\ ~(NoModel \notin {p.completion, p.reasoning} /\ p.completion # p.reasoning)
  <2> DEFINE x == IF p.completion # NoModel THEN p.completion ELSE p.reasoning
             one == <<x>>
  <2>1. LegacyIds(p) = one
    BY <1>4, Zenon DEF LegacyIds
  <2>2. x \in EverNamed /\ {p.completion, p.reasoning} \ {NoModel} \subseteq {x}
    BY <1>1, <1>4
  <2> HIDE DEF x
  <2>3. one \in Seq(EverNamed) /\ Len(one) = 1 /\ one[1] = x
    BY <2>2
  <2> HIDE DEF one
  <2> QED
    BY <2>1, <2>2, <2>3
<1> QED
  BY <1>2, <1>3, <1>4

LEMMA EntriesForHold ==
  ASSUME NEW p \in OldProviders
  PROVE  /\ EntriesFor(p) \in Seq(Entries)
         /\ \A x \in {p.completion, p.reasoning} \ {NoModel} :
              \E k \in 1 .. Len(EntriesFor(p)) : EntriesFor(p)[k].name = x
<1> DEFINE ids == LegacyIds(p)
<1>1. /\ ids \in Seq(EverNamed)
      /\ \A x \in {p.completion, p.reasoning} \ {NoModel} : \E k \in 1 .. Len(ids) : ids[k] = x
  BY LegacyIdsHold
<1>2. p \in Connections
  BY DEF Connections
<1>3. EntriesFor(p) = [j \in 1 .. Len(ids) |-> Entry(ids[j], p)]
  BY DEF EntriesFor
<1> HIDE DEF ids
<1>4. Len(ids) \in Nat /\ \A j \in 1 .. Len(ids) : ids[j] \in EverNamed
  BY <1>1
<1>5. \A j \in 1 .. Len(ids) : Entry(ids[j], p) \in Entries /\ Entry(ids[j], p).name = ids[j]
  BY <1>2, <1>4, EntryIsEntry
<1> DEFINE es == [j \in 1 .. Len(ids) |-> Entry(ids[j], p)]
<1>6. es \in [1 .. Len(ids) -> Entries]
  BY <1>5
<1>7. es \in Seq(Entries) /\ Len(es) = Len(ids) /\ \A j \in 1 .. Len(ids) : es[j].name = ids[j]
  BY <1>4, <1>5, <1>6
<1> HIDE DEF es
<1> QED
  BY <1>1, <1>3, <1>7 DEF es

OneProvider(c, i, f) == Pushed(f[i - 1], EntriesFor(c.providers[i]), {"name", "base"})
MigratedUpto(c, f) ==
  f = [i \in 0 .. Len(c.providers) |-> IF i = 0 THEN c.models ELSE OneProvider(c, i, f)]

LEMMA MigratedIs ==
  ASSUME NEW c
  PROVE  Migrated(c) = (CHOOSE f : MigratedUpto(c, f))[Len(c.providers)]
BY DEF Migrated, MigratedUpto, OneProvider

(* The entries that hold a pointer's name.                                 *)
Holds(models, x) == \E m \in Range(models) : m.name = x

LEMMA MigratedHolds ==
  ASSUME NEW c, c.models \in Seq(Entries), c.providers \in Seq(OldProviders)
  PROVE  /\ Migrated(c) \in Seq(Entries)
         /\ \A i \in 1 .. Len(c.providers) :
              \A x \in {c.providers[i].completion, c.providers[i].reasoning} \ {NoModel} :
                Holds(Migrated(c), x)
<1> DEFINE E == Entries
           ps == c.providers
           l == Len(ps)
           two == {"name", "base"}
           names(i) == {ps[i].completion, ps[i].reasoning} \ {NoModel}
           s == [i \in 1 .. l |-> [x \in Seq(E) |-> Pushed(x, EntriesFor(ps[i]), two)]]
           f == CHOOSE f : MigratedUpto(c, f)
<1>1. l \in Nat /\ DOMAIN ps = 1 .. l /\ \A i \in 1 .. l : ps[i] \in OldProviders
  OBVIOUS
<1>2. ASSUME NEW x \in Seq(E), NEW i \in 1 .. l
      PROVE  /\ Pushed(x, EntriesFor(ps[i]), two) \in Seq(E)
             /\ Range(x) \subseteq Range(Pushed(x, EntriesFor(ps[i]), two))
             /\ \A n \in names(i) : Holds(Pushed(x, EntriesFor(ps[i]), two), n)
  <2> DEFINE es == EntriesFor(ps[i])
  <2>1. /\ es \in Seq(Entries)
        /\ \A n \in names(i) : \E k \in 1 .. Len(es) : es[k].name = n
    BY <1>1, EntriesForHold
  <2> HIDE DEF es
  <2>2. /\ Pushed(x, es, two) \in Seq(E)
        /\ Range(x) \subseteq Range(Pushed(x, es, two))
        /\ \A j \in 1 .. Len(es) : \E m \in Range(Pushed(x, es, two)) : Twin(m, es[j], two)
    BY <2>1, PushedHolds
  <2>3. ASSUME NEW n \in names(i) PROVE Holds(Pushed(x, es, two), n)
    <3>1. PICK k \in 1 .. Len(es) : es[k].name = n
      BY <2>1
    <3>2. PICK m \in Range(Pushed(x, es, two)) : Twin(m, es[k], two)
      BY <2>2
    <3>3. m.name = n
      BY <3>1, <3>2 DEF Twin
    <3> QED
      BY <3>3 DEF Holds
  <2> QED
    BY <2>2, <2>3 DEF es
<1>3. s \in [1 .. l -> [Seq(E) -> Seq(E)]]
  BY <1>2
<1>4. \A x \in Seq(E), i \in 1 .. l : s[i][x] = Pushed(x, EntriesFor(ps[i]), two)
  OBVIOUS
<1> HIDE DEF s
<1>5. PICK g : Walk(g, l, Seq(E), c.models, s)
  <2> DEFINE first == c.models
  <2>1. first \in Seq(E)
    OBVIOUS
  <2> HIDE DEF first
  <2>2. \E g : Walk(g, l, Seq(E), first, s)
    BY <1>1, <1>3, <2>1, WalkExists
  <2> QED
    BY <2>2 DEF first
<1>6. MigratedUpto(c, g)
  <2> DEFINE h == [i \in 0 .. l |-> IF i = 0 THEN c.models ELSE OneProvider(c, i, g)]
  <2>1. ASSUME NEW i \in 0 .. l PROVE g[i] = h[i]
    <3>1. CASE i = 0
      BY <1>5, <3>1 DEF Walk
    <3>2. CASE i # 0
      <4>1. i \in 1 .. l /\ i - 1 \in 0 .. l
        BY <1>1, <3>2
      <4>2. g[i] = s[i][g[i - 1]] /\ g[i - 1] \in Seq(E)
        BY <1>5, <4>1 DEF Walk
      <4>3. g[i] = OneProvider(c, i, g)
        BY <1>4, <4>1, <4>2 DEF OneProvider
      <4> QED
        BY <4>3, <3>2
    <3> QED
      BY <3>1, <3>2
  <2>2. g = [i \in 0 .. l |-> g[i]]
    BY <1>5 DEF Walk
  <2>3. g = h
    BY <2>1, <2>2
  <2> QED
    BY <2>3 DEF MigratedUpto
<1>7. MigratedUpto(c, f)
  BY <1>6
<1> HIDE DEF f
<1>8. f[0] = c.models /\ \A i \in 1 .. l : f[i] = OneProvider(c, i, f)
  <2>1. f = [i \in 0 .. l |-> IF i = 0 THEN c.models ELSE OneProvider(c, i, f)]
    BY <1>7 DEF MigratedUpto
  <2>2. 0 \in 0 .. l /\ \A i \in 1 .. l : i \in 0 .. l /\ i # 0
    BY <1>1
  <2> HIDE DEF l
  <2> QED
    BY <2>1, <2>2
<1> DEFINE Fine(i) == /\ f[i] \in Seq(E)
                      /\ \A j \in 1 .. i : \A n \in names(j) : Holds(f[i], n)
           T == {i \in 0 .. l : Fine(i)}
<1>9. 0 \in T
  <2>1. f[0] \in Seq(E)
    BY <1>8
  <2>2. 0 \in 0 .. l /\ 1 .. 0 = {}
    BY <1>1
  <2> QED
    BY <2>1, <2>2
<1>10. ASSUME NEW i \in 1 .. l, i - 1 \in T PROVE i \in T
  <2>1. Fine(i - 1)
    BY <1>10
  <2>2. \A j \in 1 .. i : j \in 1 .. i - 1 \/ j = i
    OBVIOUS
  <2>3. f[i] = Pushed(f[i - 1], EntriesFor(ps[i]), two)
    BY <1>8 DEF OneProvider
  <2>4. /\ f[i] \in Seq(E)
        /\ Range(f[i - 1]) \subseteq Range(f[i])
        /\ \A n \in names(i) : Holds(f[i], n)
    BY <1>2, <2>1, <2>3
  <2>5. \A n : Holds(f[i - 1], n) => Holds(f[i], n)
    BY <2>4 DEF Holds
  <2>6. \A j \in 1 .. i : \A n \in names(j) : Holds(f[i], n)
    BY <2>1, <2>2, <2>4, <2>5
  <2> QED
    BY <2>4, <2>6
<1>11. l \in T
  <2> HIDE DEF T
  <2>1. l \in Nat
    BY <1>1
  <2> HIDE DEF l
  <2>2. \A i \in 0 .. l : i \in T
    BY <2>1, <1>9, <1>10, Climb
  <2> QED
    BY <2>1, <2>2
<1>12. Migrated(c) = f[l]
  BY MigratedIs DEF f
<1> QED
  BY <1>11, <1>12

-----------------------------------------------------------------------------
(* What is in the file and in the copies.                                  *)
Pointers == EverNamed \cup {NoModel}
Configs ==
  [models : Seq(Entries), providers : LegacyTables \cup {<<>>}, active : {"legacy", "gone"},
   completion : Pointers, reasoning : Pointers, search : Pointers, decide : Pointers]

(* A migrated config has every pointer on a configured name.               *)
Settled(c) ==
  /\ c \in Configs
  /\ c.providers = <<>>
  /\ {c.completion, c.reasoning, c.search} \subseteq Named(c) \cup {NoModel}

(* An old layout as it was written.                                        *)
Unsettled(c) ==
  /\ c \in Configs
  /\ c.models = <<>>
  /\ {c.completion, c.reasoning, c.search} = {NoModel}

ConfigInv ==
  /\ Settled(saved) \/ Unsettled(saved)
  /\ edits \in [Editors -> {NoEdit} \cup [step : {"edit"}, copy : Configs]]
  /\ \A p \in Editors : edits[p].step = "edit" => Settled(edits[p].copy)

LEMMA NamedHere == \A c, x : x \in Named(c) <=> Holds(c.models, x)
BY DEF Named, EntriesOf, Holds

LEMMA NamesAreEver == ASSUME NEW c \in Configs PROVE Named(c) \subseteq EverNamed
<1>1. \A i \in DOMAIN c.models : c.models[i] \in Entries
  BY DEF Configs
<1> QED
  BY <1>1 DEF Named, EntriesOf, Range, Entries

LEMMA GrownIsSettled ==
  ASSUME NEW c, Settled(c), NEW ms \in Seq(Entries),
         \A x : Holds(c.models, x) => Holds(ms, x)
  PROVE  Settled([c EXCEPT !.models = ms]) /\ [c EXCEPT !.models = ms].models = ms
<1> DEFINE d == [c EXCEPT !.models = ms]
<1>1. c \in Configs
  BY DEF Settled
<1>2. /\ d \in Configs /\ d.models = ms /\ d.providers = c.providers
      /\ d.completion = c.completion /\ d.reasoning = c.reasoning /\ d.search = c.search
  BY <1>1 DEF Configs
<1> HIDE DEF d
<1>3. Named(c) \subseteq Named(d)
  BY <1>2, NamedHere
<1>4. Settled(d)
  BY <1>2, <1>3 DEF Settled
<1> QED
  BY <1>2, <1>4 DEF d

LEMMA DefaultsSettle ==
  ASSUME NEW c, Settled(c), NEW compl, NEW reas
  PROVE  Settled(SetDefaults(c, compl, reas)) /\ SetDefaults(c, compl, reas).models = c.models
<1> DEFINE known == Named(c)
           follows == IF c.reasoning \in known THEN c.reasoning ELSE compl
           c1 == IF compl \notin known THEN c
                 ELSE [c EXCEPT !.completion = compl,
                                !.reasoning = IF c.reasoning \in known THEN @ ELSE compl]
<1>1. c \in Configs /\ known \subseteq Pointers
  BY NamesAreEver DEF Settled, Pointers
<1>2. Settled(c1) /\ c1.models = c.models
  <2>1. CASE compl \notin known
    BY <2>1
  <2>2. CASE compl \in known
    <3>1. follows \in known
      BY <2>2
    <3>2. c1 = [c EXCEPT !.completion = compl, !.reasoning = follows]
      BY <2>2
    <3> HIDE DEF follows, c1
    <3>3. /\ c1 \in Configs /\ c1.models = c.models /\ c1.providers = c.providers
          /\ c1.completion = compl /\ c1.reasoning = follows /\ c1.search = c.search
      BY <1>1, <2>2, <3>1, <3>2 DEF Configs
    <3>4. Named(c1) = known
      BY <3>3 DEF Named, EntriesOf
    <3> QED
      BY <2>2, <3>1, <3>3, <3>4 DEF Settled
  <2> QED
    BY <2>1, <2>2
<1>3. SetDefaults(c, compl, reas) = IF reas \in known THEN [c1 EXCEPT !.reasoning = reas] ELSE c1
  BY DEF SetDefaults
<1> HIDE DEF c1
<1>4. CASE reas \in known
  <2> DEFINE d == [c1 EXCEPT !.reasoning = reas]
  <2>1. /\ d \in Configs /\ d.models = c1.models /\ d.providers = c1.providers
        /\ d.completion = c1.completion /\ d.reasoning = reas /\ d.search = c1.search
    BY <1>1, <1>2, <1>4 DEF Configs, Settled
  <2> HIDE DEF d
  <2>2. Named(d) = known /\ Named(c1) = known
    BY <1>2, <2>1 DEF Named, EntriesOf
  <2>3. Settled(d)
    BY <1>2, <1>4, <2>1, <2>2 DEF Settled
  <2> QED
    BY <1>2, <1>3, <1>4, <2>1, <2>3 DEF d
<1> QED
  BY <1>2, <1>3, <1>4

(* Whom the removal of a name leaves.                                      *)
LEMMA RemovedSettles ==
  ASSUME NEW c, Settled(c), NEW n
  PROVE  /\ Settled(RemoveName(c, n))
         /\ EntriesOf(RemoveName(c, n)) = {e \in EntriesOf(c) : e.name # n}
<1> DEFINE ms == Without(c.models, n)
           c1 == [c EXCEPT !.models = ms]
           known == Named(c1)
           compl == IF c.completion \in known THEN c.completion ELSE FirstName(c1)
           reas == IF c.reasoning \in known THEN c.reasoning ELSE compl
           search == IF c.search \in known THEN c.search ELSE NoModel
           d == [c1 EXCEPT !.completion = compl,
                           !.reasoning = IF @ \in known THEN @ ELSE compl,
                           !.search = IF @ \in known THEN @ ELSE NoModel]
<1>1. c \in Configs /\ c.models \in Seq(Entries)
  BY DEF Settled, Configs
<1>2. ms \in Seq(Entries) /\ Range(ms) = {e \in Range(c.models) : e.name # n}
  BY <1>1, WithoutHolds
<1> HIDE DEF ms
<1>3. /\ c1 \in Configs /\ c1.models = ms /\ c1.providers = c.providers
      /\ c1.completion = c.completion /\ c1.reasoning = c.reasoning /\ c1.search = c.search
  BY <1>1, <1>2 DEF Configs
<1>4. RemoveName(c, n) = d
  BY <1>3 DEF RemoveName, ms
<1> HIDE DEF c1
<1>5. FirstName(c1) \in known \cup {NoModel}
  <2>1. CASE c1.models = <<>>
    BY <2>1 DEF FirstName
  <2>2. CASE c1.models # <<>>
    <3>1. 1 \in DOMAIN ms
      BY <1>2, <1>3, <2>2
    <3>2. ms[1].name \in known
      BY <1>3, <3>1 DEF Named, EntriesOf, Range
    <3> QED
      BY <1>3, <2>2, <3>2 DEF FirstName
  <2> QED
    BY <2>1, <2>2
<1>6. known \subseteq Pointers
  BY <1>3, NamesAreEver DEF Pointers
<1>7. {compl, reas, search} \subseteq known \cup {NoModel}
  BY <1>5
<1>8. d = [c1 EXCEPT !.completion = compl, !.reasoning = reas, !.search = search]
  BY <1>3
<1> HIDE DEF known, compl, reas, search, d
<1>9. {compl, reas, search} \subseteq Pointers
  BY <1>6, <1>7 DEF Pointers
<1>10. /\ d \in Configs /\ d.models = ms /\ d.providers = c.providers
       /\ d.completion = compl /\ d.reasoning = reas /\ d.search = search
  BY <1>3, <1>8, <1>9 DEF Configs
<1>11. Named(d) = known /\ EntriesOf(d) = Range(ms)
  BY <1>3, <1>10 DEF Named, EntriesOf, known
<1>12. Settled(d)
  BY <1>7, <1>10, <1>11 DEF Settled
<1> QED
  BY <1>2, <1>4, <1>11, <1>12 DEF EntriesOf

(* The wizard's entries join the others.                                   *)
LEMMA MergedSettles ==
  ASSUME NEW c, Settled(c), NEW es \in Seq(Entries)
  PROVE  Settled(Merge(c, es)) /\ EntriesOf(c) \subseteq EntriesOf(Merge(c, es))
<1> DEFINE ms == Pushed(c.models, es, {"name", "kind", "base", "key"})
<1>1. c.models \in Seq(Entries) /\ c \in Configs
  BY DEF Settled, Configs
<1>2. ms \in Seq(Entries) /\ Range(c.models) \subseteq Range(ms)
  BY <1>1, PushedHolds
<1>3. Merge(c, es) = [c EXCEPT !.models = ms]
  BY DEF Merge
<1> HIDE DEF ms
<1>4. \A x : Holds(c.models, x) => Holds(ms, x)
  BY <1>2 DEF Holds
<1>5. Settled([c EXCEPT !.models = ms]) /\ [c EXCEPT !.models = ms].models = ms
  BY <1>2, <1>4, GrownIsSettled
<1> QED
  BY <1>2, <1>3, <1>5 DEF EntriesOf

(* What a command may leave of the entries it loaded.                      *)
KeptIn(c, d) ==
  \A e \in EntriesOf(c) :
    \/ e \in EntriesOf(d)
    \/ e.name \notin Named(d)
    \/ /\ e.kind = LoginBackend.kind
       /\ [e EXCEPT !.base = LoginBackend.base] \in EntriesOf(d)

(* The login's entry is refreshed where it is, or joins the others.        *)
LEMMA LoginSettles ==
  ASSUME NEW c, Settled(c), NEW n \in ModelNames
  PROVE  Settled(LoginEntry(c, n)) /\ KeptIn(c, LoginEntry(c, n))
<1> DEFINE e == Entry(n, LoginBackend)
           ms == c.models
           found == {i \in DOMAIN c.models : c.models[i].kind = e.kind /\ c.models[i].name = n}
           at == Min(found)
           c1 == IF found = {} THEN [c EXCEPT !.models = Append(@, e)]
                 ELSE [c EXCEPT !.models[at].base = e.base]
<1>1. c \in Configs /\ ms \in Seq(Entries) /\ DOMAIN ms = 1 .. Len(ms) /\ Len(ms) \in Nat
  BY DEF Settled, Configs
<1>2. e \in Entries /\ e.base = LoginBackend.base /\ e.kind = LoginBackend.kind
  <2>1. n \in EverNamed /\ LoginBackend \in Connections
    BY DEF EverNamed, Connections
  <2>2. e \in Entries
    BY <2>1, EntryIsEntry
  <2> QED
    BY <2>2 DEF Entry
<1>3. LoginEntry(c, n) = SetDefaults(c1, n, n)
  BY DEF LoginEntry
<1> HIDE DEF e
<1>4. Settled(c1) /\ KeptIn(c, c1)
  <2>1. CASE found = {}
    <3> DEFINE new == Append(ms, e)
    <3>1. new \in Seq(Entries) /\ Range(new) = Range(ms) \cup {e}
      BY <1>1, <1>2, RangeOfAppend
    <3>2. c1 = [c EXCEPT !.models = new]
      BY <2>1
    <3> HIDE DEF new, c1
    <3>3. \A x : Holds(ms, x) => Holds(new, x)
      BY <3>1 DEF Holds
    <3>4. Settled([c EXCEPT !.models = new]) /\ [c EXCEPT !.models = new].models = new
      BY <3>1, <3>3, GrownIsSettled
    <3>5. EntriesOf(c) \subseteq EntriesOf(c1)
      BY <3>1, <3>2, <3>4 DEF EntriesOf
    <3> QED
      BY <3>2, <3>4, <3>5 DEF KeptIn
  <2>2. CASE found # {}
    <3>1. at \in DOMAIN ms /\ ms[at].kind = e.kind /\ ms[at].name = n
      <4>1. found \in SUBSET Nat
        BY <1>1
      <4>2. at \in found
        BY <2>2, <4>1, MinIsLeast
      <4> QED
        BY <4>2
    <3> HIDE DEF at
    <3> DEFINE fresh == [ms[at] EXCEPT !.base = e.base]
               new == [ms EXCEPT ![at] = fresh]
    <3>2. c1 = [c EXCEPT !.models = new]
      BY <2>2
    <3>3. ms[at] \in Entries /\ e.base \in {b.base : b \in Connections}
      <4>1. ms[at] \in Entries
        BY <1>1, <3>1
      <4>2. e.base \in {b.base : b \in Connections}
        BY <1>2 DEF Entries
      <4> QED
        BY <4>1, <4>2
    <3>4. fresh \in Entries /\ fresh.name = ms[at].name
      BY <3>3 DEF Entries
    <3> HIDE DEF fresh
    <3>5. new \in Seq(Entries) /\ DOMAIN new = DOMAIN ms
      BY <1>1, <3>1, <3>4
    <3>6. new[at] = fresh /\ \A i \in DOMAIN ms : i # at => new[i] = ms[i]
      BY <3>1
    <3> HIDE DEF new, c1
    <3>7. \A i \in DOMAIN ms : ms[i].name = new[i].name
      BY <3>4, <3>6
    <3>8. \A x : Holds(ms, x) => Holds(new, x)
      BY <3>5, <3>7 DEF Holds, Range
    <3>9. Settled([c EXCEPT !.models = new]) /\ [c EXCEPT !.models = new].models = new
      BY <3>5, <3>8, GrownIsSettled
    <3>10. ASSUME NEW x \in EntriesOf(c)
           PROVE  \/ x \in EntriesOf(c1)
                  \/ /\ x.kind = LoginBackend.kind
                     /\ [x EXCEPT !.base = LoginBackend.base] \in EntriesOf(c1)
      <4>1. PICK i \in DOMAIN ms : x = ms[i]
        BY <3>10 DEF EntriesOf, Range
      <4>2. EntriesOf(c1) = Range(new) /\ new[i] \in Range(new)
        BY <3>2, <3>5, <3>9, <4>1 DEF EntriesOf, Range
      <4>3. CASE i = at
        <5>1. new[i] = [x EXCEPT !.base = LoginBackend.base]
          BY <1>2, <3>6, <4>1, <4>3 DEF fresh
        <5> QED
          BY <1>2, <3>1, <4>1, <4>2, <4>3, <5>1
      <4>4. CASE i # at
        BY <3>6, <4>1, <4>2, <4>4
      <4> QED
        BY <4>3, <4>4
    <3> QED
      BY <3>2, <3>9, <3>10 DEF KeptIn
  <2> QED
    BY <2>1, <2>2
<1> HIDE DEF c1
<1>5. Settled(SetDefaults(c1, n, n)) /\ SetDefaults(c1, n, n).models = c1.models
  BY <1>4, DefaultsSettle
<1> QED
  BY <1>3, <1>4, <1>5 DEF KeptIn, EntriesOf, Named

(* The order the wizard hands the picked models on in.                     *)
LEMMA PickedAreEntries ==
  ASSUME NEW picked \in SUBSET ModelNames, NEW b \in Backends
  PROVE  [i \in 1 .. Cardinality(picked) |-> Entry(SetToSeq(picked)[i], b)] \in Seq(Entries)
<1> DEFINE l == Cardinality(picked)
           order == SetToSeq(picked)
           es == [i \in 1 .. l |-> Entry(order[i], b)]
<1>1. IsFiniteSet(picked)
  BY FS_Subset, ConfigAssumption
<1>2. l \in Nat /\ ExistsBijection(1 .. l, picked)
  BY <1>1, FS_CardinalityType
<1>3. \E f \in [1 .. l -> picked] : IsInjective(f)
  BY <1>2 DEF ExistsBijection, Bijection, Injection, IsInjective
<1>4. order \in [1 .. l -> picked]
  BY <1>3 DEF SetToSeq
<1>5. \A i \in 1 .. l : Entry(order[i], b) \in Entries
  <2>1. \A i \in 1 .. l : order[i] \in EverNamed
    BY <1>4 DEF EverNamed
  <2>2. b \in Connections
    BY DEF Connections
  <2> HIDE DEF order
  <2> QED
    BY <2>1, <2>2, EntryIsEntry
<1> HIDE DEF l, order
<1>6. es \in [1 .. l -> Entries]
  BY <1>5
<1>7. es \in Seq(Entries)
  BY <1>2, <1>6
<1> QED
  BY <1>7 DEF l, order

(* What the active provider says is among the migrated entries.            *)
LEMMA ActiveIsMigrated ==
  ASSUME NEW c \in Configs, NEW pointer \in {"completion", "reasoning"}
  PROVE  OfActive(c, pointer) = NoModel \/ Holds(Migrated(c), OfActive(c, pointer))
<1> DEFINE ps == c.providers
           active == {i \in DOMAIN ps : ps[i].name = c.active}
           at == Min(active)
<1>1. ps \in Seq(OldProviders)
  <2>1. CASE ps = <<>>
    BY <2>1
  <2>2. CASE ps \in LegacyTables
    <3>1. ps \in Seq(Range(ps)) /\ Range(ps) \subseteq OldProviders
      BY <2>2, ConfigAssumption DEF OldProviders
    <3> HIDE DEF ps
    <3> QED
      BY <3>1
  <2> QED
    BY <2>1, <2>2 DEF Configs
<1>2. OfActive(c, pointer) = IF active = {} THEN NoModel ELSE ps[at][pointer]
  BY DEF OfActive
<1>3. CASE active # {}
  <2>1. at \in 1 .. Len(ps)
    <3>1. DOMAIN ps = 1 .. Len(ps) /\ active \in SUBSET Nat
      BY <1>1
    <3>2. at \in active
      BY <1>3, <3>1, MinIsLeast
    <3> QED
      BY <3>1, <3>2
  <2>2. c.models \in Seq(Entries)
    BY DEF Configs
  <2>3. \A x \in {ps[at].completion, ps[at].reasoning} \ {NoModel} : Holds(Migrated(c), x)
    BY <1>1, <2>1, <2>2, MigratedHolds
  <2> HIDE DEF at
  <2>4. ps[at][pointer] \in {ps[at].completion, ps[at].reasoning}
    OBVIOUS
  <2> QED
    BY <1>2, <1>3, <2>3, <2>4
<1> QED
  BY <1>2, <1>3

LEMMA MigrateSettles ==
  ASSUME NEW c, Settled(c) \/ Unsettled(c)
  PROVE  Settled(Migrate(c)) /\ (c.providers = <<>> => Migrate(c) = c)
<1>1. c \in Configs
  BY DEF Settled, Unsettled
<1>2. CASE c.providers = <<>>
  <2>1. Migrate(c) = c
    BY <1>2 DEF Migrate
  <2>2. Settled(c)
    BY <1>2 DEF Settled, Unsettled
  <2> QED
    BY <2>1, <2>2
<1>3. CASE c.providers # <<>>
  <2> DEFINE ms == Migrated(c)
             first == OfActive(c, "completion")
             second == OfActive(c, "reasoning")
             compl == Else(c.completion, first)
             reas == Else(Else(c.reasoning, second), compl)
             d == [c EXCEPT !.models = ms, !.completion = compl, !.reasoning = reas,
                            !.providers = <<>>]
  <2>1. c.completion = NoModel /\ c.reasoning = NoModel /\ c.search = NoModel
    BY <1>3 DEF Settled, Unsettled
  <2>2. ms \in Seq(Entries)
    <3>1. c.providers \in LegacyTables /\ c.models \in Seq(Entries)
      BY <1>1, <1>3 DEF Configs
    <3>2. c.providers \in Seq(Range(c.providers)) /\ Range(c.providers) \subseteq OldProviders
      BY <3>1, ConfigAssumption DEF OldProviders
    <3>3. c.providers \in Seq(OldProviders)
      BY <3>2
    <3> QED
      BY <3>1, <3>3, MigratedHolds
  <2>3. /\ first = NoModel \/ Holds(ms, first)
        /\ second = NoModel \/ Holds(ms, second)
    BY <1>1, ActiveIsMigrated
  <2>4. Migrate(c) = d
    BY <1>3 DEF Migrate
  <2> HIDE DEF ms, first, second
  <2>5. /\ compl = NoModel \/ Holds(ms, compl)
        /\ reas = NoModel \/ Holds(ms, reas)
    BY <2>1, <2>3 DEF Else
  <2> HIDE DEF compl, reas
  <2>6. \A x : Holds(ms, x) => x \in EverNamed
    <3>1. \A i \in DOMAIN ms : ms[i] \in Entries
      BY <2>2
    <3> QED
      BY <3>1 DEF Holds, Range, Entries
  <2>7. compl \in Pointers /\ reas \in Pointers /\ <<>> \in LegacyTables \cup {<<>>}
    BY <2>5, <2>6 DEF Pointers
  <2>8. /\ d \in Configs /\ d.models = ms /\ d.providers = <<>>
        /\ d.completion = compl /\ d.reasoning = reas /\ d.search = NoModel
    BY <1>1, <2>1, <2>2, <2>7 DEF Configs
  <2> HIDE DEF d
  <2>9. {d.completion, d.reasoning, d.search} \subseteq Named(d) \cup {NoModel}
    BY <2>5, <2>8, NamedHere
  <2>10. Settled(d)
    BY <2>8, <2>9 DEF Settled
  <2> QED
    BY <1>3, <2>4, <2>10
<1> QED
  BY <1>2, <1>3

-----------------------------------------------------------------------------
(* The commands.                                                           *)

Copies == {NoEdit} \cup [step : {"edit"}, copy : Configs]

LEMMA EditShape ==
  ASSUME ConfigInv, NEW p \in Editors, edits[p].step = "edit"
  PROVE  Settled(edits[p].copy)
BY DEF ConfigInv

(* A copy that is settled and keeps its entries may be stored.             *)
LEMMA StoreKeeps ==
  ASSUME ConfigInv, NEW p \in Editors, NEW c, Store(p, c), Settled(c),
         KeptIn(edits[p].copy, c)
  PROVE  ConfigInv' /\ KeepsConnections
<1>1. saved' = c /\ edits' = [edits EXCEPT ![p] = NoEdit] /\ NoEdit.step = "idle"
  BY DEF Store, NoEdit
<1>2. edits' \in [Editors -> Copies] /\ \A q \in Editors : q # p => edits'[q] = edits[q]
  BY <1>1 DEF ConfigInv, Copies
<1>3. edits'[p] = NoEdit
  BY <1>1 DEF ConfigInv
<1>4. ConfigInv'
  BY <1>1, <1>2, <1>3 DEF ConfigInv, Copies
<1>5. ASSUME NEW q \in Editors, edits[q].step = "edit", edits'[q].step = "idle"
      PROVE  q = p
  BY <1>2, <1>5
<1>6. EntriesOf(saved') = EntriesOf(c) /\ Named(saved') = Named(c)
  BY <1>1
<1>7. KeepsConnections
  BY <1>5, <1>6 DEF KeepsConnections, KeptIn
<1> QED
  BY <1>4, <1>7

LEMMA LoadKeeps ==
  ASSUME ConfigInv, NEW p \in Editors, LoadConfig(p)
  PROVE  ConfigInv' /\ KeepsConnections
<1> DEFINE m == Migrate(saved)
           e == [step |-> "edit", copy |-> m]
<1>1. Settled(m) /\ (saved.providers = <<>> => m = saved)
  BY MigrateSettles DEF ConfigInv
<1>2. edits' = [edits EXCEPT ![p] = e] /\ saved' = m
  BY <1>1 DEF LoadConfig
<1> HIDE DEF m
<1>3. m \in Configs
  BY <1>1 DEF Settled
<1>4. e \in Copies /\ e.step = "edit" /\ e.copy = m
  BY <1>3 DEF Copies
<1> HIDE DEF e
<1>5. /\ edits' \in [Editors -> Copies] /\ edits'[p] = e
      /\ \A q \in Editors : q # p => edits'[q] = edits[q]
  BY <1>2, <1>4 DEF ConfigInv, Copies
<1>6. ConfigInv'
  BY <1>1, <1>2, <1>4, <1>5 DEF ConfigInv, Copies
<1>7. ASSUME NEW q \in Editors, edits[q].step = "edit", edits'[q].step = "idle"
      PROVE  FALSE
  BY <1>4, <1>5, <1>7
<1> QED
  BY <1>6, <1>7 DEF KeepsConnections

LEMMA AddKeeps ==
  ASSUME ConfigInv, NEW p \in Editors, AddProvider(p)
  PROVE  ConfigInv' /\ KeepsConnections
<1>1. edits[p].step = "edit"
  BY DEF AddProvider
<1> DEFINE copy == edits[p].copy
           Taken(b, picked) == [i \in 1 .. Cardinality(picked) |-> Entry(SetToSeq(picked)[i], b)]
<1>2. Settled(copy)
  BY <1>1, EditShape
<1>3. PICK b \in Backends, picked \in (SUBSET ModelNames) \ {{}} :
      \E answered \in SUBSET {n \in picked : MayAnswer(Entry(n, b))} :
        /\ edits[p].step = "edit"
        /\ LET offered == IF answered = {} THEN picked ELSE answered
               c == Merge(copy, Taken(b, picked))
           IN  \/ c.completion # NoModel /\ Store(p, c)
               \/ \E compl, reas \in offered :
                    LET d == SetDefaults(c, compl, reas)
                    IN  \E decide \in DecideCandidates(d) \cup {d.decide} :
                          Store(p, [d EXCEPT !.decide = decide])
  BY DEF AddProvider
<1> DEFINE es == Taken(b, picked)
           c == Merge(copy, es)
<1>4. es \in Seq(Entries)
  BY PickedAreEntries
<1> HIDE DEF es, copy
<1>5. Settled(c) /\ EntriesOf(copy) \subseteq EntriesOf(c)
  BY <1>2, <1>4, MergedSettles
<1> HIDE DEF c
<1>6. CASE Store(p, c)
  BY <1>5, <1>6, StoreKeeps DEF KeptIn, copy
<1>7. CASE \E compl, reas \in ModelNames :
             LET d == SetDefaults(c, compl, reas)
             IN  \E decide \in DecideCandidates(d) \cup {d.decide} :
                   Store(p, [d EXCEPT !.decide = decide])
  <2>1. PICK compl \in ModelNames, reas \in ModelNames :
          LET d == SetDefaults(c, compl, reas)
          IN  \E decide \in DecideCandidates(d) \cup {d.decide} :
                Store(p, [d EXCEPT !.decide = decide])
    BY <1>7
  <2> DEFINE d == SetDefaults(c, compl, reas)
  <2>2. Settled(d) /\ d.models = c.models
    BY <1>5, DefaultsSettle
  <2>3. PICK decide \in DecideCandidates(d) \cup {d.decide} : Store(p, [d EXCEPT !.decide = decide])
    BY <2>1
  <2> DEFINE f == [d EXCEPT !.decide = decide]
  <2> HIDE DEF d
  <2>4. d \in Configs /\ decide \in Pointers
    <3>1. d \in Configs
      BY <2>2 DEF Settled
    <3>2. DecideCandidates(d) \subseteq EverNamed
      BY <3>1, NamesAreEver DEF DecideCandidates
    <3> QED
      BY <3>1, <3>2 DEF Pointers, Configs
  <2>5. /\ f \in Configs /\ f.models = d.models /\ f.providers = d.providers
        /\ f.completion = d.completion /\ f.reasoning = d.reasoning /\ f.search = d.search
    BY <2>4 DEF Configs
  <2>6. Store(p, f)
    BY <2>3
  <2> HIDE DEF f
  <2>7. Named(f) = Named(d) /\ EntriesOf(f) = EntriesOf(c)
    BY <2>2, <2>5 DEF Named, EntriesOf
  <2>8. Settled(f)
    BY <2>2, <2>5, <2>7 DEF Settled
  <2>9. KeptIn(edits[p].copy, f)
    BY <1>5, <2>7 DEF KeptIn, copy
  <2> QED
    BY <2>6, <2>8, <2>9, StoreKeeps
<1> QED
  <2>1. PICK answered \in SUBSET {n \in picked : MayAnswer(Entry(n, b))} :
          \/ Store(p, c)
          \/ \E compl, reas \in IF answered = {} THEN picked ELSE answered :
               LET d == SetDefaults(c, compl, reas)
               IN  \E decide \in DecideCandidates(d) \cup {d.decide} :
                     Store(p, [d EXCEPT !.decide = decide])
    BY <1>3 DEF c, es
  <2>2. (IF answered = {} THEN picked ELSE answered) \subseteq ModelNames
    OBVIOUS
  <2> QED
    BY <1>6, <1>7, <2>1, <2>2

LEMMA OthersKeep ==
  ASSUME ConfigInv, NEW p \in Editors,
         LoginStores(p) \/ RemoveProvider(p) \/ SetDefaultModel(p) \/ GiveUp(p)
  PROVE  ConfigInv' /\ KeepsConnections
<1> DEFINE c == edits[p].copy
<1>1. edits[p].step = "edit"
  BY DEF LoginStores, RemoveProvider, SetDefaultModel, GiveUp
<1>2. Settled(c)
  BY <1>1, EditShape
<1>3. CASE LoginStores(p)
  <2>1. KeptIn(c, c)
    BY DEF KeptIn
  <2>2. CASE Store(p, c)
    BY <1>2, <2>1, <2>2, StoreKeeps
  <2>3. CASE \E n \in ModelNames : Store(p, LoginEntry(c, n))
    <3>1. PICK n \in ModelNames : Store(p, LoginEntry(c, n))
      BY <2>3
    <3>2. Settled(LoginEntry(c, n)) /\ KeptIn(c, LoginEntry(c, n))
      BY <1>2, LoginSettles
    <3> QED
      BY <3>1, <3>2, StoreKeeps
  <2> QED
    BY <1>3, <2>2, <2>3 DEF LoginStores
<1>4. CASE RemoveProvider(p)
  <2>1. PICK n \in Named(c) : Store(p, RemoveName(c, n))
    BY <1>4 DEF RemoveProvider
  <2> DEFINE d == RemoveName(c, n)
  <2>2. Settled(d) /\ EntriesOf(d) = {e \in EntriesOf(c) : e.name # n}
    BY <1>2, RemovedSettles
  <2> HIDE DEF d
  <2>3. \A e \in EntriesOf(c) : e \in EntriesOf(d) \/ e.name \notin Named(d)
    BY <2>2 DEF Named
  <2>4. KeptIn(c, d)
    BY <2>3 DEF KeptIn
  <2> QED
    BY <2>1, <2>2, <2>4, StoreKeeps DEF d
<1>5. CASE SetDefaultModel(p)
  <2>1. PICK n \in Named(c) : Store(p, SetDefaults(c, n, n))
    BY <1>5 DEF SetDefaultModel
  <2> DEFINE d == SetDefaults(c, n, n)
  <2>2. Settled(d) /\ d.models = c.models
    BY <1>2, DefaultsSettle
  <2> HIDE DEF d
  <2>3. KeptIn(c, d)
    BY <2>2 DEF KeptIn, EntriesOf
  <2> QED
    BY <2>1, <2>2, <2>3, StoreKeeps DEF d
<1>6. CASE GiveUp(p)
  <2>1. saved' = saved /\ edits' = [edits EXCEPT ![p] = NoEdit] /\ NoEdit.step = "idle"
    BY <1>6 DEF GiveUp, NoEdit
  <2>2. edits' \in [Editors -> Copies] /\ \A q \in Editors : q # p => edits'[q] = edits[q]
    BY <2>1 DEF ConfigInv, Copies
  <2>3. edits'[p] = NoEdit
    BY <2>1 DEF ConfigInv
  <2> QED
    BY <2>1, <2>2, <2>3 DEF ConfigInv, Copies, KeepsConnections
<1> QED
  BY <1>3, <1>4, <1>5, <1>6

LEMMA ByHandKeeps ==
  ASSUME ConfigInv, SetSearchByHand
  PROVE  ConfigInv' /\ KeepsConnections
<1>1. saved.providers = <<>> /\ edits' = edits /\ \A p \in Editors : edits[p].step = "idle"
  BY DEF SetSearchByHand
<1>2. PICK n \in Named(saved) : saved' = [saved EXCEPT !.search = n]
  BY DEF SetSearchByHand
<1>3. Settled(saved) /\ saved \in Configs
  BY <1>1 DEF ConfigInv, Settled, Unsettled
<1>4. n \in Pointers
  BY <1>2, <1>3, NamesAreEver DEF Pointers
<1>5. /\ saved' \in Configs /\ saved'.models = saved.models
      /\ saved'.providers = saved.providers /\ saved'.completion = saved.completion
      /\ saved'.reasoning = saved.reasoning /\ saved'.search = n
  BY <1>2, <1>3, <1>4 DEF Configs
<1>6. Named(saved') = Named(saved)
  BY <1>5 DEF Named, EntriesOf
<1>7. Settled(saved')
  BY <1>2, <1>3, <1>5, <1>6 DEF Settled
<1> QED
  BY <1>1, <1>7 DEF ConfigInv, KeepsConnections

LEMMA ConfigKeeps ==
  ASSUME ConfigInv, [ConfigNext]_configVars
  PROVE  ConfigInv' /\ [KeepsConnections]_configVars
<1>1. CASE UNCHANGED configVars
  BY <1>1 DEF configVars, ConfigInv, Settled, Unsettled, Named, EntriesOf
<1>2. CASE ConfigNext
  BY <1>2, LoadKeeps, AddKeeps, OthersKeep, ByHandKeeps DEF ConfigNext
<1> QED
  BY <1>1, <1>2

LEMMA ConfigInitially == ASSUME ConfigInit PROVE ConfigInv
<1>1. Unsettled(saved)
  <2>1. NoModel \in Pointers /\ <<>> \in Seq(Entries)
    BY DEF Pointers
  <2> QED
    BY <2>1 DEF ConfigInit, Unsettled, Configs
<1>2. edits = [p \in Editors |-> NoEdit] /\ NoEdit.step = "idle"
  BY DEF ConfigInit, NoEdit
<1> QED
  BY <1>1, <1>2 DEF ConfigInv

(* Whatever commands edit the config file, and however their loads and     *)
(* stores interleave, its pointers name configured models (set_defaults,   *)
(* remove_provider, handle_klava_login, migrate_providers).                *)
THEOREM DefaultsAreConfigured == ConfigSpec => []DefaultsConfigured
<1>1. ConfigInit => ConfigInv
  BY ConfigInitially
<1>2. ConfigInv /\ [ConfigNext]_configVars => ConfigInv'
  BY ConfigKeeps
<1>3. ConfigInv => DefaultsConfigured
  BY DEF ConfigInv, Settled, Unsettled, DefaultsConfigured
<1> QED
  BY <1>1, <1>2, <1>3, PTL DEF ConfigSpec

(* No command loses a connection it loaded (merge, handle_klava_login).    *)
THEOREM ConnectionsAreKept == ConfigSpec => ConnectionsKept
<1>1. ConfigInit => ConfigInv
  BY ConfigInitially
<1>2. ConfigInv /\ [ConfigNext]_configVars => ConfigInv' /\ [KeepsConnections]_configVars
  BY ConfigKeeps
<1> QED
  BY <1>1, <1>2, PTL DEF ConfigSpec, ConnectionsKept

=============================================================================
