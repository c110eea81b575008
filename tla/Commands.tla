------------------------------ MODULE Commands ------------------------------
(***************************************************************************)
(* What the commands of the klava binary do to the files and processes on  *)
(* a machine, side by side: extensions (ExtensionFiles), sign-in (SignIn), *)
(* the config file (ProviderConfig), the background proxy (Service) and    *)
(* the download of the compressor's model (ModelFetch).  Each has files of *)
(* its own; a behaviour follows one of them, the subject, and the others   *)
(* stay as they began.                                                     *)
(***************************************************************************)
EXTENDS MCExtensionFiles, SignIn, MCProviderConfig, Service, ModelFetch, TLC

VARIABLE subject

commandVars == <<subject, vars, signVars, configVars, serviceVars, fetchVars>>

(* The values an idle subject has.                                         *)
FilesRest == Init /\ \A n \in Names : bin[n] = NoFile
SignInRests == SignInit /\ provider = "qwen" /\ policy = "omits"
ConfigRests == ConfigInit /\ saved.providers = << >> /\ saved.active = "gone"
                 /\ keyInEnv
ServiceRests == ServiceInit /\ manager = "none" /\ foreign = "nothing"
                  /\ disk = (CHOOSE m \in Models : TRUE)

(* Bounds on the files: of the extensions all are installed at first or    *)
(* none, and where two commands at once are about an extension no source   *)
(* moves.                                                                  *)
AllOrNone == \A m, n \in Names : bin[m] = bin[n]
SourcesStay == contested # {} => \A n \in Names : upstream[n] = 1

CommandsInit ==
  /\ subject \in {"files", "sign-in", "config", "service", "fetch"}
  /\ IF subject = "files" THEN Init /\ AllOrNone ELSE FilesRest
  /\ IF subject = "sign-in" THEN SignInit ELSE SignInRests
  /\ IF subject = "config" THEN ConfigInit ELSE ConfigRests
  /\ IF subject = "service" THEN ServiceInit ELSE ServiceRests
  /\ FetchInit

FilesStep ==
  subject = "files" /\ Next /\ SourcesStay'
    /\ UNCHANGED <<subject, signVars, configVars, serviceVars, fetchVars>>
SignInStep ==
  subject = "sign-in" /\ SignNext
    /\ UNCHANGED <<subject, vars, configVars, serviceVars, fetchVars>>
ConfigStep ==
  subject = "config" /\ ConfigNext
    /\ UNCHANGED <<subject, vars, signVars, serviceVars, fetchVars>>
ServiceStep ==
  subject = "service" /\ ServiceNext
    /\ UNCHANGED <<subject, vars, signVars, configVars, fetchVars>>
FetchStep ==
  subject = "fetch" /\ FetchNext
    /\ UNCHANGED <<subject, vars, signVars, configVars, serviceVars>>

CommandsNext == FilesStep \/ SignInStep \/ ConfigStep \/ ServiceStep \/ FetchStep

CommandsSpec == CommandsInit /\ [][CommandsNext]_commandVars

(* Processes and requests are told apart by what they do alone.            *)
Alike == Permutations(Procs) \cup Permutations(Requests)

=============================================================================
