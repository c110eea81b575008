------------------------------ MODULE Requests ------------------------------
(***************************************************************************)
(* What happens to a request, side by side: the handlers (Pipeline), the   *)
(* converters that the streamed answer of an OpenAI-style client goes      *)
(* through (ClientStream), and the extensions klava brings along           *)
(* (BundledExtensions).  A converter is created for one answer, and a      *)
(* bundled extension is a process of its own: neither shares state with    *)
(* the handlers.  So a behaviour follows one of the three, the subject,    *)
(* and the others stay as they began.                                      *)
(***************************************************************************)
EXTENDS MCPipeline, ClientStream, BundledExtensions, MCBundled

VARIABLE subject

requestVars == <<subject, vars, streamVars, extVars>>

(* The values an idle subject has.                                         *)
PipelineRests == /\ c = Base /\ client = Simple("openai") /\ cursor = 0
                 /\ pc = "received" /\ entry = 0
                 /\ chat = [messages |-> << >>, effort |-> NoLevel]
                 /\ rounds = 0 /\ answer = NoAnswer /\ searched = 0 /\ out = Nothing
                 /\ sends = << >> /\ engines = NoSearch /\ served = << >>

StreamRests == StreamInit /\ api = "chat"

ExtensionsRest == /\ settings = "none" /\ asked = << >> /\ messages = << >>
                  /\ at = "compress" /\ copy = << >> /\ todo = {} /\ clock = 0
                  /\ late = 0 /\ loaded = FALSE /\ decided = "none" /\ spent = 0
                  /\ missed = {}

RequestsInit ==
  \/ subject = "pipeline" /\ Init /\ StreamRests /\ ExtensionsRest
  \/ subject = "stream" /\ PipelineRests /\ StreamInit /\ ExtensionsRest
  \/ subject = "extensions" /\ PipelineRests /\ StreamRests /\ ExtInit

PipelineStep ==
  subject = "pipeline" /\ Next /\ UNCHANGED <<subject, streamVars, extVars>>
StreamStep ==
  subject = "stream" /\ StreamNext /\ UNCHANGED <<subject, vars, extVars>>
ExtensionStep ==
  subject = "extensions" /\ ExtNext /\ UNCHANGED <<subject, vars, streamVars>>

RequestsNext == PipelineStep \/ StreamStep \/ ExtensionStep

(* Every wait of a handler is bounded by the client's read timeout.        *)
RequestsSpec == RequestsInit /\ [][RequestsNext]_requestVars /\ WF_requestVars(PipelineStep)

-----------------------------------------------------------------------------
(* Every request a handler received is answered.                           *)
HandlerAnswers == [](subject = "pipeline" /\ pc = "received" => <>(pc = "done"))
=============================================================================
