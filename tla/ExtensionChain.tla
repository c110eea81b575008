--------------------------- MODULE ExtensionChain ---------------------------
(***************************************************************************)
(* The request side of the extension runtime, for ONE client request: the  *)
(* chain of enabled extensions in name order, the two things an extension  *)
(* may ask the host to pay for (a decide call, a nested model call), and   *)
(* the handler that sends what the chain leaves.                           *)
(*                                                                         *)
(* An extension is a foreign process, so it may answer anything: what it   *)
(* answers is a free choice.  What the host does with the answer is the    *)
(* program.  The chain keeps all of its state in one call frame, so        *)
(* concurrent client requests do not meet here and one request is enough.  *)
(***************************************************************************)
EXTENDS Naturals, Sequences, FiniteSets

CONSTANTS
  NumExt,             (* how many extensions are enabled                   *)
  MAX_DECIDE_ROUNDS,  (* decide answers one extension may get (2 in code)  *)
  MaxMessages         (* bound: messages an extension writes in one reply  *)

ASSUME ChainAssumption == /\ NumExt \in Nat \ {0}
                          /\ MAX_DECIDE_ROUNDS \in Nat \ {0}
                          /\ MaxMessages \in Nat

Exts   == 1 .. NumExt       \* position in name order
Client == 0                 \* author of the messages the client sent

(* A payload is the sequence of the authors of its messages.  One without  *)
(* messages may be a request with an empty list or no request at all.      *)
NoMessages == << >>

VARIABLES
  requireDecide,   (* Config::require_decide_for_nested_calls              *)
  failClosed,      (* the extensions whose manifest says fail_closed       *)
  cur,             (* the extension of the for loop; NumExt + 1 after it   *)
  stage,           (* what on_request is awaiting                          *)
  payload,
  decideResult,    (* the Option<DecideResult> of this extension's loop    *)
  decideRounds,
  nestedCallsUsed,
  status,          (* what became of the client's request                  *)
  asked,           (* history: decide calls made for each extension        *)
  lastAnswer,      (* history: the last decide answer each one was given   *)
  spent,           (* history: nested calls sent upstream for each one     *)
  fate             (* history: how the chain left each extension           *)

config == <<requireDecide, failClosed>>
local  == <<decideResult, decideRounds>>
paid   == <<asked, lastAnswer, spent, nestedCallsUsed>>
chainVars   == <<config, cur, stage, payload, local, paid, status, fate>>

Phases   == {"run", "ask", "nested", "over"}
Statuses == {"pending", "sent", "canned", "rejected"}
Fates    == {"pending", "passed", "edited", "replaced", "failed", "denied", "refused"}
Answers  == {"none", "no", "yes"}

ChainTypeOK ==
  /\ requireDecide \in BOOLEAN
  /\ failClosed \in SUBSET Exts
  /\ cur \in 1 .. NumExt + 1
  /\ stage \in Phases
  /\ payload \in Seq(0 .. NumExt)
  /\ decideResult \in Answers
  /\ decideRounds \in 0 .. MAX_DECIDE_ROUNDS
  /\ nestedCallsUsed \in Nat
  /\ status \in Statuses
  /\ asked \in [Exts -> Nat]
  /\ lastAnswer \in [Exts -> Answers]
  /\ spent \in [Exts -> Nat]
  /\ fate \in [Exts -> Fates]

ChainInit ==
  /\ requireDecide \in BOOLEAN
  /\ failClosed \in SUBSET Exts
  /\ cur = 1
  /\ stage = "run"
  /\ payload = <<Client>>
  /\ decideResult = "none"
  /\ decideRounds = 0
  /\ nestedCallsUsed = 0
  /\ status = "pending"
  /\ asked = [e \in Exts |-> 0]
  /\ lastAnswer = [e \in Exts |-> "none"]
  /\ spent = [e \in Exts |-> 0]
  /\ fate = [e \in Exts |-> "pending"]

-----------------------------------------------------------------------------
(* Leaving the loop of one extension, in one of three ways.                *)

(* Mutation of NextExtension: the answer of one extension's decide call    *)
(* is still there when the next extension runs.                            *)
NextExtensionKeepsDecide(f) ==
  /\ fate' = [fate EXCEPT ![cur] = f]
  /\ cur' = cur + 1
  /\ stage' = "run"
  /\ decideRounds' = 0
  /\ UNCHANGED <<config, status, decideResult>>

(* break: the next extension starts with fresh loop locals.                *)
NextExtension(f) ==
  /\ fate' = [fate EXCEPT ![cur] = f]
  /\ cur' = cur + 1
  /\ stage' = "run"
  /\ decideResult' = "none"
  /\ decideRounds' = 0
  /\ UNCHANGED <<config, status>>

(* return Err: the handler answers the client with an error.               *)
Reject(f) ==
  /\ fate' = [fate EXCEPT ![cur] = f]
  /\ stage' = "over"
  /\ status' = "rejected"
  /\ UNCHANGED <<config, cur, local>>

Running == stage = "run" /\ cur \in Exts

(* Mutation of ExtensionFails: what a failing extension printed is used.   *)
ExtensionFailsDirty ==
  /\ Running
  /\ payload' = Append(payload, cur)
  /\ IF cur \in failClosed THEN Reject("failed") ELSE NextExtension("failed")
  /\ UNCHANGED paid

(* A crash, a nonzero exit, a timeout, oversized or unparsable output.     *)
ExtensionFails ==
  /\ Running
  /\ IF cur \in failClosed THEN Reject("failed") ELSE NextExtension("failed")
  /\ UNCHANGED <<payload, paid>>

(* `continue`, an unknown decision, or one whose body is missing.          *)
ReplyContinue ==
  /\ Running
  /\ NextExtension("passed")
  /\ UNCHANGED <<payload, paid>>

(* `replace` takes any JSON value for the payload, unread: the messages it *)
(* was given in any order, some of them, its own anywhere, or none.        *)
Rewritten(p, author) ==
  UNION {[1 .. n -> {p[i] : i \in DOMAIN p} \cup {author}] : n \in 0 .. MaxMessages}

ReplyReplace ==
  /\ Running
  /\ payload' \in Rewritten(payload, cur)
  /\ NextExtension("replaced")
  /\ UNCHANGED paid

(* `append` extends the list by any messages, and does nothing to a        *)
(* payload that has no list.                                               *)
ReplyAppend ==
  /\ Running
  /\ \E n \in 0 .. MaxMessages : payload' = payload \o [k \in 1 .. n |-> cur]
  /\ NextExtension("edited")
  /\ UNCHANGED paid

(* Mutation of ReplyDeny: only the reply's own flag is read.               *)
ReplyDenyIgnoresManifest ==
  /\ Running
  /\ \E saysClosed \in BOOLEAN :
       IF saysClosed THEN Reject("denied") ELSE NextExtension("denied")
  /\ UNCHANGED <<payload, paid>>

(* `deny` is obeyed only when the reply or the manifest fails closed.      *)
ReplyDeny ==
  /\ Running
  /\ \E saysClosed \in BOOLEAN :
       IF saysClosed \/ cur \in failClosed
         THEN Reject("denied")
         ELSE NextExtension("denied")
  /\ UNCHANGED <<payload, paid>>

-----------------------------------------------------------------------------
(* Decide rounds.                                                          *)

AskExhausted ==
  /\ Running
  /\ decideRounds >= MAX_DECIDE_ROUNDS
  /\ NextExtension("refused")
  /\ UNCHANGED <<payload, paid>>

(* Mutation of AskStarts: the rounds are not limited.                      *)
AskStartsUnlimited ==
  /\ Running
  /\ decideRounds' = decideRounds + 1
  /\ decideRounds < MAX_DECIDE_ROUNDS + 3
  /\ stage' = "ask"
  /\ asked' = [asked EXCEPT ![cur] = @ + 1]
  /\ UNCHANGED <<config, cur, payload, decideResult, lastAnswer, spent,
                 nestedCallsUsed, status, fate>>

(* Mutation of AskStarts: the round is never counted.                      *)
AskStartsUncounted ==
  /\ Running
  /\ decideRounds < MAX_DECIDE_ROUNDS
  /\ stage' = "ask"
  /\ UNCHANGED <<config, cur, payload, local, paid, status, fate>>

(* The round is counted before the call is made.                           *)
AskStarts ==
  /\ Running
  /\ decideRounds < MAX_DECIDE_ROUNDS
  /\ decideRounds' = decideRounds + 1
  /\ stage' = "ask"
  /\ asked' = [asked EXCEPT ![cur] = @ + 1]
  /\ UNCHANGED <<config, cur, payload, decideResult, lastAnswer, spent,
                 nestedCallsUsed, status, fate>>

(* The answer is kept and the same extension is run again with it.         *)
AskAnswered ==
  /\ stage = "ask"
  /\ \E answer \in {"yes", "no"} :
       /\ decideResult' = answer
       /\ lastAnswer' = [lastAnswer EXCEPT ![cur] = answer]
  /\ stage' = "run"
  /\ UNCHANGED <<config, cur, payload, decideRounds, asked, spent,
                 nestedCallsUsed, status, fate>>

(* No key, a malformed question, a timeout: logged, not run again.         *)
AskFailed ==
  /\ stage = "ask"
  /\ NextExtension("refused")
  /\ UNCHANGED <<payload, paid>>

-----------------------------------------------------------------------------
(* Nested model calls.                                                     *)

Approved == ~requireDecide \/ decideResult = "yes"

NestedRefused ==
  /\ Running
  /\ ~Approved
  /\ NextExtension("refused")
  /\ UNCHANGED <<payload, paid>>

(* No model to call, or a payload that is no chat request: nothing is      *)
(* sent.                                                                   *)
NestedUnsendable ==
  /\ Running
  /\ Approved
  /\ NextExtension("passed")
  /\ UNCHANGED <<payload, paid>>

(* Setting a member of a payload that is no JSON object panics: the task   *)
(* of this request dies, whatever the extension's failure policy.          *)
NestedPanics ==
  /\ Running
  /\ Approved
  /\ payload = NoMessages
  /\ Reject("failed")
  /\ UNCHANGED <<payload, paid>>

NestedSent ==
  /\ Running
  /\ Approved
  /\ stage' = "nested"
  /\ spent' = [spent EXCEPT ![cur] = @ + 1]
  /\ UNCHANGED <<config, cur, payload, local, asked, lastAnswer,
                 nestedCallsUsed, status, fate>>

(* FoldMode::Append: the answer joins the conversation, if there is a      *)
(* list.                                                                   *)
NestedAppended ==
  /\ stage = "nested"
  /\ \/ payload' = Append(payload, cur)
     \/ payload = NoMessages /\ payload' = payload
  /\ nestedCallsUsed' = nestedCallsUsed + 1
  /\ NextExtension("edited")
  /\ UNCHANGED <<asked, lastAnswer, spent>>

(* FoldMode::TakeOver: the answer is the response, the chain ends here.    *)
NestedTakenOver ==
  /\ stage = "nested"
  /\ fate' = [fate EXCEPT ![cur] = "edited"]
  /\ stage' = "over"
  /\ status' = "canned"
  /\ UNCHANGED <<config, cur, payload, local, paid>>

(* Transport error, error status, unreadable body, blank answer.           *)
NestedFailed ==
  /\ stage = "nested"
  /\ NextExtension("passed")
  /\ UNCHANGED <<payload, paid>>

-----------------------------------------------------------------------------
(* The handler reads the payload back into a request and sends it.         *)
Deliver ==
  /\ stage = "run"
  /\ cur = NumExt + 1
  /\ stage' = "over"
  /\ \/ status' = "sent"
     \/ payload = NoMessages /\ status' = "rejected"
  /\ UNCHANGED <<config, cur, payload, local, paid, fate>>

ChainNext ==
  \/ ExtensionFails
  \/ ReplyContinue
  \/ ReplyReplace
  \/ ReplyAppend
  \/ ReplyDeny
  \/ AskExhausted
  \/ AskStarts
  \/ AskAnswered
  \/ AskFailed
  \/ NestedRefused
  \/ NestedUnsendable
  \/ NestedPanics
  \/ NestedSent
  \/ NestedAppended
  \/ NestedTakenOver
  \/ NestedFailed
  \/ Deliver

ChainSpec == ChainInit /\ [][ChainNext]_chainVars

-----------------------------------------------------------------------------
(* The spending gate: under require_decide_for_nested_calls a nested call  *)
(* goes upstream for an extension only if the last answer this very        *)
(* extension got in this request was a yes.  An answer to another          *)
(* extension, or a yes that a later no replaced, does not open the gate.   *)
GateFailsClosed ==
  requireDecide => \A e \in Exts : spent[e] > 0 => lastAnswer[e] = "yes"

(* What one client request can cost: MAX_DECIDE_ROUNDS classifier calls    *)
(* and one nested call for each extension that was reached, and no nested  *)
(* call is reported to the extensions that was not sent.                   *)
SpendBounded ==
  /\ \A e \in Exts : asked[e] <= MAX_DECIDE_ROUNDS /\ spent[e] <= 1
  /\ \A e \in Exts : e > cur => asked[e] = 0 /\ spent[e] = 0
  /\ nestedCallsUsed < cur

(* A gate that says fail_closed and then breaks or denies is the last      *)
(* word: the request neither reaches the provider nor is answered.  A      *)
(* request is sent only after every extension had its turn, and rejected   *)
(* only by a failure, a denial, or a payload that is no request.           *)
GatesHold ==
  /\ status \in {"sent", "canned"} =>
       \A e \in failClosed : fate[e] \notin {"failed", "denied"}
  /\ status = "sent" => \A e \in Exts : fate[e] # "pending"
  /\ status = "rejected" =>
       \/ payload = NoMessages
       \/ cur \in Exts /\ fate[cur] \in {"failed", "denied"}

(* Extensions fail open and in order.  Every message of the payload is the *)
(* client's or of an extension that finished an edit: one that crashed,    *)
(* was refused, was denied or ran out of rounds leaves no trace.           *)
(* `replace` may rearrange what it is given; but only it: of two messages  *)
(* out of name order the later extension's one was there when somebody     *)
(* replaced the payload, and the client's words are gone only if somebody  *)
(* did.                                                                    *)
EditsInNameOrder ==
  /\ \A i \in DOMAIN payload :
       payload[i] # Client => fate[payload[i]] \in {"edited", "replaced"}
  /\ \A i, j \in DOMAIN payload :
       i < j /\ payload[i] > payload[j] =>
         \E r \in Exts : r >= payload[i] /\ fate[r] = "replaced"
  /\ \/ \E i \in DOMAIN payload : payload[i] = Client
     \/ \E r \in Exts : fate[r] = "replaced"

(* EXTENSIONS.md and the field's own comment say nested_calls_used is the  *)
(* number of nested calls already made for this request.  A call that was  *)
(* sent, and billed, but whose answer could not be used is not counted.    *)
NestedCallsAllCounted ==
  stage = "run" =>
    nestedCallsUsed = Cardinality({e \in Exts : spent[e] > 0})
=============================================================================
