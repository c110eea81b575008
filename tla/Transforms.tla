----------------------------- MODULE Transforms -----------------------------
(***************************************************************************)
(* The translations between the three client APIs and chat completions.    *)
(* What is said is abstracted to whether something is said; what is kept   *)
(* is who says it, which tool calls are made and answered, and the order.  *)
(***************************************************************************)
EXTENDS Naturals, Sequences, SequencesExt

NoId == 0       \* no tool call; a call is known by a number from 1

(* A chat message: its role, whether it has text or images, the calls it   *)
(* makes and the call it answers.                                          *)
Chat(role, said, calls, answers) ==
  [role |-> role, said |-> said, calls |-> calls, answers |-> answers]

ToolMessage(id) == Chat("tool", TRUE, << >>, id)
AssistantCalls(ids) == Chat("assistant", FALSE, ids, NoId)

(* A block of the Messages API, and an item of the Responses API.          *)
Block(type, id) == [type |-> type, id |-> id]
Item(type, role, id) == [type |-> type, role |-> role, id |-> id]

Roles == {"system", "developer", "user", "assistant", "tool"}

ChatRecords == [role : Roles, said : BOOLEAN, calls : Seq(Nat), answers : Nat]
MessagesBlocks == [type : STRING, id : Nat]
MessagesTurns == [role : {"user", "assistant"}, blocks : Seq(MessagesBlocks)]
MessagesRequests == [system : Nat, messages : Seq(MessagesTurns)]
ResponsesItems ==
  [type : {"message"}, role : Roles, id : {NoId}]
    \cup [type : {"call", "output", "reasoning"}, role : {""}, id : Nat]
ResponsesRequests == [system : Nat, items : Seq(ResponsesItems)]

(* Those of a sequence that are in a set, in their order.                  *)
Among(seq, set) ==
  LET upTo[n \in 0 .. Len(seq)] ==
        IF n = 0 THEN << >>
        ELSE IF seq[n] \in set THEN Append(upTo[n - 1], seq[n]) ELSE upTo[n - 1]
  IN upTo[Len(seq)]

IdsOf(blocks, type) ==
  LET of == Among(blocks, {b \in ToSet(blocks) : b.type = type})
  IN [i \in 1 .. Len(of) |-> of[i].id]

(* Mutant of ConvertMessage: what is said stays in front of the results.   *)
ConvertMessageInOrder(m) ==
  LET calls == IdsOf(m.blocks, "tool_use")
      said  == \E i \in 1 .. Len(m.blocks) : m.blocks[i].type \in {"text", "image"}
      rest  == IF said \/ calls # << >> THEN <<Chat(m.role, said, calls, NoId)>> ELSE << >>
      results == IdsOf(m.blocks, "tool_result")
  IN rest \o [i \in 1 .. Len(results) |-> ToolMessage(results[i])]

(* convert_message: tool results become messages of their own, in front of *)
(* what the message says and calls; thinking and unknown blocks are left.  *)
ConvertMessage(m) ==
  LET calls == IdsOf(m.blocks, "tool_use")
      said  == \E i \in 1 .. Len(m.blocks) : m.blocks[i].type \in {"text", "image"}
      rest  == IF said \/ calls # << >> THEN <<Chat(m.role, said, calls, NoId)>> ELSE << >>
      results == IdsOf(m.blocks, "tool_result")
  IN [i \in 1 .. Len(results) |-> ToolMessage(results[i])] \o rest

(* anthropic_to_openai.                                                    *)
System(n) == [i \in 1 .. n |-> Chat("system", TRUE, << >>, NoId)]

AnthropicToOpenai(req) ==
  LET upTo[n \in 0 .. Len(req.messages)] ==
        IF n = 0 THEN System(req.system)
        ELSE upTo[n - 1] \o ConvertMessage(req.messages[n])
  IN upTo[Len(req.messages)]

(* responses_to_openai: every item becomes one message; encrypted          *)
(* reasoning is said aloud.                                                *)
ConvertItem(item) ==
  CASE item.type = "message"   -> Chat(item.role, TRUE, << >>, NoId)
    [] item.type = "call"      -> AssistantCalls(<<item.id>>)
    [] item.type = "output"    -> ToolMessage(item.id)
    [] item.type = "reasoning" -> Chat("assistant", TRUE, << >>, NoId)

ResponsesToOpenai(req) ==
  System(req.system) \o [i \in 1 .. Len(req.items) |-> ConvertItem(req.items[i])]

(* Qwen endpoints are given a system message when there is none.           *)
WithSystem(messages) ==
  IF \E i \in 1 .. Len(messages) : messages[i].role = "system" THEN messages
  ELSE <<Chat("system", TRUE, << >>, NoId)>> \o messages

-----------------------------------------------------------------------------
(* An upstream answer: its reasoning and text, its calls, why it ended.    *)
(* A call is "own", a call for the client, or "search" or "blank", a call  *)
(* of klava's tool with and without a query.                               *)
Answer(reasoning, text, calls) ==
  [reasoning |-> reasoning, text |-> text, calls |-> calls,
   finish |-> IF calls = << >> THEN "stop" ELSE "tool_calls"]

CallKinds == {"own", "search", "blank"}

Kept(has, block) == IF has THEN <<block>> ELSE << >>

(* openai_to_anthropic: thinking in front, then text, then the calls; at   *)
(* least one block.                                                        *)
OpenaiToAnthropic(a) ==
  LET blocks == Kept(a.reasoning, "thinking") \o Kept(a.text, "text") \o a.calls
  IN [blocks |-> IF blocks = << >> THEN <<"text">> ELSE blocks,
      stop   |-> IF a.finish = "tool_calls" THEN "tool_use" ELSE "end_turn"]

(* openai_to_responses; a response has no reason for its end but           *)
(* completed.                                                              *)
OpenaiToResponses(a) ==
  [blocks |-> Kept(a.reasoning, "thinking") \o Kept(a.text, "text") \o a.calls,
   stop   |-> "completed"]

OpenaiAsIs(a) ==
  [blocks |-> Kept(a.reasoning, "thinking") \o Kept(a.text, "text") \o a.calls,
   stop   |-> a.finish]

Rendered(api, a) ==
  CASE api = "anthropic" -> OpenaiToAnthropic(a)
    [] api = "responses" -> OpenaiToResponses(a)
    [] api = "openai"    -> OpenaiAsIs(a)

-----------------------------------------------------------------------------
(* The chat protocol: a message that makes calls is followed at once by    *)
(* one answer to each of them, and nothing else answers a call.            *)
Answered(messages, i) ==
  {messages[j].answers : j \in (i + 1) .. (i + Len(messages[i].calls))}

WellFormedChat(messages) ==
  /\ \A i \in 1 .. Len(messages) :
       messages[i].calls # << >> =>
         /\ i + Len(messages[i].calls) <= Len(messages)
         /\ Answered(messages, i) = ToSet(messages[i].calls)
  /\ \A j \in 1 .. Len(messages) :
       messages[j].answers # NoId =>
         \E i \in 1 .. (j - 1) : j <= i + Len(messages[i].calls)

(* What is left of it when the answers need not follow at once.            *)
Paired(messages) ==
  /\ \A i \in 1 .. Len(messages) : \A id \in ToSet(messages[i].calls) :
       \E j \in (i + 1) .. Len(messages) : messages[j].answers = id
  /\ \A j \in 1 .. Len(messages) :
       messages[j].answers # NoId =>
         \E i \in 1 .. (j - 1) : messages[j].answers \in ToSet(messages[i].calls)

(* The same of the Messages API, where the answers to the calls of a       *)
(* message are blocks of the next one, ...                                 *)
WellFormedMessages(messages) ==
  \A i \in 1 .. Len(messages) :
    LET uses == IdsOf(messages[i].blocks, "tool_use")
        results(k) == IdsOf(messages[k].blocks, "tool_result")
    IN /\ uses # << >> =>
            /\ i < Len(messages)
            /\ Len(results(i + 1)) = Len(uses) /\ ToSet(results(i + 1)) = ToSet(uses)
       /\ results(i) # << >> => i > 1 /\ IdsOf(messages[i - 1].blocks, "tool_use") # << >>

(* ... and of the Responses API, where the outputs of a turn may stand     *)
(* behind all its calls.                                                   *)
WellFormedItems(items) ==
  \A i \in 1 .. Len(items) :
    /\ items[i].type = "call" =>
         \E j \in (i + 1) .. Len(items) : items[j].type = "output" /\ items[j].id = items[i].id
    /\ items[i].type = "output" =>
         \E j \in 1 .. (i - 1) : items[j].type = "call" /\ items[j].id = items[i].id

(* One call at a time, each with its output behind it.                     *)
OneByOne(items) ==
  \A i \in 1 .. Len(items) :
    /\ items[i].type = "call" =>
         i < Len(items) /\ items[i + 1].type = "output" /\ items[i + 1].id = items[i].id
    /\ items[i].type = "output" => i > 1 /\ items[i - 1].type = "call"
=============================================================================
