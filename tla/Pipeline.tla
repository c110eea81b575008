------------------------------ MODULE Pipeline ------------------------------
(***************************************************************************)
(* The three handlers of proxy.rs: a client's request is translated,       *)
(* routed, given to the extension chain, sent, and its answer, or the      *)
(* answer of the search loop, is rendered for the client.                  *)
(*                                                                         *)
(* What is modelled elsewhere is one step here: the extension chain        *)
(* (ExtensionChain), the streaming search loop (SearchStream) and the      *)
(* converters (AnthropicStream, ClientStream).  Requests share the         *)
(* configuration, which no handler changes, and the round-robin cursor.    *)
(***************************************************************************)
EXTENDS ModelRouting, Effort, Transforms, SearchSettings

CONSTANTS
  Cases,          (* a configuration, and what a client asks                *)
  Answers,        (* what models answer                                     *)
  MaxRequests     (* bound: requests one after the other                    *)

(* What a config file can say, and what a client that keeps the protocol   *)
(* of its API can send.                                                    *)
ModelEntries == [name : STRING, type : EntryTypes, key : EntryKeys,
                 effort : Limits, cap : Limits, qwen : BOOLEAN]

Configurations ==
  [models : Seq(ModelEntries), completion : STRING, reasoning : STRING, search : STRING,
   decide : STRING, routing : {"shuffle", "round_robin", "first"}, websearch : BOOLEAN,
   signedIn : BOOLEAN, engine : Engines, maxResults : Nat, searchDecide : BOOLEAN,
   effort : Limits, cap : Limits]

Conversations(api) ==
  CASE api = "openai" -> {m \in Seq(ChatRecords) : WellFormedChat(m)}
    [] api = "anthropic" -> {r \in MessagesRequests : WellFormedMessages(r.messages)}
    [] api = "responses" -> {r \in ResponsesRequests : WellFormedItems(r.items)}

IsClient(x) ==
  /\ x \in [api : {"openai", "anthropic", "responses"}, stream : BOOLEAN, surface : Surfaces,
            requested : STRING, body : Conversations(x.api), native : BOOLEAN,
            query : Texts, words : Texts]
  /\ x.surface \in SurfaceOf(x.api)

(* A model says that it ends in calls if and only if it makes some.        *)
IsAnswer(a) ==
  /\ a \in [reasoning : BOOLEAN, text : BOOLEAN, calls : Seq(CallKinds),
            finish : {"stop", "tool_calls"}]
  /\ a = Answer(a.reasoning, a.text, a.calls)

ASSUME PipelineAssumption ==
  /\ MaxRequests \in Nat /\ MaxRequests > 0
  /\ \A case \in Cases : case.config \in Configurations /\ IsClient(case.client)
  /\ \A a \in Answers : IsAnswer(a)

MAX_SEARCH_ROUNDS == 3

VARIABLES
  c,         (* the configuration                                           *)
  cursor,    (* ROUND_ROBIN                                                 *)
  client,    (* the request being handled                                   *)
  pc,        (* where its handler is                                        *)
  entry,     (* route.entry                                                 *)
  chat,      (* openai_req: its messages and its effort                     *)
  rounds,    (* rounds of searches                                          *)
  answer,    (* the model's last answer                                     *)
  searched,  (* searches of this round that are done                        *)
  out,       (* what the client receives                                    *)
  sends,     (* history: requests sent for it, with the hooks run on them   *)
  engines,   (* history: the engines asked for the last search, with what   *)
             (* was said                                                    *)
  served     (* history: entries the requests were routed to                *)

vars == <<c, cursor, client, pc, entry, chat, rounds, answer, searched, out,
          sends, engines, served>>

Nothing == [kind |-> "nothing"]
NoSearch == [texts |-> {}, asked |-> << >>, results |-> 0]
NoAnswer == Answer(FALSE, FALSE, << >>)

Fresh ==
  /\ pc' = "received" /\ entry' = 0 /\ chat' = [messages |-> << >>, effort |-> NoLevel]
  /\ rounds' = 0 /\ answer' = NoAnswer /\ searched' = 0 /\ out' = Nothing
  /\ sends' = << >> /\ engines' = NoSearch

(* The server starts only with a configuration that is complete.           *)
Init ==
  /\ \E case \in Cases :
       ValidateComplete(case.config) /\ c = case.config /\ client = case.client
  /\ cursor = 0
  /\ pc = "received" /\ entry = 0 /\ chat = [messages |-> << >>, effort |-> NoLevel]
  /\ rounds = 0 /\ answer = NoAnswer /\ searched = 0 /\ out = Nothing
  /\ sends = << >> /\ engines = NoSearch /\ served = << >>

(* One request leaves the next nothing but the cursor: it is the same      *)
(* client that asks again.                                                 *)
NextRequest ==
  /\ pc = "done"
  /\ Len(served) < MaxRequests
  /\ Fresh
  /\ UNCHANGED <<c, cursor, client, served>>

Reply(o) == out' = o /\ pc' = "done"
Error == Reply([kind |-> "error"])

(* resolve_settings and execute_outcome for one query: what was said about *)
(* Yandex, whether a decision was at hand, and what was asked.             *)
RunSearch(texts) ==
  engines' \in
    {[texts |-> texts, asked |-> Asked(settings, first), results |-> settings.results] :
       settings \in {ResolveSettings(c, texts, d) : d \in DecideAnswers \cup {NoAnswers}},
       first \in Backend}

-----------------------------------------------------------------------------
BodyUnreadable ==
  /\ pc = "received"
  /\ Error
  /\ served' = Append(served, 0)
  /\ UNCHANGED <<c, cursor, client, entry, chat, rounds, answer, searched, sends, engines>>

(* restore: the name the client asked for, and not the upstream's.         *)
ClientName == "asked"

(* restore_sse: an event that two reads divide, or a chunk without a model *)
(* name, stays as it is; the Responses converter is told the name.         *)
StreamNames == IF client.api = "responses" THEN {ClientName} ELSE {ClientName, "upstream"}

(* response_body, response_sse: the search as Claude Code shows it, whole  *)
(* or in events.                                                           *)
NativeAnswer ==
  [kind |-> "native", model |-> ClientName,
   blocks |-> <<"server_tool_use", "web_search_tool_result", "text">>]

(* detect: the server tool is there, forced, and a query with it.          *)
IsNativeSearch == client.api = "anthropic" /\ client.native

(* Claude Code's own search request never reaches a model, a hook but the  *)
(* last, or the chain; a failed search is an answer too.                   *)
ServeNative ==
  /\ pc = "received"
  /\ IsNativeSearch /\ WebsearchAvailable(c)
  /\ RunSearch({client.query})
  /\ Reply(NativeAnswer)
  /\ served' = Append(served, 0)
  /\ UNCHANGED <<c, cursor, client, entry, chat, rounds, answer, searched, sends>>

PolicyOf(i) ==
  [modelDefault |-> c.models[i].effort, modelCap |-> c.models[i].cap,
   globalDefault |-> c.effort, globalCap |-> c.cap]

ChatOf(req) ==
  IF req.api = "responses" THEN ResponsesToOpenai(req.body)
  ELSE IF req.api = "anthropic" THEN AnthropicToOpenai(req.body)
  ELSE req.body

(* The translation, ModelRoute::new, apply and apply_effort.               *)
TransformAndRoute ==
  /\ pc = "received"
  /\ ~(IsNativeSearch /\ WebsearchAvailable(c))
  /\ \E p \in ResolveRequestModel(c, client.requested,
                IsReasoning(client.api, client.surface), cursor) :
       /\ entry' = p.entry
       /\ cursor' = p.cursor
       /\ served' = Append(served, p.entry)
       /\ chat' = [messages |-> ChatOf(client),
                   effort |-> ApplyEffort(PolicyOf(p.entry),
                                Transformed(client.api, client.surface),
                                EffortRequest(client.api, client.surface))]
  /\ pc' = "chain"
  /\ UNCHANGED <<c, client, rounds, answer, searched, out, sends, engines>>

-----------------------------------------------------------------------------
(* The extension chain.  What an extension adds is a note behind the       *)
(* messages; one that rewrites them answers for the protocol itself.       *)
ChainContinues ==
  /\ pc = "chain"
  /\ \E edit \in {<< >>, <<Chat("user", TRUE, << >>, NoId)>>} :
       chat' = [chat EXCEPT !.messages = @ \o edit]
  /\ pc' = "send"
  /\ UNCHANGED <<c, cursor, client, entry, rounds, answer, searched, out, sends, engines, served>>

ChainFails ==
  /\ pc = "chain"
  /\ Error
  /\ UNCHANGED <<c, cursor, client, entry, chat, rounds, answer, searched, sends, engines, served>>

(* synthetic_openai_sse: the text, the reasoning and the finish.           *)
SyntheticSse(a) == [a EXCEPT !.calls = << >>]

(* render_final: a stream is synthesized, anything else is translated.     *)
RenderFinal(a) ==
  [kind |-> "answer", of |-> a, model |-> ClientName,
   content |-> Rendered(client.api, IF client.stream THEN SyntheticSse(a) ELSE a)]

(* take_over: render_canned.                                               *)
ChainTakesOver ==
  /\ pc = "chain"
  /\ \E a \in Answers :
       /\ answer' = a
       /\ Reply(RenderFinal(a))
  /\ UNCHANGED <<c, cursor, client, entry, chat, rounds, searched, sends, engines, served>>

-----------------------------------------------------------------------------
(* build_upstream_payload_for.                                             *)
Payload == IF c.models[entry].qwen THEN WithSystem(chat.messages) ELSE chat.messages

Sent(hooked) ==
  Append(sends, [entry |-> entry, messages |-> Payload, effort |-> chat.effort, hooked |-> hooked])

(* send_request: the hook that logs the provider picks one, too, before    *)
(* anything is sent.                                                       *)
SendRequest ==
  /\ pc = "send"
  /\ \E p \in Pick(c, c.completion, cursor) : cursor' = p.cursor
  /\ IF AuthFails(c, entry)
       THEN Error /\ UNCHANGED sends
       ELSE pc' = "wait" /\ sends' = Sent(TRUE) /\ UNCHANGED out
  /\ UNCHANGED <<c, client, entry, chat, rounds, answer, searched, engines, served>>

(* Nothing came, or a status that is no success.                           *)
UpstreamFails ==
  /\ pc = "wait"
  /\ Error
  /\ UNCHANGED <<c, cursor, client, entry, chat, rounds, answer, searched, sends, engines, served>>

Searching == WebsearchAvailable(c)

(* The answer as the provider gave it, without klava's calls.              *)
Passed(named) ==
  \E a \in Answers :
    /\ \A i \in 1 .. Len(a.calls) : a.calls[i] = "own"
    /\ answer' = a
    /\ Reply([kind |-> "answer", of |-> a, model |-> named,
              content |-> Rendered(client.api, a)])
    /\ UNCHANGED <<c, cursor, client, entry, chat, rounds, searched, sends, engines, served>>

(* handle_non_streaming_openai and the like.                               *)
PassWhole ==
  /\ pc = "wait" /\ ~client.stream /\ ~Searching
  /\ Passed(ClientName)

(* handle_streaming_openai and the like: through a converter.              *)
PassStream ==
  /\ pc = "wait" /\ client.stream /\ ~Searching
  /\ \E named \in StreamNames : Passed(named)

(* proxy_streaming_search: of the last answer the client's own calls come  *)
(* through.  Whether there is text is open, for what was said before a     *)
(* search stays and the text of a held frame may be lost; and a frame that *)
(* is held back for more than a search carries the search along.           *)
StreamSearching ==
  /\ pc = "wait" /\ client.stream /\ Searching
  /\ \E named \in StreamNames, a \in Answers, said, mixed \in BOOLEAN :
       /\ answer' = a
       /\ Reply([kind |-> "answer", of |-> a, model |-> named,
                 content |-> Rendered(client.api,
                   [a EXCEPT !.text = said, !.calls = IF mixed THEN @ ELSE Among(@, {"own"})])])
  /\ UNCHANGED <<c, cursor, client, entry, chat, rounds, searched, sends, engines, served>>

UpstreamAnswers ==
  /\ pc = "wait"
  /\ ~client.stream /\ Searching
  /\ answer' \in Answers
  /\ pc' = "split"
  /\ UNCHANGED <<c, cursor, client, entry, chat, rounds, searched, out, sends, engines, served>>

-----------------------------------------------------------------------------
(* proxy_with_search.                                                      *)
Ours == Among(answer.calls, {"search", "blank"})
Queries == Among(answer.calls, {"search"})
OtherCalls == \E i \in 1 .. Len(answer.calls) : answer.calls[i] = "own"

(* Mutant of StripSearchCall: all the calls are dropped.                   *)
StripAllCalls(a) ==
  [a EXCEPT !.calls = << >>, !.text = TRUE]

(* strip_search_call: the client's calls stay; a placeholder is said when  *)
(* nothing would be left.  The finish is not touched.                      *)
StripSearchCall(a) ==
  LET kept == Among(a.calls, {"own"})
  IN [a EXCEPT !.calls = kept, !.text = @ \/ kept = << >>]

SplitPlain ==
  /\ pc = "split" /\ Ours = << >>
  /\ Reply(RenderFinal(answer))
  /\ UNCHANGED <<c, cursor, client, entry, chat, rounds, answer, searched, sends, engines, served>>

(* Mutant of SplitGivesUp: only the rounds end the searching.              *)
SplitGivesUpLate ==
  /\ pc = "split" /\ Ours # << >>
  /\ rounds >= MAX_SEARCH_ROUNDS
  /\ Reply(RenderFinal(StripSearchCall(answer)))
  /\ UNCHANGED <<c, cursor, client, entry, chat, rounds, answer, searched, sends, engines, served>>

SplitGivesUp ==
  /\ pc = "split" /\ Ours # << >>
  /\ rounds >= MAX_SEARCH_ROUNDS \/ Queries = << >>
  /\ Reply(RenderFinal(StripSearchCall(answer)))
  /\ UNCHANGED <<c, cursor, client, entry, chat, rounds, answer, searched, sends, engines, served>>

SplitSearches ==
  /\ pc = "split" /\ Queries # << >>
  /\ rounds < MAX_SEARCH_ROUNDS
  /\ rounds' = rounds + 1
  /\ searched' = 0
  /\ pc' = "search"
  /\ UNCHANGED <<c, cursor, client, entry, chat, answer, out, sends, engines, served>>

(* One search; a failed one has a result as well.                          *)
SearchOne ==
  /\ pc = "search" /\ searched < Len(Queries)
  /\ RunSearch({client.query, client.words})
  /\ searched' = searched + 1
  /\ UNCHANGED <<c, cursor, client, pc, entry, chat, rounds, answer, out, sends, served>>

(* append_search_results: one assistant message for all calls.             *)
ResultIds == [k \in 1 .. Len(Queries) |-> 10 * rounds + k]

AppendSearchResults ==
  chat.messages \o <<AssistantCalls(ResultIds)>>
    \o [k \in 1 .. Len(Queries) |-> ToolMessage(ResultIds[k])]

SearchesDone ==
  /\ pc = "search" /\ searched = Len(Queries)
  /\ chat' = [chat EXCEPT !.messages = AppendSearchResults]
  /\ IF OtherCalls
       THEN Reply(RenderFinal(StripSearchCall(answer)))
       ELSE pc' = "follow" /\ UNCHANGED out
  /\ engines' = NoSearch
  /\ UNCHANGED <<c, cursor, client, entry, rounds, answer, searched, sends, served>>

(* send_openai_request_via: the same entry, no hooks.                      *)
FollowUp ==
  /\ pc = "follow"
  /\ IF AuthFails(c, entry)
       THEN Error /\ UNCHANGED sends
       ELSE pc' = "wait" /\ sends' = Sent(FALSE) /\ UNCHANGED out
  /\ UNCHANGED <<c, cursor, client, entry, chat, rounds, answer, searched, engines, served>>

Next ==
  \/ NextRequest \/ BodyUnreadable \/ ServeNative \/ TransformAndRoute
  \/ ChainContinues \/ ChainFails \/ ChainTakesOver
  \/ SendRequest \/ UpstreamFails \/ PassWhole \/ PassStream
  \/ StreamSearching \/ UpstreamAnswers
  \/ SplitPlain \/ SplitGivesUp \/ SplitSearches \/ SearchOne \/ SearchesDone
  \/ FollowUp

(* Every wait of a handler is bounded by the client's read timeout.        *)
Spec == Init /\ [][Next]_vars /\ WF_vars(Next)

-----------------------------------------------------------------------------
(* A client that keeps the strict form of the chat protocol.               *)
OneAtATime(x) == x.api = "responses" => OneByOne(x.body.items)

(* A client that says, as its API has it, that it wants no reasoning.      *)
OptsOut(x) ==
  CASE x.api = "openai"    -> x.surface.effort = 0
    [] x.api = "responses" -> x.surface.effort \in {0, 1, Shouted}
    [] x.api = "anthropic" -> x.surface.effort = NoLevel /\ x.surface.thinking = "disabled"

(* Whatever a translation, an extension's note and the rounds of the       *)
(* search loop make of a conversation, in every request that is sent each  *)
(* call has its answer behind it and each answer its call before it; and   *)
(* the answers to a message's calls follow it at once, as providers ask.   *)
(* The one exception are parallel calls of a Responses client, which the   *)
(* code allows: each call becomes a message of its own, and the answers    *)
(* stand behind the last.                                                  *)
ChatProtocolKept ==
  \A i \in 1 .. Len(sends) :
    /\ Paired(sends[i].messages)
    /\ OneAtATime(client) => WellFormedChat(sends[i].messages)

CallsIn(blocks) == Among(blocks, CallKinds)

(* A client receives the text and exactly its own calls of the last        *)
(* answer, in order, never klava's search tool, and the name of the model  *)
(* it asked for, on every path through translations and rounds of          *)
(* searches; what an extension answered in the model's place it receives   *)
(* as it is.  A message that is said to end in tool calls has some, except *)
(* that the finish of an answer whose searches were stripped stays what it *)
(* was.  Of a stream only the extension's answer is meant, and of that the *)
(* text and the name: "a complete final answer" it is not, for its calls   *)
(* are lost.  (What the model's streams carry is AnthropicStream's and     *)
(* SearchStream's matter.)                                                 *)
AnswerWhole ==
  out.kind = "answer" =>
    LET tookOver == sends = << >>
        own == Among(answer.calls, {"own"})
    IN /\ ~client.stream \/ tookOver =>
            out.model = ClientName /\ (answer.text => "text" \in ToSet(out.content.blocks))
       /\ ~client.stream =>
            /\ CallsIn(out.content.blocks) = IF tookOver THEN answer.calls ELSE own
            /\ \/ out.content.stop \in {"tool_use", "tool_calls"}
                    <=> own # << >> /\ client.api # "responses"
               \/ tookOver \/ own # answer.calls

(* Yandex is never asked when the user declined it, in the query or in his *)
(* own words and whatever the decision model says, unless the operator     *)
(* configured it; the operator's engine is asked first, and where there is *)
(* none the one the user names.  The search asks for no more results than  *)
(* the backend allows.  One case is left open: a configured Yandex that    *)
(* the user declines is "never overridden" by what resolve_settings says   *)
(* of itself, and is overridden by what it does when search_decide is on.  *)
EngineHonoursUser ==
  engines # NoSearch =>
    LET declined == "declines" \in engines.texts
        first    == engines.asked[1]
    IN /\ declined /\ first = "yandex" => c.engine = "yandex"
       /\ c.engine # "auto" =>
            first = c.engine \/ (c.engine = "yandex" /\ declined /\ c.searchDecide)
       /\ c.engine = "auto" /\ ~declined /\ "names" \in engines.texts => first = "yandex"
       /\ engines.results \in MAX_RESULTS_MIN .. MAX_RESULTS_MAX

(* What should be sent to an entry for what the client said: the level of  *)
(* one that opted out, which no cap lowers and which the Messages API has  *)
(* not; the level that is asked for, lowered to the cap; and where none is *)
(* said, the default, lowered to the cap, or no field if there is none.    *)
(* Left open is a Messages client that disables thinking and names a level *)
(* that is none: "a client that explicitly disabled reasoning wins over    *)
(* every default", and the code sends it the default.                      *)
RightEffort(x, policy, sent) ==
  LET said == x.surface.effort
  IN CASE OptsOut(x) ->
            sent = CASE x.api = "anthropic" -> NoLevel
                     [] said = Shouted -> 0
                     [] OTHER -> said
       [] ~OptsOut(x) /\ said \in Levels -> sent = Clamp(policy, said)
       [] ~OptsOut(x) /\ said \notin Levels ->
            \/ sent = IF Default(policy) = NoLevel THEN NoLevel
                       ELSE Clamp(policy, Default(policy))
            \/ x.surface.thinking = "disabled" /\ sent = NoLevel

(* Every request that is sent, in whatever round of searches and after     *)
(* whatever routing, carries the right effort for the entry it goes to.    *)
EffortHonoured ==
  \A i \in 1 .. Len(sends) :
    RightEffort(client, PolicyOf(sends[i].entry), sends[i].effort)

(* In a configuration that startup accepted, a default that is picked is   *)
(* never refused for want of a key, though the default that startup looked *)
(* at may be another entry of the pool than the one that is picked.        *)
DefaultsUsable ==
  pc = "done" /\ entry # 0 /\ AuthFails(c, entry) =>
    \/ c.models[entry].type = "klava"
    \/ Pool(c, client.requested) # {}
=============================================================================
