----------------------------- MODULE MCPipeline -----------------------------
(***************************************************************************)
(* Instances of Pipeline.  Routing, effort, conversations and searches do  *)
(* not depend on one another, so each has its own clients.                 *)
(***************************************************************************)
EXTENDS Pipeline

Entry(name, type, key, effort, cap, qwen) ==
  [name |-> name, type |-> type, key |-> key, effort |-> effort, cap |-> cap, qwen |-> qwen]

Plain(name) == Entry(name, "openai", "set", NoLevel, NoLevel, FALSE)
Keyless(name) == Entry(name, "openai", "named", NoLevel, NoLevel, FALSE)
Klava(name) == Entry(name, "klava", None, 4, 5, TRUE)

Base == [models |-> <<Plain("a")>>, completion |-> "a", reasoning |-> None,
         search |-> None, decide |-> "d", routing |-> "shuffle", websearch |-> TRUE,
         signedIn |-> TRUE, engine |-> "auto", maxResults |-> 30, searchDecide |-> TRUE,
         effort |-> 6, cap |-> 3]

(* Pools and defaults that are broken in some way, or in none.             *)
RoutingConfigs ==
  {[Base EXCEPT !.models = models, !.completion = completion, !.reasoning = reasoning,
                !.routing = routing] :
     models \in {<<Plain("a")>>, <<Plain("a"), Klava("a")>>, <<Keyless("b"), Plain("a")>>,
                 <<Plain("a"), Keyless("a"), Plain("b")>>, <<Plain("b"), Plain("a"), Keyless("a")>>},
     completion \in {"a", "b", None}, reasoning \in {"a", "b", None},
     routing \in {"shuffle", "round_robin", "first"}}

SearchConfigs ==
  {[Base EXCEPT !.models = <<Klava("a")>>, !.engine = engine, !.searchDecide = decided] :
     engine \in Engines, decided \in BOOLEAN}

SearchOn == [Base EXCEPT !.models = <<Klava("a")>>]
SearchOff == [SearchOn EXCEPT !.websearch = FALSE]
SignedOut == [SearchOn EXCEPT !.signedIn = FALSE]

(* Conversations.                                                          *)
User == Chat("user", TRUE, << >>, NoId)

OpenaiBodies == {<<User>>, <<User, AssistantCalls(<<1, 2>>), ToolMessage(2), ToolMessage(1)>>}

Says(role, blocks) == [role |-> role, blocks |-> blocks]
AnthropicBodies ==
  {[system |-> 1, messages |-> <<Says("user", <<Block("text", NoId)>>)>>],
   [system |-> 0, messages |->
      <<Says("user", <<Block("text", NoId)>>),
        Says("assistant", <<Block("thinking", NoId), Block("text", NoId),
                            Block("tool_use", 1), Block("tool_use", 2)>>),
        Says("user", <<Block("text", NoId), Block("tool_result", 1), Block("tool_result", 2),
                       Block("image", NoId)>>)>>]}

ResponsesBodies ==
  {[system |-> 1, items |-> <<Item("message", "user", NoId)>>],
   [system |-> 0, items |-> <<Item("message", "user", NoId), Item("reasoning", "", NoId),
                              Item("call", "", 1), Item("output", "", 1)>>],
   [system |-> 0, items |-> <<Item("message", "user", NoId), Item("call", "", 1),
                              Item("call", "", 2), Item("output", "", 2),
                              Item("output", "", 1)>>]}

Bodies(api) ==
  CASE api = "openai" -> OpenaiBodies
    [] api = "anthropic" -> AnthropicBodies
    [] api = "responses" -> ResponsesBodies

Quiet == [effort |-> NoLevel, thinking |-> "absent"]

Client(api, stream, surface, requested, body) ==
  [api |-> api, stream |-> stream, surface |-> surface, requested |-> requested,
   body |-> body, native |-> FALSE, query |-> "neutral", words |-> "neutral"]

Apis == {"openai", "anthropic", "responses"}

Talking(api) ==
  {Client(api, stream, Quiet, "a", body) : stream \in BOOLEAN, body \in Bodies(api)}

Simple(api) == Client(api, FALSE, Quiet, "a", CHOOSE b \in Bodies(api) : TRUE)

With(configs, clients) == {[config |-> x, client |-> y] : x \in configs, y \in clients}

MCCases ==
  With({SearchOn, SearchOff, SignedOut}, UNION {Talking(api) : api \in Apis})
    \cup With({SearchOff, Base},
              UNION {{[Simple(api) EXCEPT !.surface = surface] : surface \in SurfaceOf(api)} :
                       api \in Apis})
    \cup With(RoutingConfigs,
              {[Simple("responses") EXCEPT !.surface = [Quiet EXCEPT !.effort = e],
                                           !.requested = requested] :
                 e \in {NoLevel, 4}, requested \in {"a", "b", "unknown"}})
    \cup With(SearchConfigs,
              {[Simple("openai") EXCEPT !.query = query, !.words = words] :
                 query \in Texts, words \in Texts}
                \cup {[Simple("anthropic") EXCEPT !.native = TRUE, !.query = query] :
                        query \in Texts})

MCAnswers ==
  {Answer(FALSE, TRUE, << >>), Answer(TRUE, FALSE, <<"own", "own">>),
   Answer(FALSE, FALSE, <<"search">>), Answer(FALSE, TRUE, <<"blank", "own">>),
   Answer(FALSE, FALSE, <<"search", "own">>), Answer(FALSE, FALSE, <<"blank">>)}
=============================================================================
