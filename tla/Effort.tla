------------------------------- MODULE Effort -------------------------------
(***************************************************************************)
(* The reasoning effort that is sent upstream.  A level is its rank, 0 is  *)
(* none and 1 is minimal; NoLevel is a field that is not there, Typo a     *)
(* value that is no level, Shouted the "NONE" that only some code reads.   *)
(***************************************************************************)
EXTENDS Naturals

Levels == 0 .. 6
NoLevel == 10
Limits == Levels \cup {NoLevel}    \* of a config file
Typo == 11
Shouted == 12

Suppress == 20          \* EffortRequest::Suppress

(* What the client can say: a level, and for the Messages API the type of  *)
(* its thinking block.                                                     *)
Surfaces ==
  {s \in [effort : {0, 1, 4, 6, NoLevel, Typo, Shouted},
          thinking : {"absent", "enabled", "disabled"}] : TRUE}

SurfaceOf(api) ==
  CASE api = "openai"    -> {s \in Surfaces : s.thinking = "absent" /\ s.effort \notin {Typo, Shouted}}
    [] api = "responses" -> {s \in Surfaces : s.thinking = "absent"}
    [] api = "anthropic" -> {s \in Surfaces : s.effort # Shouted}

(* ReasoningEffort::parse.                                                 *)
Parsed(e) == CASE e = Typo -> NoLevel [] e = Shouted -> 0 [] OTHER -> e

(* EffortRequest::from_openai, from_responses, from_anthropic.             *)
EffortRequest(api, s) ==
  CASE api = "openai"    -> IF s.effort = 0 THEN Suppress ELSE s.effort
    [] api = "responses" -> IF Parsed(s.effort) \in {0, 1} THEN Suppress ELSE Parsed(s.effort)
    [] api = "anthropic" -> IF s.effort # NoLevel THEN Parsed(s.effort)
                            ELSE IF s.thinking = "disabled" THEN Suppress ELSE NoLevel

(* Which of the two default models the client's request selects.           *)
IsReasoning(api, s) ==
  CASE api = "openai"    -> s.effort \notin {NoLevel, 0}
    [] api = "responses" -> s.effort \notin {NoLevel, 0, 1}
    [] api = "anthropic" -> s.thinking = "enabled"

(* The level the transforms put in the request before any policy.          *)
Transformed(api, s) == IF api = "anthropic" THEN NoLevel ELSE Parsed(s.effort)

(* A policy: the default and the cap of the entry, or else of the config.  *)
First(a, b) == IF a # NoLevel THEN a ELSE b

Default(policy) == First(policy.modelDefault, policy.globalDefault)
Cap(policy) == First(policy.modelCap, policy.globalCap)

Clamp(policy, level) == IF Cap(policy) < level THEN Cap(policy) ELSE level

(* Mutant of Resolve: only what the client asks for is clamped.            *)
ResolveUncapped(policy, request) ==
  CASE request = Suppress -> NoLevel
    [] request = NoLevel  -> Default(policy)
    [] OTHER -> Clamp(policy, request)

Resolve(policy, request) ==
  CASE request = Suppress -> NoLevel
    [] request = NoLevel /\ Default(policy) = NoLevel -> NoLevel
    [] request = NoLevel /\ Default(policy) # NoLevel -> Clamp(policy, Default(policy))
    [] OTHER -> Clamp(policy, request)

(* apply_effort: the field is left alone where there is nothing to say.    *)
ApplyEffort(policy, level, request) ==
  IF Resolve(policy, request) = NoLevel THEN level ELSE Resolve(policy, request)
=============================================================================
