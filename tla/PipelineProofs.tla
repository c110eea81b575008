--------------------------- MODULE PipelineProofs ---------------------------
(***************************************************************************)
(* What is proved of the three handlers of proxy.rs, for any config that   *)
(* startup accepts, any conversation of a client, any number of rounds and *)
(* any answer of the provider: PipelineInv, kept by every action, and what *)
(* follows from it.                                                        *)
(*                                                                         *)
(* Routing: whatever the cursor and the strategy, a pick is of the pool    *)
(* (PickIsIn); the default is one that startup has validated, unless the   *)
(* request named an entry itself (RoutedRight).                            *)
(*                                                                         *)
(* Effort: the level an entry's policy gives stays with the request        *)
(* through all rounds (PipelineEffort); it is within the caps, and off     *)
(* where the client switched it off (AppliedRight).                        *)
(*                                                                         *)
(* Chats: every conversation that is sent has the answers of its calls     *)
(* behind them (WellFormedChat). The translations are loops; each turn of  *)
(* a loop adds a piece that is well formed by itself (TurnWell,            *)
(* ResponsesWell), and well formed pieces may be joined (JoinedWell). A    *)
(* search round appends a call and its result, which is such a piece       *)
(* (ResultsWell).                                                          *)
(*                                                                         *)
(* Answers: what the client gets is what the last answer said, without the *)
(* calls of the search tool (ShownRight, OwnRight).                        *)
(***************************************************************************)
EXTENDS Pipeline, BundledProofs

(***************************************************************************)
(* Routing.                                                                *)
(***************************************************************************)
LEMMA SmallerPart ==
  ASSUME NEW T, NEW U, IsFiniteSet(U), T \subseteq U, NEW x \in U, x \notin T
  PROVE  /\ Cardinality(T) \in Nat /\ Cardinality(U) \in Nat
         /\ Cardinality(T) < Cardinality(U)
<1>1. Cardinality(T) <= Cardinality(U) /\ (Cardinality(U) = Cardinality(T) => U = T)
  BY FS_Subset
<1>2. Cardinality(T) \in Nat /\ Cardinality(U) \in Nat
  BY FS_Subset, FS_CardinalityType
<1> QED
  BY <1>1, <1>2

LEMMA NthIsIn ==
  ASSUME NEW pool \in SUBSET Nat, IsFiniteSet(pool), NEW k \in Nat, k < Cardinality(pool)
  PROVE  Nth(pool, k) \in pool
<1> DEFINE n == Cardinality(pool)
           front(i) == {j \in pool : j < i}
           f == [i \in pool |-> Cardinality(front(i))]
<1>1. n \in Nat
  BY FS_CardinalityType
<1>2. \A i \in pool : front(i) \subseteq pool /\ i \notin front(i)
  OBVIOUS
<1>3. ASSUME NEW i \in pool, NEW j \in pool, i < j
      PROVE  front(i) \subseteq front(j) /\ i \in front(j)
  <2>1. \A x \in pool : x < i => x < j
    BY <1>3
  <2> QED
    BY <1>3, <2>1
<1> HIDE DEF front
<1>4. ASSUME NEW i \in pool
      PROVE  IsFiniteSet(front(i)) /\ Cardinality(front(i)) \in 0 .. n - 1
  <2>1. front(i) \subseteq pool /\ i \notin front(i)
    BY <1>2
  <2> QED
    BY <1>1, <2>1, SmallerPart, FS_Subset
<1>5. ASSUME NEW i \in pool, NEW j \in pool, i < j
      PROVE  Cardinality(front(i)) < Cardinality(front(j))
  <2>1. front(i) \subseteq front(j) /\ i \in front(j) /\ i \notin front(i)
    BY <1>2, <1>3, <1>5
  <2> QED
    BY <1>4, <2>1, SmallerPart
<1>6. f \in Injection(pool, 0 .. n - 1)
  <2>1. f \in [pool -> 0 .. n - 1]
    BY <1>4
  <2>2. ASSUME NEW i \in pool, NEW j \in pool, f[i] = f[j] PROVE i = j
    <3>1. ~(i < j) /\ ~(j < i)
      BY <1>4, <1>5, <2>2
    <3> QED
      BY <3>1
  <2> HIDE DEF f
  <2> QED
    BY <2>1, <2>2 DEF Injection, IsInjective
<1>7. IsFiniteSet(0 .. n - 1) /\ Cardinality(0 .. n - 1) = n
  <2> HIDE DEF n
  <2>1. 0 \in Int /\ n - 1 \in Int
    BY <1>1
  <2>2. /\ IsFiniteSet(0 .. n - 1)
        /\ Cardinality(0 .. n - 1) = IF 0 > n - 1 THEN 0 ELSE (n - 1) - 0 + 1
    BY <2>1, FS_Interval
  <2> QED
    BY <1>1, <2>2
<1>8. f \in Surjection(pool, 0 .. n - 1)
  <2> HIDE DEF f, n
  <2>1. Cardinality(pool) = Cardinality(0 .. n - 1)
    BY <1>7 DEF n
  <2> QED
    BY <1>6, <1>7, <2>1, FS_Injection
<1>9. PICK i \in pool : f[i] = k
  <2>1. k \in 0 .. n - 1
    BY <1>1
  <2> HIDE DEF f
  <2> QED
    BY <1>8, <2>1 DEF Surjection
<1>10. Cardinality({j \in pool : j < i}) = k
  BY <1>9 DEF front
<1> QED
  BY <1>10 DEF Nth

LEMMA PoolIsFinite ==
  ASSUME NEW conf \in Configurations, NEW name
  PROVE  /\ Pool(conf, name) \subseteq DOMAIN conf.models
         /\ Pool(conf, name) \in SUBSET Nat
         /\ IsFiniteSet(Pool(conf, name)) /\ Cardinality(Pool(conf, name)) \in Nat
<1>1. DOMAIN conf.models = 1 .. Len(conf.models) /\ Len(conf.models) \in Nat
  BY DEF Configurations
<1>2. IsFiniteSet(DOMAIN conf.models)
  BY <1>1, FS_Interval
<1>3. Pool(conf, name) \subseteq DOMAIN conf.models
  BY DEF Pool
<1> QED
  BY <1>1, <1>2, <1>3, FS_Subset, FS_CardinalityType

LEMMA PickIsIn ==
  ASSUME NEW conf \in Configurations, NEW name, NEW cur \in Nat, NEW p \in Pick(conf, name, cur)
  PROVE  /\ p = [entry |-> p.entry, cursor |-> p.cursor] /\ p.cursor \in Nat
         /\ p.entry \in Pool(conf, name) \/ (Pool(conf, name) = {} /\ p.entry = 0)
<1> DEFINE pool == Pool(conf, name)
           n == Cardinality(pool)
<1>1. pool \in SUBSET Nat /\ IsFiniteSet(pool) /\ n \in Nat
  BY PoolIsFinite
<1>2. conf.routing \in {"shuffle", "round_robin", "first"}
  BY DEF Configurations
<1>3. n = 0 => pool = {}
  BY <1>1, FS_EmptySet
<1>4. n > 0 => Nth(pool, 0) \in pool
  BY <1>1, NthIsIn
<1>5. n > 0 => Nth(pool, cur % n) \in pool
  <2>1. n > 0 => cur % n \in Nat /\ cur % n < n
    BY <1>1
  <2> HIDE DEF n, pool
  <2> QED
    BY <1>1, <2>1, NthIsIn DEF n
<1>6. p \in CASE n = 0 -> {[entry |-> 0, cursor |-> cur]}
            [] n = 1 \/ (n > 1 /\ conf.routing = "first") ->
                 {[entry |-> Nth(pool, 0), cursor |-> cur]}
            [] n > 1 /\ conf.routing = "round_robin" ->
                 {[entry |-> Nth(pool, cur % n), cursor |-> cur + 1]}
            [] n > 1 /\ conf.routing = "shuffle" ->
                 {[entry |-> i, cursor |-> cur] : i \in pool}
  BY DEF Pick
<1> HIDE DEF pool, n
<1>7. CASE n = 0
  <2>1. p = [entry |-> 0, cursor |-> cur]
    BY <1>6, <1>7
  <2> QED
    BY <1>3, <1>7, <2>1 DEF pool
<1>8. CASE n = 1 \/ (n > 1 /\ conf.routing = "first")
  <2>1. p = [entry |-> Nth(pool, 0), cursor |-> cur]
    BY <1>1, <1>6, <1>8
  <2> QED
    BY <1>1, <1>4, <1>8, <2>1 DEF pool
<1>9. CASE n > 1 /\ conf.routing = "round_robin"
  <2>1. p = [entry |-> Nth(pool, cur % n), cursor |-> cur + 1]
    BY <1>1, <1>6, <1>9
  <2> QED
    BY <1>1, <1>5, <1>9, <2>1 DEF pool
<1>10. CASE n > 1 /\ conf.routing = "shuffle"
  <2>1. \E i \in pool : p = [entry |-> i, cursor |-> cur]
    BY <1>1, <1>6, <1>10
  <2> QED
    BY <2>1 DEF pool
<1> QED
  BY <1>1, <1>2, <1>7, <1>8, <1>9, <1>10

LEMMA PickIsSome ==
  ASSUME NEW conf \in Configurations, NEW name, NEW cur \in Nat
  PROVE  Pick(conf, name, cur) # {}
<1> DEFINE pool == Pool(conf, name)
           n == Cardinality(pool)
<1>1. pool \in SUBSET Nat /\ IsFiniteSet(pool) /\ n \in Nat
  BY PoolIsFinite
<1>2. conf.routing \in {"shuffle", "round_robin", "first"}
  BY DEF Configurations
<1>3. n > 1 => pool # {}
  BY <1>1, FS_EmptySet
<1>4. Pick(conf, name, cur) =
        CASE n = 0 -> {[entry |-> 0, cursor |-> cur]}
          [] n = 1 \/ (n > 1 /\ conf.routing = "first") ->
               {[entry |-> Nth(pool, 0), cursor |-> cur]}
          [] n > 1 /\ conf.routing = "round_robin" ->
               {[entry |-> Nth(pool, cur % n), cursor |-> cur + 1]}
          [] n > 1 /\ conf.routing = "shuffle" ->
               {[entry |-> i, cursor |-> cur] : i \in pool}
  BY DEF Pick
<1> HIDE DEF pool, n
<1>5. CASE n = 0
  <2>1. Pick(conf, name, cur) = {[entry |-> 0, cursor |-> cur]}
    BY <1>4, <1>5
  <2> QED
    BY <2>1
<1>6. CASE n = 1 \/ (n > 1 /\ conf.routing = "first")
  <2>1. Pick(conf, name, cur) = {[entry |-> Nth(pool, 0), cursor |-> cur]}
    BY <1>1, <1>4, <1>6
  <2> QED
    BY <2>1
<1>7. CASE n > 1 /\ conf.routing = "round_robin"
  <2>1. Pick(conf, name, cur) = {[entry |-> Nth(pool, cur % n), cursor |-> cur + 1]}
    BY <1>1, <1>4, <1>7
  <2> QED
    BY <2>1
<1>8. CASE n > 1 /\ conf.routing = "shuffle"
  BY <1>1, <1>3, <1>4, <1>8
<1> QED
  BY <1>1, <1>2, <1>5, <1>6, <1>7, <1>8

(* What startup looked at is what requests fall back to: the entries that  *)
(* a default may lead to have the name of one that was looked at.          *)
LEMMA CompletionIsValid ==
  ASSUME NEW conf \in Configurations, ValidateComplete(conf),
         NEW cur \in Nat, NEW p \in DefaultCompletion(conf, cur)
  PROVE  /\ p.entry \in DOMAIN conf.models /\ p.cursor \in Nat
         /\ \E r \in DefaultCompletion(conf, 0) :
              conf.models[r.entry].name = conf.models[p.entry].name
<1>1. FirstEntry(conf) = 1 /\ 1 \in DOMAIN conf.models /\ DOMAIN conf.models \subseteq Nat \ {0}
  <2>1. conf.models # << >> /\ conf.models \in Seq(ModelEntries)
    BY DEF ValidateComplete, Configurations
  <2> QED
    BY <2>1 DEF FirstEntry
<1>2. PICK q \in Pick(conf, conf.completion, cur) :
        p = IF q.entry = 0 THEN [q EXCEPT !.entry = FirstEntry(conf)] ELSE q
  BY DEF DefaultCompletion
<1>3. /\ q = [entry |-> q.entry, cursor |-> q.cursor] /\ q.cursor \in Nat
      /\ q.entry \in Pool(conf, conf.completion)
           \/ (Pool(conf, conf.completion) = {} /\ q.entry = 0)
  BY PickIsIn
<1>4. PICK x \in Pick(conf, conf.completion, 0) : TRUE
  BY PickIsSome
<1>5. /\ x = [entry |-> x.entry, cursor |-> x.cursor]
      /\ x.entry \in Pool(conf, conf.completion)
           \/ (Pool(conf, conf.completion) = {} /\ x.entry = 0)
  BY PickIsIn
<1> DEFINE r == IF x.entry = 0 THEN [x EXCEPT !.entry = FirstEntry(conf)] ELSE x
<1>6. r \in DefaultCompletion(conf, 0)
  BY <1>4 DEF DefaultCompletion
<1>7. CASE Pool(conf, conf.completion) = {}
  <2>1. q.entry = 0 /\ x.entry = 0
    BY <1>3, <1>5, <1>7
  <2>2. p = [q EXCEPT !.entry = 1] /\ r = [x EXCEPT !.entry = 1]
    BY <1>1, <1>2, <2>1
  <2> HIDE DEF r
  <2>3. p.entry = 1 /\ p.cursor = q.cursor /\ r.entry = 1
    BY <1>3, <1>5, <2>2
  <2> QED
    BY <1>1, <1>3, <1>6, <2>3
<1>8. CASE Pool(conf, conf.completion) # {}
  <2>1. q.entry \in Pool(conf, conf.completion) /\ x.entry \in Pool(conf, conf.completion)
    BY <1>3, <1>5, <1>8
  <2>2. /\ q.entry \in DOMAIN conf.models /\ conf.models[q.entry].name = conf.completion
        /\ x.entry \in DOMAIN conf.models /\ conf.models[x.entry].name = conf.completion
    BY <2>1 DEF Pool
  <2>3. p = q /\ r = x
    BY <1>1, <1>2, <2>2
  <2> HIDE DEF r
  <2> QED
    BY <1>3, <1>6, <2>2, <2>3
<1> QED
  BY <1>7, <1>8

LEMMA ReasoningIsValid ==
  ASSUME NEW conf \in Configurations, ValidateComplete(conf),
         NEW cur \in Nat, NEW p \in DefaultReasoning(conf, cur)
  PROVE  /\ p.entry \in DOMAIN conf.models /\ p.cursor \in Nat
         /\ \E r \in DefaultCompletion(conf, 0) \cup DefaultReasoning(conf, 0) :
              conf.models[r.entry].name = conf.models[p.entry].name
<1>1. DOMAIN conf.models \subseteq Nat \ {0}
  BY DEF Configurations
<1>2. PICK q \in Pick(conf, conf.reasoning, cur) :
        p \in IF q.entry = 0 THEN DefaultCompletion(conf, q.cursor) ELSE {q}
  BY DEF DefaultReasoning
<1>3. /\ q.cursor \in Nat
      /\ q.entry \in Pool(conf, conf.reasoning)
           \/ (Pool(conf, conf.reasoning) = {} /\ q.entry = 0)
  BY PickIsIn
<1>4. CASE q.entry = 0
  <2>1. p \in DefaultCompletion(conf, q.cursor)
    BY <1>2, <1>4
  <2> QED
    BY <1>3, <2>1, CompletionIsValid
<1>5. CASE q.entry # 0
  <2>1. p = q /\ q.entry \in Pool(conf, conf.reasoning)
    BY <1>2, <1>3, <1>5
  <2>2. PICK x \in Pick(conf, conf.reasoning, 0) : TRUE
    BY PickIsSome
  <2>3. x.entry \in Pool(conf, conf.reasoning)
    BY <2>1, <2>2, PickIsIn
  <2>4. /\ q.entry \in DOMAIN conf.models /\ conf.models[q.entry].name = conf.reasoning
        /\ x.entry \in DOMAIN conf.models /\ conf.models[x.entry].name = conf.reasoning
    BY <2>1, <2>3 DEF Pool
  <2>5. x \in DefaultReasoning(conf, 0)
    <3>1. x.entry # 0
      BY <1>1, <2>4
    <3> QED
      BY <2>2, <3>1 DEF DefaultReasoning
  <2> QED
    BY <1>3, <2>1, <2>4, <2>5
<1> QED
  BY <1>4, <1>5

LEMMA DefaultIsValid ==
  ASSUME NEW conf \in Configurations, ValidateComplete(conf), NEW cur \in Nat,
         NEW p \in DefaultCompletion(conf, cur) \cup DefaultReasoning(conf, cur)
  PROVE  p.entry \in DOMAIN conf.models /\ p.cursor \in Nat /\ EntryValid(conf, p.entry)
<1>1. /\ p.entry \in DOMAIN conf.models /\ p.cursor \in Nat
      /\ \E r \in DefaultCompletion(conf, 0) \cup DefaultReasoning(conf, 0) :
           conf.models[r.entry].name = conf.models[p.entry].name
  BY CompletionIsValid, ReasoningIsValid
<1> DEFINE name == conf.models[p.entry].name
<1>2. name \in {conf.models[r.entry].name :
                  r \in DefaultCompletion(conf, 0) \cup DefaultReasoning(conf, 0)}
  BY <1>1
<1>3. \A i \in Pool(conf, name) : EntryValid(conf, i)
  BY <1>2 DEF ValidateComplete
<1>4. p.entry \in Pool(conf, name)
  BY <1>1 DEF Pool
<1> QED
  BY <1>1, <1>3, <1>4

(* Where a request goes.                                                   *)
LEMMA RoutedRight ==
  ASSUME NEW conf \in Configurations, ValidateComplete(conf), NEW cur \in Nat,
         NEW requested, NEW isReasoning \in BOOLEAN,
         NEW p \in ResolveRequestModel(conf, requested, isReasoning, cur)
  PROVE  /\ p.entry \in DOMAIN conf.models /\ p.cursor \in Nat
         /\ Pool(conf, requested) # {} \/ EntryValid(conf, p.entry)
<1>1. DOMAIN conf.models \subseteq Nat \ {0}
  BY DEF Configurations
<1>2. PICK q \in Pick(conf, requested, cur) :
        p \in CASE q.entry # 0 -> {q}
              [] q.entry = 0 /\ isReasoning -> DefaultReasoning(conf, cur)
              [] q.entry = 0 /\ ~isReasoning -> DefaultCompletion(conf, cur)
  BY DEF ResolveRequestModel
<1>3. /\ q.cursor \in Nat
      /\ q.entry \in Pool(conf, requested) \/ (Pool(conf, requested) = {} /\ q.entry = 0)
  BY PickIsIn
<1>4. CASE q.entry # 0
  <2>1. p = q
    BY <1>2, <1>4
  <2> QED
    BY <1>3, <1>4, <2>1 DEF Pool
<1>5. CASE q.entry = 0
  <2>1. p \in DefaultCompletion(conf, cur) \cup DefaultReasoning(conf, cur)
    BY <1>2, <1>5
  <2> QED
    BY <2>1, DefaultIsValid
<1> QED
  BY <1>4, <1>5

-----------------------------------------------------------------------------
(***************************************************************************)
(* Effort.                                                                 *)
(***************************************************************************)
Policies == [modelDefault : Limits, modelCap : Limits, globalDefault : Limits, globalCap : Limits]

LEMMA PolicyLimits ==
  ASSUME NEW policy \in Policies
  PROVE  Default(policy) \in Limits /\ Cap(policy) \in Limits
  BY DEF Policies, Default, Cap, First, Limits

LEMMA AppliedRight ==
  ASSUME NEW policy, NEW x, x.api \in {"openai", "anthropic", "responses"},
         x.surface \in SurfaceOf(x.api),
         Default(policy) \in Limits, Cap(policy) \in Limits
  PROVE  LET level == ApplyEffort(policy, Transformed(x.api, x.surface),
                                  EffortRequest(x.api, x.surface))
         IN level \in Nat /\ RightEffort(x, policy, level)
<1> DEFINE d == Default(policy)
           k == Cap(policy)
           e == x.surface.effort
           thinks == x.surface.thinking
           request == EffortRequest(x.api, x.surface)
           before == Transformed(x.api, x.surface)
           resolved == Resolve(policy, request)
           level == ApplyEffort(policy, before, request)
<1>1. /\ e \in {0, 1, 4, 6, NoLevel, Typo, Shouted}
      /\ x.api = "openai" => e \notin {Typo, Shouted}
      /\ x.api = "anthropic" => e # Shouted
  BY DEF SurfaceOf, Surfaces
<1>2. d \in Limits /\ k \in Limits
  OBVIOUS
<1>3. /\ request = Suppress => level = before
      /\ request = NoLevel =>
           level = IF d = NoLevel THEN before ELSE IF k < d THEN k ELSE d
      /\ request \in {0, 1, 4, 6} => level = IF k < request THEN k ELSE request
  <2>1. resolved = CASE request = Suppress -> NoLevel
                     [] request = NoLevel /\ d = NoLevel -> NoLevel
                     [] request = NoLevel /\ d # NoLevel -> IF k < d THEN k ELSE d
                     [] OTHER -> IF k < request THEN k ELSE request
    BY DEF Resolve, Clamp
  <2>2. level = IF resolved = NoLevel THEN before ELSE resolved
    BY DEF ApplyEffort
  <2> HIDE DEF d, k, e, thinks, request, before, resolved, level
  <2>3. request = Suppress => resolved = NoLevel
    BY <2>1 DEF NoLevel, Suppress
  <2>4. request = NoLevel => resolved = IF d = NoLevel THEN NoLevel ELSE IF k < d THEN k ELSE d
    BY <2>1 DEF NoLevel, Suppress
  <2>5. request \in {0, 1, 4, 6} => resolved = IF k < request THEN k ELSE request
    BY <2>1 DEF NoLevel, Suppress
  <2>6. request = Suppress => level = before
    BY <2>2, <2>3
  <2>7. ASSUME request = NoLevel
        PROVE  level = IF d = NoLevel THEN before ELSE IF k < d THEN k ELSE d
    BY <1>2, <2>2, <2>4, <2>7 DEF NoLevel, Limits, Levels
  <2>8. ASSUME request \in {0, 1, 4, 6}
        PROVE  level = IF k < request THEN k ELSE request
    BY <1>2, <2>2, <2>5, <2>8 DEF NoLevel, Limits, Levels
  <2> QED
    BY <2>6, <2>7, <2>8
<1>4. /\ OptsOut(x) =>
           (RightEffort(x, policy, level) <=>
              level = CASE x.api = "anthropic" -> NoLevel
                        [] e = Shouted -> 0
                        [] OTHER -> e)
      /\ ~OptsOut(x) /\ e \in Levels =>
           (RightEffort(x, policy, level) <=> level = IF k < e THEN k ELSE e)
      /\ ~OptsOut(x) /\ e \notin Levels =>
           (RightEffort(x, policy, level) <=>
              \/ level = IF d = NoLevel THEN NoLevel ELSE IF k < d THEN k ELSE d
              \/ thinks = "disabled" /\ level = NoLevel)
  <2>1. RightEffort(x, policy, level) <=>
          CASE OptsOut(x) ->
                 level = CASE x.api = "anthropic" -> NoLevel
                           [] e = Shouted -> 0
                           [] OTHER -> e
            [] ~OptsOut(x) /\ e \in Levels -> level = IF k < e THEN k ELSE e
            [] ~OptsOut(x) /\ e \notin Levels ->
                 \/ level = IF d = NoLevel THEN NoLevel ELSE IF k < d THEN k ELSE d
                 \/ thinks = "disabled" /\ level = NoLevel
    BY DEF RightEffort, Clamp
  <2> HIDE DEF d, k, e, thinks, request, before, resolved, level
  <2> QED
    BY <2>1
<1>5. CASE x.api = "openai"
  <2>1. /\ request = IF e = 0 THEN Suppress ELSE e
        /\ before = Parsed(e) /\ (OptsOut(x) <=> e = 0)
    BY <1>5 DEF EffortRequest, Transformed, OptsOut
  <2>2. Parsed(e) = e
    BY <1>1, <1>5 DEF Parsed, Typo, Shouted, NoLevel
  <2> HIDE DEF d, k, e, thinks, request, before, resolved, level
  <2>3. request \in {0, 1, 4, 6, NoLevel, Suppress} /\ before \in Nat
    BY <1>1, <2>1, <2>2, <1>5 DEF Suppress, NoLevel, Typo, Shouted
  <2>4. level \in Nat
    BY <1>2, <1>3, <2>3 DEF Suppress, NoLevel, Limits, Levels
  <2>5. ASSUME OptsOut(x)
        PROVE  RightEffort(x, policy, level)
    BY <1>1, <1>3, <1>4, <1>5, <2>1, <2>2, <2>5 DEF Suppress, NoLevel, Typo, Shouted, Levels
  <2>6. ASSUME ~OptsOut(x) /\ e \in Levels
        PROVE  RightEffort(x, policy, level)
    BY <1>1, <1>2, <1>3, <1>4, <1>5, <2>1, <2>2, <2>6
    DEF Suppress, NoLevel, Typo, Shouted, Limits, Levels
  <2>7. ASSUME ~OptsOut(x) /\ e \notin Levels
        PROVE  RightEffort(x, policy, level)
    BY <1>1, <1>2, <1>3, <1>4, <1>5, <2>1, <2>2, <2>7
    DEF Suppress, NoLevel, Typo, Shouted, Limits, Levels
  <2>8. level \in Nat /\ RightEffort(x, policy, level)
    BY <2>4, <2>5, <2>6, <2>7
  <2> QED
    BY <2>8 DEF level, before, request
<1>6. CASE x.api = "responses"
  <2>1. /\ request = IF Parsed(e) \in {0, 1} THEN Suppress ELSE Parsed(e)
        /\ before = Parsed(e) /\ (OptsOut(x) <=> e \in {0, 1, Shouted})
    BY <1>6 DEF EffortRequest, Transformed, OptsOut
  <2>2. Parsed(e) = IF e = Typo THEN NoLevel ELSE IF e = Shouted THEN 0 ELSE e
    BY DEF Parsed, Typo, Shouted
  <2> HIDE DEF d, k, e, thinks, request, before, resolved, level
  <2>3. request \in {0, 1, 4, 6, NoLevel, Suppress} /\ before \in Nat
    BY <1>1, <2>1, <2>2, <1>6 DEF Suppress, NoLevel, Typo, Shouted
  <2>4. level \in Nat
    BY <1>2, <1>3, <2>3 DEF Suppress, NoLevel, Limits, Levels
  <2>5. ASSUME OptsOut(x)
        PROVE  RightEffort(x, policy, level)
    BY <1>1, <1>3, <1>4, <1>6, <2>1, <2>2, <2>5 DEF Suppress, NoLevel, Typo, Shouted, Levels
  <2>6. ASSUME ~OptsOut(x) /\ e \in Levels
        PROVE  RightEffort(x, policy, level)
    BY <1>1, <1>2, <1>3, <1>4, <1>6, <2>1, <2>2, <2>6
    DEF Suppress, NoLevel, Typo, Shouted, Limits, Levels
  <2>7. ASSUME ~OptsOut(x) /\ e \notin Levels
        PROVE  RightEffort(x, policy, level)
    BY <1>1, <1>2, <1>3, <1>4, <1>6, <2>1, <2>2, <2>7
    DEF Suppress, NoLevel, Typo, Shouted, Limits, Levels
  <2>8. level \in Nat /\ RightEffort(x, policy, level)
    BY <2>4, <2>5, <2>6, <2>7
  <2> QED
    BY <2>8 DEF level, before, request
<1>7. CASE x.api = "anthropic"
  <2>1. /\ request = IF e # NoLevel THEN Parsed(e)
                     ELSE IF thinks = "disabled" THEN Suppress ELSE NoLevel
        /\ before = NoLevel /\ (OptsOut(x) <=> e = NoLevel /\ thinks = "disabled")
    BY <1>7 DEF EffortRequest, Transformed, OptsOut
  <2>2. Parsed(e) = IF e = Typo THEN NoLevel ELSE e
    BY <1>1, <1>7 DEF Parsed, Typo, Shouted
  <2> HIDE DEF d, k, e, thinks, request, before, resolved, level
  <2>3. request \in {0, 1, 4, 6, NoLevel, Suppress} /\ before \in Nat
    BY <1>1, <2>1, <2>2, <1>7 DEF Suppress, NoLevel, Typo, Shouted
  <2>4. level \in Nat
    BY <1>2, <1>3, <2>3 DEF Suppress, NoLevel, Limits, Levels
  <2>5. ASSUME OptsOut(x)
        PROVE  RightEffort(x, policy, level)
    BY <1>1, <1>3, <1>4, <1>7, <2>1, <2>2, <2>5 DEF Suppress, NoLevel, Typo, Shouted, Levels
  <2>6. ASSUME ~OptsOut(x) /\ e \in Levels
        PROVE  RightEffort(x, policy, level)
    BY <1>1, <1>2, <1>3, <1>4, <1>7, <2>1, <2>2, <2>6
    DEF Suppress, NoLevel, Typo, Shouted, Limits, Levels
  <2>7. ASSUME ~OptsOut(x) /\ e \notin Levels
        PROVE  RightEffort(x, policy, level)
    BY <1>1, <1>2, <1>3, <1>4, <1>7, <2>1, <2>2, <2>7
    DEF Suppress, NoLevel, Typo, Shouted, Limits, Levels
  <2>8. level \in Nat /\ RightEffort(x, policy, level)
    BY <2>4, <2>5, <2>6, <2>7
  <2> QED
    BY <2>8 DEF level, before, request
<1> QED
  BY <1>5, <1>6, <1>7

-----------------------------------------------------------------------------
(***************************************************************************)
(* Searches.                                                               *)
(***************************************************************************)
Preferences == [engine : Engines, results : MAX_RESULTS_MIN .. MAX_RESULTS_MAX]

LEMMA ClampedInBounds ==
  ASSUME NEW n \in Nat PROVE Clamped(n) \in MAX_RESULTS_MIN .. MAX_RESULTS_MAX
  BY DEF Clamped, MAX_RESULTS_MIN, MAX_RESULTS_MAX

LEMMA TunedRight ==
  ASSUME NEW base \in Preferences, NEW d \in DecideAnswers \cup {NoAnswers}
  PROVE  /\ Tune(base, d) \in Preferences
         /\ base.engine # "auto" => Tune(base, d).engine = base.engine
<1>1. CASE d = NoAnswers
  BY <1>1 DEF Tune
<1>2. CASE d # NoAnswers
  <2> DEFINE family == IF d.family = "none" THEN "auto" ELSE d.family
             engine == CASE base.engine # "auto" -> base.engine
                         [] base.engine = "auto" /\ d.russia -> "yandex"
                         [] OTHER -> family
             results == CASE d.breadth = "focused" -> 3
                          [] d.breadth = "broad" -> 10
                          [] d.breadth = "none" /\ d.fresh -> 10
                          [] OTHER -> base.results
  <2>1. d \in DecideAnswers
    BY <1>2
  <2>2. family \in Engines /\ base.engine \in Engines /\ base.results \in Nat
    BY <2>1 DEF DecideAnswers, Engines, Preferences, MAX_RESULTS_MIN, MAX_RESULTS_MAX
  <2>3. engine \in Engines /\ (base.engine # "auto" => engine = base.engine)
    <3> HIDE DEF family
    <3> QED
      BY <2>2 DEF Engines
  <2>4. results \in Nat
    BY <2>2
  <2>5. Tune(base, d) = [engine |-> engine, results |-> Clamped(results)]
    BY <1>2 DEF Tune, Apply, Settings
  <2> HIDE DEF engine, results, family
  <2> QED
    BY <2>3, <2>4, <2>5, ClampedInBounds DEF Preferences
<1> QED
  BY <1>1, <1>2

LEMMA SettingsRight ==
  ASSUME NEW conf \in Configurations, NEW texts, NEW d \in DecideAnswers \cup {NoAnswers},
         NEW first \in Backend
  PROVE  LET chosen == ResolveSettings(conf, texts, d)
         IN /\ Asked(chosen, first)[1] = chosen.engine
            /\ chosen.results \in MAX_RESULTS_MIN .. MAX_RESULTS_MAX
            /\ Vetoed(texts) /\ chosen.engine = "yandex" => conf.engine = "yandex"
            /\ conf.engine # "auto" =>
                 \/ chosen.engine = conf.engine
                 \/ conf.engine = "yandex" /\ Vetoed(texts) /\ conf.searchDecide
            /\ conf.engine = "auto" /\ ~Vetoed(texts) /\ "names" \in texts =>
                 chosen.engine = "yandex"
<1> DEFINE named == ExplicitEngineIn(texts)
           plain == SettingsFromConfig(conf)
           base == IF conf.engine = "auto" /\ named # "none"
                     THEN [plain EXCEPT !.engine = named] ELSE plain
           tuned == Tune(base, d)
           chosen == ResolveSettings(conf, texts, d)
<1>1. /\ plain = [engine |-> conf.engine, results |-> Clamped(conf.maxResults)]
      /\ plain \in Preferences /\ conf.engine \in Engines
  <2>1. conf.engine \in Engines /\ conf.maxResults \in Nat
    BY DEF Configurations
  <2> QED
    BY <2>1, ClampedInBounds DEF SettingsFromConfig, Settings, Preferences
<1>2. named = IF ~Vetoed(texts) /\ "names" \in texts THEN "yandex" ELSE "none"
  BY DEF ExplicitEngineIn
<1> HIDE DEF named, plain
<1>3. /\ base \in Preferences
      /\ Vetoed(texts) => base.engine = conf.engine
      /\ conf.engine # "auto" => base.engine = conf.engine
      /\ ~Vetoed(texts) /\ conf.engine = "auto" /\ "names" \in texts => base.engine = "yandex"
  BY <1>1, <1>2 DEF Preferences, Engines
<1>4. chosen = IF ~conf.searchDecide THEN base
               ELSE IF Vetoed(texts) /\ tuned.engine = "yandex"
                 THEN [tuned EXCEPT !.engine = "auto"] ELSE tuned
  BY DEF ResolveSettings, plain, named
<1> HIDE DEF base
<1>5. tuned \in Preferences /\ (base.engine # "auto" => tuned.engine = base.engine)
  BY <1>3, TunedRight
<1> HIDE DEF tuned, chosen
<1>6. chosen \in Preferences
  BY <1>3, <1>4, <1>5 DEF Preferences, Engines
<1>7. Asked(chosen, first)[1] = chosen.engine
  BY DEF Asked
<1>8. Vetoed(texts) /\ chosen.engine = "yandex" => conf.engine = "yandex"
  BY <1>3, <1>4, <1>5 DEF Preferences
<1>9. /\ conf.engine # "auto" =>
           \/ chosen.engine = conf.engine
           \/ conf.engine = "yandex" /\ Vetoed(texts) /\ conf.searchDecide
      /\ conf.engine = "auto" /\ ~Vetoed(texts) /\ "names" \in texts =>
           chosen.engine = "yandex"
  BY <1>3, <1>4, <1>5
<1> QED
  BY <1>6, <1>7, <1>8, <1>9 DEF chosen, Preferences

-----------------------------------------------------------------------------
(***************************************************************************)
(* Those of a sequence that are in a set.                                  *)
(***************************************************************************)
Sifted(seq, set, n, f) ==
  f = [k \in 0 .. n |->
         IF k = 0 THEN << >>
         ELSE IF seq[k] \in set THEN Append(f[k - 1], seq[k]) ELSE f[k - 1]]

LEMMA SiftedExists ==
  ASSUME NEW seq, NEW set, NEW n \in Nat
  PROVE  \E f : Sifted(seq, set, n, f)
<1> DEFINE T == {m \in Nat : ~\E f : Sifted(seq, set, m, f)}
<1>1. CASE T = {}
  BY <1>1
<1>2. CASE T # {}
  <2>1. PICK m \in T : \A k \in T : m <= k
    BY <1>2, LeastOf
  <2>2. CASE m = 0
    <3> DEFINE f == [k \in 0 .. 0 |-> << >>]
    <3>1. f = [k \in 0 .. 0 |->
                IF k = 0 THEN << >>
                ELSE IF seq[k] \in set THEN Append(f[k - 1], seq[k]) ELSE f[k - 1]]
      OBVIOUS
    <3> QED
      BY <2>1, <2>2, <3>1 DEF Sifted
  <2>3. CASE m # 0
    <3>1. m - 1 \in Nat /\ m - 1 \notin T
      BY <2>1, <2>3
    <3>2. PICK g : Sifted(seq, set, m - 1, g)
      BY <3>1
    <3> DEFINE f == [k \in 0 .. m |->
                       IF k = m THEN (IF seq[m] \in set THEN Append(g[m - 1], seq[m])
                                      ELSE g[m - 1])
                       ELSE g[k]]
    <3>3. f = [k \in 0 .. m |->
                IF k = 0 THEN << >>
                ELSE IF seq[k] \in set THEN Append(f[k - 1], seq[k]) ELSE f[k - 1]]
      <4>1. ASSUME NEW k \in 0 .. m
            PROVE  f[k] = IF k = 0 THEN << >>
                          ELSE IF seq[k] \in set THEN Append(f[k - 1], seq[k]) ELSE f[k - 1]
        <5>1. CASE k = m
          BY <2>3, <5>1, <3>1
        <5>2. CASE k # m
          <6>1. k \in 0 .. m - 1 /\ f[k] = g[k]
            BY <3>1, <5>2
          <6>2. k # 0 => k - 1 \in 0 .. m /\ k - 1 # m
            BY <3>1, <6>1
          <6>3. k # 0 => f[k - 1] = g[k - 1]
            BY <6>2
          <6> HIDE DEF f
          <6> QED
            BY <3>2, <6>1, <6>3 DEF Sifted
        <5> QED
          BY <5>1, <5>2
      <4> QED
        BY <4>1
    <3> HIDE DEF f
    <3> QED
      BY <2>1, <3>3 DEF Sifted
  <2> QED
    BY <2>2, <2>3
<1> QED
  BY <1>1, <1>2

LEMMA AmongIs ==
  ASSUME NEW seq, NEW set, Len(seq) \in Nat
  PROVE  \E f : Sifted(seq, set, Len(seq), f) /\ Among(seq, set) = f[Len(seq)]
<1> DEFINE n == Len(seq)
           f == CHOOSE g : Sifted(seq, set, n, g)
<1>1. Sifted(seq, set, n, f)
  <2> HIDE DEF n
  <2>1. n \in Nat
    BY DEF n
  <2> QED
    BY <2>1, SiftedExists
<1>2. Among(seq, set) = f[n]
  BY DEF Among, Sifted
<1> QED
  BY <1>1, <1>2

(* Every prefix is sifted to a sequence of what was in the set, ...        *)
Steps(S, seq, set, f) ==
  /\ Among(seq, set) = f[Len(seq)] /\ f[0] = << >>
  /\ \A k \in 0 .. Len(seq) :
       /\ f[k] \in Seq(set \cap S)
       /\ k # 0 => f[k] = IF seq[k] \in set THEN Append(f[k - 1], seq[k]) ELSE f[k - 1]

LEMMA AmongSteps ==
  ASSUME NEW S, NEW seq \in Seq(S), NEW set
  PROVE  \E f : Steps(S, seq, set, f)
<1> DEFINE n == Len(seq)
<1>1. n \in Nat
  OBVIOUS
<1>5. PICK f : Sifted(seq, set, Len(seq), f) /\ Among(seq, set) = f[Len(seq)]
  BY <1>1, AmongIs
<1> DEFINE T == {k \in 0 .. n : f[k] \notin Seq(set \cap S)}
<1>2. \A k \in 0 .. n :
        f[k] = IF k = 0 THEN << >>
               ELSE IF seq[k] \in set THEN Append(f[k - 1], seq[k]) ELSE f[k - 1]
  BY <1>5 DEF Sifted
<1> DEFINE W == set \cap S
<1>a. << >> \in Seq(W)
  OBVIOUS
<1>3. ASSUME T # {} PROVE FALSE
  <2>1. T \in SUBSET Nat
    BY <1>1
  <2> HIDE DEF T
  <2>2. PICK m \in T : \A k \in T : m <= k
    BY <1>3, <2>1, LeastOf
  <2>3. m \in 0 .. n /\ f[m] \notin Seq(set \cap S)
    BY <2>2 DEF T
  <2>4. CASE m = 0
    <3>1. f[m] = << >>
      BY <1>2, <2>3, <2>4
    <3> QED
      BY <1>a, <2>3, <3>1
  <2>5. CASE m # 0
    <3>1. m - 1 \in 0 .. n /\ ~(m <= m - 1) /\ m \in 1 .. n
      BY <1>1, <2>3, <2>5
    <3>2. m - 1 \notin T
      BY <2>2, <3>1
    <3>3. f[m - 1] \in Seq(set \cap S) /\ seq[m] \in S
      BY <3>1, <3>2 DEF T
    <3>4. f[m] = IF seq[m] \in set THEN Append(f[m - 1], seq[m]) ELSE f[m - 1]
      BY <1>2, <2>3, <2>5
    <3> QED
      BY <2>3, <3>3, <3>4
  <2> QED
    BY <2>4, <2>5
<1>4. \A k \in 0 .. n : f[k] \in Seq(set \cap S)
  BY <1>3
<1>6. Among(seq, set) = f[n] /\ f[0] = << >>
  BY <1>1, <1>2, <1>5
<1> QED
  BY <1>2, <1>4, <1>6 DEF Steps

LEMMA AmongType ==
  ASSUME NEW S, NEW seq \in Seq(S), NEW set
  PROVE  Among(seq, set) \in Seq(set \cap S)
<1>1. Len(seq) \in 0 .. Len(seq) /\ Len(seq) \in Nat
  OBVIOUS
<1>2. PICK f : Steps(S, seq, set, f)
  BY AmongSteps
<1> QED
  BY <1>1, <1>2 DEF Steps

(* ... nothing is left where nothing is in the set, ...                    *)
LEMMA AmongNone ==
  ASSUME NEW S, NEW seq \in Seq(S), NEW set
  PROVE  Among(seq, set) = << >> <=> \A i \in 1 .. Len(seq) : seq[i] \notin set
<1> DEFINE n == Len(seq)
<1>1. n \in Nat
  OBVIOUS
<1>2. PICK f : Steps(S, seq, set, f)
  BY AmongSteps
<1>3. \A k \in 0 .. n :
        /\ f[k] \in Seq(set \cap S)
        /\ k # 0 => f[k] = IF seq[k] \in set THEN Append(f[k - 1], seq[k]) ELSE f[k - 1]
  BY <1>2 DEF Steps
<1>4. f[0] = << >> /\ Among(seq, set) = f[n]
  BY <1>2 DEF Steps
<1>5. ASSUME \A i \in 1 .. n : seq[i] \notin set
      PROVE  f[n] = << >>
  <2> DEFINE T == {k \in 0 .. n : f[k] # << >>}
  <2>1. ASSUME T # {} PROVE FALSE
    <3>1. T \in SUBSET Nat
      BY <1>1
    <3> HIDE DEF T
    <3>2. PICK m \in T : \A k \in T : m <= k
      BY <2>1, <3>1, LeastOf
    <3>3. m \in 1 .. n /\ f[m] # << >>
      BY <1>4, <3>2 DEF T
    <3>4. m - 1 \in 0 .. n /\ ~(m <= m - 1) /\ m \in 0 .. n /\ m # 0
      BY <1>1, <3>3
    <3>5. f[m - 1] = << >>
      BY <3>2, <3>4 DEF T
    <3> QED
      BY <1>3, <1>5, <3>3, <3>4, <3>5
  <2> QED
    BY <1>1, <2>1
<1>6. ASSUME NEW i \in 1 .. n, seq[i] \in set
      PROVE  f[n] # << >>
  <2> DEFINE T == {k \in i .. n : f[k] = << >>}
  <2>1. ASSUME T # {} PROVE FALSE
    <3>1. T \in SUBSET Nat
      BY <1>1
    <3> HIDE DEF T
    <3>2. PICK m \in T : \A k \in T : m <= k
      BY <2>1, <3>1, LeastOf
    <3>3. m \in i .. n /\ f[m] = << >>
      BY <3>2 DEF T
    <3>4. m - 1 \in 0 .. n /\ ~(m <= m - 1) /\ m \in 0 .. n /\ m # 0
      BY <1>1, <3>3
    <3>5. f[m - 1] \in Seq(set \cap S)
      BY <1>3, <3>4
    <3>6. f[m] = IF seq[m] \in set THEN Append(f[m - 1], seq[m]) ELSE f[m - 1]
      BY <1>3, <3>4
    <3>7. CASE seq[m] \in set
      BY <3>3, <3>5, <3>6, <3>7
    <3>8. CASE seq[m] \notin set
      <4>1. m - 1 \in i .. n
        BY <1>1, <1>6, <3>3, <3>8
      <4>2. m - 1 \in T
        BY <3>3, <3>6, <3>8, <4>1 DEF T
      <4> QED
        BY <3>2, <3>4, <4>2
    <3> QED
      BY <3>7, <3>8
  <2>2. n \in i .. n
    BY <1>1, <1>6
  <2> QED
    BY <2>1, <2>2
<1> QED
  BY <1>4, <1>5, <1>6

(* ... a prefix with nothing in the set does not matter, and a sequence of *)
(* what is in the set stays as it is.                                      *)
LEMMA AmongJoin ==
  ASSUME NEW S, NEW a \in Seq(S), NEW b \in Seq(S), NEW set,
         \A i \in 1 .. Len(a) : a[i] \notin set, \A i \in 1 .. Len(b) : b[i] \in set
  PROVE  Among(a \o b, set) = b
<1> DEFINE seq == a \o b
           n == Len(seq)
           l == Len(a)
<1>1. /\ seq \in Seq(S) /\ n \in Nat /\ l \in Nat /\ Len(b) \in Nat /\ n = l + Len(b)
      /\ \A i \in 1 .. l : seq[i] = a[i]
      /\ \A i \in 1 .. Len(b) : seq[l + i] = b[i]
  OBVIOUS
<1> HIDE DEF seq, n, l
<1>2. PICK f : Steps(S, seq, set, f)
  BY <1>1, AmongSteps
<1>3. \A k \in 0 .. n :
        /\ f[k] \in Seq(set \cap S)
        /\ k # 0 => f[k] = IF seq[k] \in set THEN Append(f[k - 1], seq[k]) ELSE f[k - 1]
  BY <1>2 DEF Steps, n
<1>4. f[0] = << >> /\ Among(seq, set) = f[n]
  BY <1>2 DEF Steps, n
<1> DEFINE g(k) == IF k <= l THEN << >> ELSE SubSeq(b, 1, k - l)
           T == {k \in 0 .. n : f[k] # g(k)}
<1>5. ASSUME T # {} PROVE FALSE
  <2>1. T \in SUBSET Nat
    BY <1>1
  <2> HIDE DEF T
  <2>2. PICK m \in T : \A k \in T : m <= k
    BY <1>5, <2>1, LeastOf
  <2>3. m \in 0 .. n /\ f[m] # g(m)
    BY <2>2 DEF T
  <2>4. m # 0
    BY <1>1, <1>4, <2>3
  <2>5. m - 1 \in 0 .. n /\ ~(m <= m - 1) /\ m \in 1 .. n
    BY <1>1, <2>3, <2>4
  <2>6. f[m - 1] = g(m - 1)
    BY <2>2, <2>5 DEF T
  <2>7. f[m] = IF seq[m] \in set THEN Append(f[m - 1], seq[m]) ELSE f[m - 1]
    BY <1>3, <2>3, <2>4
  <2>8. CASE m <= l
    <3>1. m \in 1 .. l /\ m - 1 <= l
      BY <1>1, <2>5, <2>8
    <3>2. seq[m] \notin set
      BY <1>1, <3>1 DEF l
    <3> QED
      BY <2>3, <2>6, <2>7, <2>8, <3>1, <3>2
  <2>9. CASE ~(m <= l)
    <3> DEFINE j == m - l
    <3>1. j \in 1 .. Len(b) /\ m = l + j
      BY <1>1, <2>5, <2>9
    <3>2. seq[m] = b[j] /\ b[j] \in set
      BY <1>1, <3>1
    <3>3. f[m - 1] = SubSeq(b, 1, j - 1)
      <4>1. CASE m - 1 <= l
        <5>1. j = 1
          BY <1>1, <3>1, <4>1
        <5> QED
          BY <2>6, <4>1, <5>1
      <4>2. CASE ~(m - 1 <= l)
        <5>1. m - 1 - l = j - 1
          BY <1>1, <2>5
        <5> QED
          BY <2>6, <4>2, <5>1
      <4> QED
        BY <4>1, <4>2
    <3>4. Append(SubSeq(b, 1, j - 1), b[j]) = SubSeq(b, 1, j)
      <4> HIDE DEF j
      <4> QED
        BY <3>1
    <3> QED
      BY <2>3, <2>7, <2>9, <3>2, <3>3, <3>4
  <2> QED
    BY <2>8, <2>9
<1>6. f[n] = g(n)
  BY <1>1, <1>5
<1>7. g(n) = b
  <2>1. CASE Len(b) = 0
    BY <1>1, <2>1
  <2>2. CASE Len(b) # 0
    <3>1. ~(n <= l) /\ n - l = Len(b)
      BY <1>1, <2>2
    <3>2. SubSeq(b, 1, Len(b)) = b
      OBVIOUS
    <3> QED
      BY <3>1, <3>2
  <2> QED
    BY <2>1, <2>2
<1> QED
  BY <1>4, <1>6, <1>7 DEF seq

-----------------------------------------------------------------------------
(***************************************************************************)
(* Conversations.                                                          *)
(***************************************************************************)
LEMMA JoinedWell ==
  ASSUME NEW a \in Seq(ChatRecords), NEW b \in Seq(ChatRecords),
         WellFormedChat(a), WellFormedChat(b)
  PROVE  a \o b \in Seq(ChatRecords) /\ WellFormedChat(a \o b)
<1> DEFINE l == Len(a)
           n == Len(b)
           m == a \o b
<1>1. /\ m \in Seq(ChatRecords) /\ Len(m) = l + n /\ l \in Nat /\ n \in Nat
      /\ \A i \in 1 .. l : m[i] = a[i]
      /\ \A i \in 1 .. n : m[l + i] = b[i]
  OBVIOUS
<1> HIDE DEF m
<1>2. /\ \A i \in 1 .. l : a[i] \in ChatRecords
      /\ \A i \in 1 .. n : b[i] \in ChatRecords
  OBVIOUS
<1>3. \A x \in ChatRecords : Len(x.calls) \in Nat
  BY DEF ChatRecords
<1> HIDE DEF l, n
<1>4. ASSUME NEW i \in 1 .. l + n
      PROVE  i \in 1 .. l \/ (i - l \in 1 .. n /\ i = l + (i - l) /\ i \notin 1 .. l)
  BY <1>1
<1>5. ASSUME NEW i \in 1 .. Len(m), m[i].calls # << >>
      PROVE  i + Len(m[i].calls) <= Len(m) /\ Answered(m, i) = ToSet(m[i].calls)
  <2>1. CASE i \in 1 .. l
    <3> DEFINE k == Len(a[i].calls)
    <3>1. m[i] = a[i] /\ k \in Nat
      BY <1>1, <1>2, <1>3, <2>1
    <3>2. i + k <= l /\ Answered(a, i) = ToSet(a[i].calls)
      BY <1>5, <2>1, <3>1 DEF WellFormedChat, l
    <3> HIDE DEF k
    <3>3. i + k <= l + n
      BY <1>1, <2>1, <3>1, <3>2
    <3>4. \A j \in (i + 1) .. (i + k) : j \in 1 .. l
      BY <1>1, <2>1, <3>1, <3>2
    <3>5. {m[j].answers : j \in (i + 1) .. (i + k)} = {a[j].answers : j \in (i + 1) .. (i + k)}
      BY <1>1, <3>4
    <3> QED
      BY <1>1, <3>1, <3>2, <3>3, <3>5 DEF Answered, k
  <2>2. CASE i \notin 1 .. l
    <3> DEFINE o == i - l
               k == Len(b[o].calls)
    <3>0. o \in 1 .. n /\ i = l + o
      BY <1>1, <1>4, <2>2
    <3> HIDE DEF o
    <3>1. m[i] = b[o] /\ k \in Nat
      BY <1>1, <1>2, <1>3, <3>0
    <3>2. o + k <= n /\ Answered(b, o) = ToSet(b[o].calls)
      BY <1>5, <3>0, <3>1 DEF WellFormedChat, n
    <3> HIDE DEF k
    <3>3. i + k <= l + n
      BY <1>1, <3>0, <3>1, <3>2
    <3>4. ASSUME NEW j \in (i + 1) .. (i + k)
          PROVE  j - l \in (o + 1) .. (o + k) /\ m[j] = b[j - l]
      <4>1. j - l \in 1 .. n /\ j = l + (j - l)
        BY <1>1, <3>0, <3>1, <3>2
      <4> QED
        BY <1>1, <3>0, <3>1, <4>1
    <3>5. ASSUME NEW j \in (o + 1) .. (o + k)
          PROVE  l + j \in (i + 1) .. (i + k) /\ m[l + j] = b[j]
      BY <1>1, <3>0, <3>1, <3>2
    <3>6. {m[j].answers : j \in (i + 1) .. (i + k)} = {b[j].answers : j \in (o + 1) .. (o + k)}
      <4> DEFINE P == (i + 1) .. (i + k)
                 Q == (o + 1) .. (o + k)
      <4>1. \A j \in P : j - l \in Q /\ m[j] = b[j - l]
        BY <3>4
      <4>2. \A j \in Q : l + j \in P /\ m[l + j] = b[j]
        BY <3>5
      <4> HIDE DEF P, Q
      <4>3. {m[j].answers : j \in P} = {b[j].answers : j \in Q}
        BY <4>1, <4>2
      <4> QED
        BY <4>3 DEF P, Q
    <3> QED
      BY <1>1, <3>1, <3>2, <3>3, <3>6 DEF Answered, k
  <2> QED
    BY <2>1, <2>2
<1>6. ASSUME NEW j \in 1 .. Len(m), m[j].answers # NoId
      PROVE  \E i \in 1 .. (j - 1) : j <= i + Len(m[i].calls)
  <2>1. CASE j \in 1 .. l
    <3>1. m[j] = a[j]
      BY <1>1, <2>1
    <3>2. PICK i \in 1 .. (j - 1) : j <= i + Len(a[i].calls)
      BY <1>6, <2>1, <3>1 DEF WellFormedChat, l
    <3>3. i \in 1 .. l
      BY <1>1, <2>1, <3>2
    <3> QED
      BY <1>1, <3>2, <3>3
  <2>2. CASE j \notin 1 .. l
    <3> DEFINE o == j - l
    <3>0. o \in 1 .. n /\ j = l + o
      BY <1>1, <1>4, <2>2
    <3> HIDE DEF o
    <3>1. m[j] = b[o]
      BY <1>1, <3>0
    <3>2. PICK i \in 1 .. (o - 1) : o <= i + Len(b[i].calls)
      BY <1>6, <3>0, <3>1 DEF WellFormedChat, n
    <3>3. i \in 1 .. n /\ l + i \in 1 .. (j - 1)
      BY <1>1, <3>0, <3>2
    <3>4. m[l + i] = b[i] /\ Len(b[i].calls) \in Nat
      BY <1>1, <1>2, <1>3, <3>3
    <3>5. j <= (l + i) + Len(b[i].calls)
      <4> DEFINE q == Len(b[i].calls)
      <4>1. q \in Nat /\ o <= i + q /\ i \in Nat /\ o \in Nat /\ l \in Nat /\ j = l + o
        BY <1>1, <3>0, <3>2, <3>4
      <4> HIDE DEF q
      <4>2. j <= (l + i) + q
        BY <4>1
      <4> QED
        BY <4>2 DEF q
    <3> QED
      BY <3>3, <3>4, <3>5
  <2> QED
    BY <2>1, <2>2
<1>7. WellFormedChat(m)
  BY <1>5, <1>6 DEF WellFormedChat
<1> QED
  BY <1>1, <1>7 DEF m

(* The weaker form of the protocol.                                        *)
LEMMA StrictPaired ==
  ASSUME NEW m \in Seq(ChatRecords), WellFormedChat(m)
  PROVE  Paired(m)
<1>1. ASSUME NEW i \in 1 .. Len(m)
      PROVE  Len(m[i].calls) \in Nat /\ m[i].calls \in Seq(Nat)
  <2>1. m[i] \in ChatRecords
    OBVIOUS
  <2>2. m[i].calls \in Seq(Nat)
    BY <2>1 DEF ChatRecords
  <2> QED
    BY <2>2
<1>2. ASSUME NEW i \in 1 .. Len(m), NEW id \in ToSet(m[i].calls)
      PROVE  \E j \in (i + 1) .. Len(m) : m[j].answers = id
  <2>1. m[i].calls # << >>
    BY <1>1 DEF ToSet
  <2>2. i + Len(m[i].calls) <= Len(m) /\ id \in Answered(m, i)
    BY <2>1 DEF WellFormedChat
  <2>3. PICK j \in (i + 1) .. (i + Len(m[i].calls)) : id = m[j].answers
    BY <2>2 DEF Answered
  <2>4. j \in (i + 1) .. Len(m)
    <3> DEFINE k == Len(m[i].calls)
    <3>1. k \in Nat
      BY <1>1
    <3>2. i + k <= Len(m) /\ j \in (i + 1) .. (i + k)
      BY <2>2, <2>3
    <3>3. Len(m) \in Nat /\ i \in Nat
      OBVIOUS
    <3> HIDE DEF k
    <3> QED
      BY <3>1, <3>2, <3>3
  <2> QED
    BY <2>3, <2>4
<1>3. ASSUME NEW j \in 1 .. Len(m), m[j].answers # NoId
      PROVE  \E i \in 1 .. (j - 1) : m[j].answers \in ToSet(m[i].calls)
  <2>1. PICK i \in 1 .. (j - 1) : j <= i + Len(m[i].calls)
    BY <1>3 DEF WellFormedChat
  <2> DEFINE k == Len(m[i].calls)
  <2>2. i \in 1 .. Len(m)
    BY <2>1
  <2>3. k \in Nat /\ j <= i + k
    BY <1>1, <2>1, <2>2
  <2>4. m[i].calls # << >>
    <3>1. k # 0
      <4> HIDE DEF k
      <4> QED
        BY <2>1, <2>3
    <3> QED
      BY <3>1
  <2>5. Answered(m, i) = ToSet(m[i].calls)
    BY <2>2, <2>4 DEF WellFormedChat
  <2>6. Answered(m, i) = {m[q].answers : q \in (i + 1) .. (i + k)}
    BY DEF Answered
  <2> HIDE DEF k
  <2>7. j \in (i + 1) .. (i + k)
    BY <2>1, <2>2, <2>3
  <2> QED
    BY <2>1, <2>5, <2>6, <2>7
<1> QED
  BY <1>2, <1>3 DEF Paired

LEMMA JoinedPaired ==
  ASSUME NEW a \in Seq(ChatRecords), NEW b \in Seq(ChatRecords), Paired(a), Paired(b)
  PROVE  Paired(a \o b)
<1> DEFINE l == Len(a)
           n == Len(b)
           m == a \o b
<1>1. /\ Len(m) = l + n /\ l \in Nat /\ n \in Nat
      /\ \A i \in 1 .. l : m[i] = a[i]
      /\ \A i \in 1 .. n : m[l + i] = b[i]
  OBVIOUS
<1>2. /\ \A i \in 1 .. l : \A id \in ToSet(a[i].calls) :
           \E j \in (i + 1) .. l : a[j].answers = id
      /\ \A j \in 1 .. l : a[j].answers # NoId =>
           \E i \in 1 .. (j - 1) : a[j].answers \in ToSet(a[i].calls)
  BY DEF Paired
<1>3. /\ \A i \in 1 .. n : \A id \in ToSet(b[i].calls) :
           \E j \in (i + 1) .. n : b[j].answers = id
      /\ \A j \in 1 .. n : b[j].answers # NoId =>
           \E i \in 1 .. (j - 1) : b[j].answers \in ToSet(b[i].calls)
  BY DEF Paired
<1> HIDE DEF l, n, m
<1>4. ASSUME NEW i \in 1 .. Len(m)
      PROVE  i \in 1 .. l \/ \E k \in 1 .. n : i = l + k
  <2>1. i \in 1 .. l \/ (i - l \in 1 .. n /\ i = l + (i - l))
    BY <1>1
  <2> QED
    BY <2>1
<1>5. ASSUME NEW i \in 1 .. Len(m), NEW id \in ToSet(m[i].calls)
      PROVE  \E j \in (i + 1) .. Len(m) : m[j].answers = id
  <2>1. CASE i \in 1 .. l
    <3>1. PICK j \in (i + 1) .. l : a[j].answers = id
      BY <1>1, <1>2, <1>5, <2>1
    <3>2. j \in 1 .. l /\ j \in (i + 1) .. Len(m)
      BY <1>1, <2>1, <3>1
    <3> QED
      BY <1>1, <3>1, <3>2
  <2>2. CASE \E k \in 1 .. n : i = l + k
    <3>1. PICK k \in 1 .. n : i = l + k
      BY <2>2
    <3>2. id \in ToSet(b[k].calls)
      BY <1>1, <1>5, <3>1
    <3>3. PICK j \in (k + 1) .. n : b[j].answers = id
      BY <1>3, <3>2
    <3>4. j \in 1 .. n /\ l + j \in (i + 1) .. Len(m)
      BY <1>1, <3>1, <3>3
    <3>5. m[l + j] = b[j]
      BY <1>1, <3>4
    <3> QED
      BY <3>3, <3>4, <3>5
  <2> QED
    BY <1>4, <2>1, <2>2
<1>6. ASSUME NEW j \in 1 .. Len(m), m[j].answers # NoId
      PROVE  \E i \in 1 .. (j - 1) : m[j].answers \in ToSet(m[i].calls)
  <2>1. CASE j \in 1 .. l
    <3>1. PICK i \in 1 .. (j - 1) : a[j].answers \in ToSet(a[i].calls)
      BY <1>1, <1>2, <1>6, <2>1
    <3>2. i \in 1 .. l
      BY <1>1, <2>1, <3>1
    <3> QED
      BY <1>1, <2>1, <3>1, <3>2
  <2>2. CASE \E k \in 1 .. n : j = l + k
    <3>1. PICK k \in 1 .. n : j = l + k
      BY <2>2
    <3>2. m[j] = b[k]
      BY <1>1, <3>1
    <3>3. PICK i \in 1 .. (k - 1) : b[k].answers \in ToSet(b[i].calls)
      BY <1>3, <1>6, <3>2
    <3>4. i \in 1 .. n /\ l + i \in 1 .. (j - 1)
      BY <1>1, <3>1, <3>3
    <3>5. m[l + i] = b[i]
      BY <1>1, <3>4
    <3> QED
      BY <3>2, <3>3, <3>4, <3>5
  <2> QED
    BY <1>4, <2>1, <2>2
<1>7. Paired(m)
  BY <1>5, <1>6 DEF Paired
<1> QED
  BY <1>7 DEF m

(* A conversation keeps the protocol, in the strict form if the client     *)
(* does.                                                                   *)
ChatKept(m) == Paired(m) /\ (OneAtATime(client) => WellFormedChat(m))

LEMMA JoinedKept ==
  ASSUME NEW a \in Seq(ChatRecords), NEW b \in Seq(ChatRecords), ChatKept(a), ChatKept(b)
  PROVE  a \o b \in Seq(ChatRecords) /\ ChatKept(a \o b)
<1>1. a \o b \in Seq(ChatRecords)
  OBVIOUS
<1> QED
  BY <1>1, JoinedPaired, JoinedWell DEF ChatKept

LEMMA StrictKept ==
  ASSUME NEW m \in Seq(ChatRecords), WellFormedChat(m) PROVE ChatKept(m)
  BY StrictPaired DEF ChatKept

LEMMA ChatType ==
  ASSUME NEW role \in Roles, NEW said \in BOOLEAN, NEW calls \in Seq(Nat), NEW answers \in Nat
  PROVE  /\ Chat(role, said, calls, answers) \in ChatRecords
         /\ Chat(role, said, calls, answers).calls = calls
         /\ Chat(role, said, calls, answers).answers = answers
  BY DEF Chat, ChatRecords

LEMMA SpokenType ==
  ASSUME NEW role \in Roles, NEW said \in BOOLEAN
  PROVE  /\ Chat(role, said, << >>, NoId) \in ChatRecords
         /\ Chat(role, said, << >>, NoId).calls = << >>
         /\ Chat(role, said, << >>, NoId).answers = NoId
<1> DEFINE none == << >>
<1>1. none \in Seq(Nat) /\ NoId \in Nat
  BY DEF NoId
<1> HIDE DEF none
<1>2. /\ Chat(role, said, none, NoId) \in ChatRecords
      /\ Chat(role, said, none, NoId).calls = none
      /\ Chat(role, said, none, NoId).answers = NoId
  BY <1>1, ChatType
<1> QED
  BY <1>2 DEF none

LEMMA ToolType ==
  ASSUME NEW id \in Nat
  PROVE  /\ ToolMessage(id) \in ChatRecords /\ ToolMessage(id).calls = << >>
         /\ ToolMessage(id).answers = id
<1> DEFINE none == << >>
           role == "tool"
           said == TRUE
<1>1. none \in Seq(Nat) /\ role \in Roles /\ said \in BOOLEAN
  BY DEF Roles
<1>3. ToolMessage(id) = Chat(role, said, none, id)
  BY DEF ToolMessage
<1> HIDE DEF none, role, said
<1>2. /\ Chat(role, said, none, id) \in ChatRecords
      /\ Chat(role, said, none, id).calls = none
      /\ Chat(role, said, none, id).answers = id
  BY <1>1, ChatType
<1> QED
  BY <1>2, <1>3 DEF none

(* What neither calls nor answers can stand anywhere.                      *)
LEMMA SpeechWell ==
  ASSUME NEW n \in Nat, NEW f,
         \A i \in 1 .. n : f[i] \in ChatRecords /\ f[i].calls = << >> /\ f[i].answers = NoId,
         f = [i \in 1 .. n |-> f[i]]
  PROVE  f \in Seq(ChatRecords) /\ WellFormedChat(f)
<1>1. f \in Seq(ChatRecords) /\ Len(f) = n
  OBVIOUS
<1> QED
  BY <1>1 DEF WellFormedChat

LEMMA OneWell ==
  ASSUME NEW role \in Roles, NEW said \in BOOLEAN
  PROVE  /\ <<Chat(role, said, << >>, NoId)>> \in Seq(ChatRecords)
         /\ WellFormedChat(<<Chat(role, said, << >>, NoId)>>)
<1> DEFINE x == Chat(role, said, << >>, NoId)
           f == <<x>>
<1>1. x \in ChatRecords /\ x.calls = << >> /\ x.answers = NoId
  BY SpokenType
<1> HIDE DEF x
<1>2. f = [i \in 1 .. 1 |-> f[i]] /\ \A i \in 1 .. 1 : f[i] = x
  OBVIOUS
<1> HIDE DEF f
<1> QED
  BY <1>1, <1>2, SpeechWell DEF f, x

LEMMA SystemWell ==
  ASSUME NEW n \in Nat
  PROVE  System(n) \in Seq(ChatRecords) /\ WellFormedChat(System(n))
<1> DEFINE f == System(n)
<1>1. f = [i \in 1 .. n |-> f[i]] /\ \A i \in 1 .. n : f[i] = Chat("system", TRUE, << >>, NoId)
  BY DEF System
<1> DEFINE x == Chat("system", TRUE, << >>, NoId)
<1>3. x \in ChatRecords /\ x.calls = << >> /\ x.answers = NoId
  <2>1. "system" \in Roles /\ TRUE \in BOOLEAN
    BY DEF Roles
  <2> QED
    BY <2>1, SpokenType
<1> HIDE DEF x
<1>2. \A i \in 1 .. n : f[i] \in ChatRecords /\ f[i].calls = << >> /\ f[i].answers = NoId
  BY <1>1, <1>3 DEF x
<1> HIDE DEF f
<1> QED
  BY <1>1, <1>2, SpeechWell DEF f

(* Calls, and at once their answers.                                       *)
LEMMA AnsweredWell ==
  ASSUME NEW role \in Roles, NEW said \in BOOLEAN, NEW ids \in Seq(Nat), NEW results \in Seq(Nat),
         Len(results) = Len(ids), ToSet(results) = ToSet(ids)
  PROVE  LET m == <<Chat(role, said, ids, NoId)>>
                    \o [i \in 1 .. Len(results) |-> ToolMessage(results[i])]
         IN m \in Seq(ChatRecords) /\ WellFormedChat(m)
<1> DEFINE x == Chat(role, said, ids, NoId)
           n == Len(ids)
           tools == [i \in 1 .. Len(results) |-> ToolMessage(results[i])]
           m == <<x>> \o tools
<1>1. x \in ChatRecords /\ x.calls = ids /\ x.answers = NoId /\ n \in Nat
  BY DEF Chat, ChatRecords, NoId
<1>2. /\ tools \in Seq(ChatRecords) /\ Len(tools) = n
      /\ \A i \in 1 .. n : tools[i].calls = << >> /\ tools[i].answers = results[i]
  <2>1. \A i \in 1 .. n : results[i] \in Nat
    OBVIOUS
  <2>2. \A i \in 1 .. n : /\ ToolMessage(results[i]) \in ChatRecords
                          /\ ToolMessage(results[i]).calls = << >>
                          /\ ToolMessage(results[i]).answers = results[i]
    BY <2>1, ToolType
  <2> QED
    BY <2>2
<1> HIDE DEF x, tools
<1>3. /\ m \in Seq(ChatRecords) /\ Len(m) = n + 1 /\ m[1] = x
      /\ \A i \in 1 .. n : m[i + 1] = tools[i]
  BY <1>1, <1>2
<1> HIDE DEF m
<1>4. ASSUME NEW i \in 2 .. n + 1 PROVE i - 1 \in 1 .. n /\ m[i] = tools[i - 1]
  <2>1. i - 1 \in 1 .. n /\ i = (i - 1) + 1
    BY <1>1
  <2> QED
    BY <1>3, <2>1
<1>5. Answered(m, 1) = ToSet(ids)
  <2>1. Answered(m, 1) = {m[j].answers : j \in 2 .. n + 1}
    <3>1. (1 + 1) .. (1 + Len(m[1].calls)) = 2 .. n + 1
      BY <1>1, <1>3
    <3> QED
      BY <3>1 DEF Answered
  <2>2. ToSet(results) = {results[j] : j \in 1 .. n}
    BY DEF ToSet
  <2>3. \A j \in 2 .. n + 1 : m[j].answers = results[j - 1] /\ j - 1 \in 1 .. n
    BY <1>2, <1>4
  <2>4. \A j \in 1 .. n : j + 1 \in 2 .. n + 1 /\ m[j + 1].answers = results[j]
    BY <1>1, <1>2, <1>3
  <2> DEFINE P == 2 .. n + 1
             Q == 1 .. n
  <2>5. {m[j].answers : j \in P} = {results[j] : j \in Q}
    <3>1. \A j \in P : m[j].answers = results[j - 1] /\ j - 1 \in Q
      BY <2>3
    <3>2. \A j \in Q : j + 1 \in P /\ m[j + 1].answers = results[j]
      BY <2>4
    <3> HIDE DEF P, Q
    <3>3. {m[j].answers : j \in P} \subseteq {results[j] : j \in Q}
      BY <3>1
    <3>4. {results[j] : j \in Q} \subseteq {m[j].answers : j \in P}
      BY <3>2
    <3> QED
      BY <3>3, <3>4
  <2> QED
    BY <2>1, <2>2, <2>5
<1>6. ASSUME NEW i \in 1 .. Len(m), m[i].calls # << >>
      PROVE  i + Len(m[i].calls) <= Len(m) /\ Answered(m, i) = ToSet(m[i].calls)
  <2>1. i = 1
    <3>1. i # 1 => i \in 2 .. n + 1
      BY <1>1, <1>3
    <3>2. i # 1 => i - 1 \in 1 .. n /\ m[i].calls = tools[i - 1].calls
      BY <1>4, <3>1
    <3> QED
      BY <1>2, <1>6, <3>2
  <2> QED
    BY <1>1, <1>3, <1>5, <2>1
<1>7. ASSUME NEW j \in 1 .. Len(m), m[j].answers # NoId
      PROVE  \E i \in 1 .. (j - 1) : j <= i + Len(m[i].calls)
  <2>1. j # 1 /\ 1 \in 1 .. (j - 1) /\ j <= 1 + n
    BY <1>1, <1>3, <1>7
  <2> QED
    BY <1>1, <1>3, <2>1
<1>8. WellFormedChat(m)
  BY <1>6, <1>7 DEF WellFormedChat
<1> QED
  BY <1>3, <1>8 DEF m, x, tools

LEMMA WithSystemWell ==
  ASSUME NEW m \in Seq(ChatRecords), ChatKept(m)
  PROVE  WithSystem(m) \in Seq(ChatRecords) /\ ChatKept(WithSystem(m))
<1> DEFINE s == <<Chat("system", TRUE, << >>, NoId)>>
<1>1. s \in Seq(ChatRecords) /\ WellFormedChat(s)
  <2>1. "system" \in Roles /\ TRUE \in BOOLEAN
    BY DEF Roles
  <2> QED
    BY <2>1, OneWell
<1> HIDE DEF s
<1>2. s \o m \in Seq(ChatRecords) /\ ChatKept(s \o m)
  BY <1>1, StrictKept, JoinedKept
<1> QED
  BY <1>2 DEF WithSystem, s

(***************************************************************************)
(* What the translations make of a conversation.                           *)
(***************************************************************************)
LEMMA ConvertedItem ==
  ASSUME NEW req \in ResponsesRequests, NEW i \in 1 .. Len(req.items)
  PROVE  LET item == req.items[i]
             x == ConvertItem(item)
         IN /\ x \in ChatRecords
            /\ x.calls = IF item.type = "call" THEN <<item.id>> ELSE << >>
            /\ x.answers = IF item.type = "output" THEN item.id ELSE NoId
<1> DEFINE item == req.items[i]
           x == ConvertItem(item)
<1>1. /\ item.type \in {"message", "call", "output", "reasoning"} /\ item.id \in Nat
      /\ item.type = "message" => item.role \in Roles
  <2>1. item \in ResponsesItems
    BY DEF ResponsesRequests
  <2> HIDE DEF item
  <2>2. CASE item \in [type : {"message"}, role : Roles, id : {NoId}]
    BY <2>2 DEF NoId
  <2>3. CASE item \in [type : {"call", "output", "reasoning"}, role : {""}, id : Nat]
    BY <2>3
  <2> QED
    BY <2>1, <2>2, <2>3 DEF ResponsesItems
<1> HIDE DEF item
<1>2. CASE item.type = "message"
  <2>1. x = Chat(item.role, TRUE, << >>, NoId)
    BY <1>2 DEF ConvertItem
  <2>2. item.role \in Roles /\ TRUE \in BOOLEAN
    BY <1>1, <1>2
  <2> HIDE DEF x
  <2> QED
    BY <1>2, <2>1, <2>2, SpokenType DEF x, item
<1>3. CASE item.type = "reasoning"
  <2> DEFINE role == "assistant"
  <2>1. x = Chat(role, TRUE, << >>, NoId)
    BY <1>3 DEF ConvertItem
  <2>2. role \in Roles /\ TRUE \in BOOLEAN
    BY DEF Roles
  <2> HIDE DEF x, role
  <2> QED
    BY <1>3, <2>1, <2>2, SpokenType DEF x, item
<1>4. CASE item.type = "output"
  <2>1. x = ToolMessage(item.id)
    BY <1>4 DEF ConvertItem
  <2> HIDE DEF x
  <2> QED
    BY <1>1, <1>4, <2>1, ToolType DEF x, item
<1>5. CASE item.type = "call"
  <2> DEFINE role == "assistant"
             said == FALSE
             ids == <<item.id>>
  <2>1. x = Chat(role, said, ids, NoId)
    BY <1>5 DEF ConvertItem, AssistantCalls
  <2>2. role \in Roles /\ said \in BOOLEAN /\ ids \in Seq(Nat) /\ NoId \in Nat
    BY <1>1 DEF Roles, NoId
  <2> HIDE DEF x, role, said, ids
  <2>3. x \in ChatRecords /\ x.calls = ids /\ x.answers = NoId
    BY <2>1, <2>2, ChatType
  <2> QED
    BY <1>5, <2>3 DEF x, item, ids
<1> QED
  BY <1>1, <1>2, <1>3, <1>4, <1>5

LEMMA ResponsesPaired ==
  ASSUME NEW req \in ResponsesRequests, WellFormedItems(req.items)
  PROVE  ResponsesToOpenai(req) \in Seq(ChatRecords) /\ Paired(ResponsesToOpenai(req))
<1> DEFINE items == req.items
           n == Len(items)
           b == [i \in 1 .. n |-> ConvertItem(items[i])]
<1>1. n \in Nat /\ req.system \in Nat
  BY DEF ResponsesRequests
<1>2. \A i \in 1 .. n :
        /\ b[i] \in ChatRecords
        /\ b[i].calls = IF items[i].type = "call" THEN <<items[i].id>> ELSE << >>
        /\ b[i].answers = IF items[i].type = "output" THEN items[i].id ELSE NoId
  BY ConvertedItem
<1>3. b \in Seq(ChatRecords) /\ Len(b) = n
  <2>1. \A i \in 1 .. n : ConvertItem(items[i]) \in ChatRecords
    BY ConvertedItem
  <2> HIDE DEF n, items
  <2> QED
    BY <1>1, <2>1
<1>4. \A i \in 1 .. n :
        /\ items[i].type = "call" =>
             \E j \in (i + 1) .. n : items[j].type = "output" /\ items[j].id = items[i].id
        /\ items[i].type = "output" =>
             \E j \in 1 .. (i - 1) : items[j].type = "call" /\ items[j].id = items[i].id
  BY DEF WellFormedItems
<1>5. ResponsesToOpenai(req) = System(req.system) \o b
  BY DEF ResponsesToOpenai
<1> HIDE DEF n, items, b
<1>6. ASSUME NEW i \in 1 .. n, NEW id \in ToSet(b[i].calls)
      PROVE  \E j \in (i + 1) .. n : b[j].answers = id
  <2>1. ToSet(<< >>) = {} /\ ToSet(<<items[i].id>>) = {items[i].id}
    BY DEF ToSet
  <2>2. items[i].type = "call" /\ id = items[i].id
    BY <1>2, <1>6, <2>1
  <2>3. PICK j \in (i + 1) .. n : items[j].type = "output" /\ items[j].id = items[i].id
    BY <1>4, <2>2
  <2>4. j \in 1 .. n
    BY <1>1, <2>3
  <2> QED
    BY <1>2, <2>2, <2>3, <2>4
<1>7. ASSUME NEW j \in 1 .. n, b[j].answers # NoId
      PROVE  \E i \in 1 .. (j - 1) : b[j].answers \in ToSet(b[i].calls)
  <2>1. items[j].type = "output" /\ b[j].answers = items[j].id
    BY <1>2, <1>7
  <2>2. PICK i \in 1 .. (j - 1) : items[i].type = "call" /\ items[i].id = items[j].id
    BY <1>4, <2>1
  <2>3. i \in 1 .. n
    BY <1>1, <2>2
  <2>4. b[i].calls = <<items[j].id>>
    BY <1>2, <2>2, <2>3
  <2>5. items[j].id \in ToSet(<<items[j].id>>)
    BY DEF ToSet
  <2> QED
    BY <2>1, <2>2, <2>4, <2>5
<1>8. Paired(b)
  BY <1>3, <1>6, <1>7 DEF Paired
<1>9. System(req.system) \in Seq(ChatRecords) /\ Paired(System(req.system))
  BY <1>1, SystemWell, StrictPaired
<1>10. System(req.system) \o b \in Seq(ChatRecords)
  BY <1>3, <1>9
<1> QED
  BY <1>3, <1>5, <1>8, <1>9, <1>10, JoinedPaired

LEMMA ResponsesWell ==
  ASSUME NEW req \in ResponsesRequests, OneByOne(req.items)
  PROVE  ResponsesToOpenai(req) \in Seq(ChatRecords) /\ WellFormedChat(ResponsesToOpenai(req))
<1> DEFINE items == req.items
           n == Len(items)
           b == [i \in 1 .. n |-> ConvertItem(items[i])]
<1>1. n \in Nat /\ req.system \in Nat
  BY DEF ResponsesRequests
<1>2. \A i \in 1 .. n :
        /\ b[i] \in ChatRecords
        /\ b[i].calls = IF items[i].type = "call" THEN <<items[i].id>> ELSE << >>
        /\ b[i].answers = IF items[i].type = "output" THEN items[i].id ELSE NoId
  BY ConvertedItem
<1>3. b \in Seq(ChatRecords) /\ Len(b) = n
  <2>1. \A i \in 1 .. n : ConvertItem(items[i]) \in ChatRecords
    BY ConvertedItem
  <2> HIDE DEF n, items
  <2> QED
    BY <1>1, <2>1
<1>4. \A i \in 1 .. n :
        /\ items[i].type = "call" =>
             i < n /\ items[i + 1].type = "output" /\ items[i + 1].id = items[i].id
        /\ items[i].type = "output" => i > 1 /\ items[i - 1].type = "call"
  BY DEF OneByOne
<1>5. ResponsesToOpenai(req) = System(req.system) \o b
  BY DEF ResponsesToOpenai
<1> HIDE DEF n, items, b
<1>6. ASSUME NEW i \in 1 .. n, b[i].calls # << >>
      PROVE  i + Len(b[i].calls) <= n /\ Answered(b, i) = ToSet(b[i].calls)
  <2>1. items[i].type = "call" /\ b[i].calls = <<items[i].id>>
    BY <1>2, <1>6
  <2>2. i + 1 \in 1 .. n /\ i + 1 <= n /\ items[i + 1].type = "output" /\ items[i + 1].id = items[i].id
    BY <1>1, <1>4, <2>1
  <2>3. b[i + 1].answers = items[i].id
    BY <1>2, <2>2
  <2>4. Len(b[i].calls) = 1 /\ ToSet(b[i].calls) = {items[i].id}
    BY <2>1 DEF ToSet
  <2>5. Answered(b, i) = {b[j].answers : j \in (i + 1) .. (i + 1)}
    BY <2>4 DEF Answered
  <2>6. (i + 1) .. (i + 1) = {i + 1}
    BY <1>1
  <2>7. Answered(b, i) = {b[i + 1].answers}
    BY <2>5, <2>6
  <2> QED
    BY <2>2, <2>3, <2>4, <2>7
<1>7. ASSUME NEW j \in 1 .. n, b[j].answers # NoId
      PROVE  \E i \in 1 .. (j - 1) : j <= i + Len(b[i].calls)
  <2>1. items[j].type = "output"
    BY <1>2, <1>7
  <2>2. j > 1 /\ items[j - 1].type = "call"
    BY <1>4, <2>1
  <2>3. j - 1 \in 1 .. n /\ j - 1 \in 1 .. (j - 1) /\ j <= (j - 1) + 1
    BY <1>1, <2>2
  <2>4. b[j - 1].calls = <<items[j - 1].id>>
    BY <1>2, <2>2, <2>3
  <2>5. Len(b[j - 1].calls) = 1
    BY <2>4
  <2> QED
    BY <2>3, <2>5
<1>8. WellFormedChat(b)
  BY <1>3, <1>6, <1>7 DEF WellFormedChat
<1>9. System(req.system) \in Seq(ChatRecords) /\ WellFormedChat(System(req.system))
  BY <1>1, SystemWell
<1> QED
  BY <1>3, <1>5, <1>8, <1>9, JoinedWell

LEMMA IdsType ==
  ASSUME NEW blocks \in Seq(MessagesBlocks), NEW type
  PROVE  IdsOf(blocks, type) \in Seq(Nat)
<1> DEFINE K == {b \in ToSet(blocks) : b.type = type}
           of == Among(blocks, K)
<1>1. of \in Seq(K \cap MessagesBlocks)
  BY AmongType
<1> HIDE DEF of, K
<1>2. Len(of) \in Nat /\ \A i \in 1 .. Len(of) : of[i].id \in Nat
  BY <1>1 DEF MessagesBlocks
<1>3. IdsOf(blocks, type) = [i \in 1 .. Len(of) |-> of[i].id]
  BY DEF IdsOf, of, K
<1> QED
  BY <1>2, <1>3

(* A message: answers, and what it says and calls behind them.             *)
Behind(m) ==
  LET calls == IdsOf(m.blocks, "tool_use")
      said  == \E i \in 1 .. Len(m.blocks) : m.blocks[i].type \in {"text", "image"}
  IN IF said \/ calls # << >> THEN <<Chat(m.role, said, calls, NoId)>> ELSE << >>

Fronts(m) ==
  LET results == IdsOf(m.blocks, "tool_result")
  IN [i \in 1 .. Len(results) |-> ToolMessage(results[i])]

LEMMA Converted ==
  ASSUME NEW m \in MessagesTurns
  PROVE  /\ ConvertMessage(m) = Fronts(m) \o Behind(m)
         /\ Fronts(m) \in Seq(ChatRecords)
         /\ IdsOf(m.blocks, "tool_use") \in Seq(Nat)
         /\ IdsOf(m.blocks, "tool_result") \in Seq(Nat)
         /\ IdsOf(m.blocks, "tool_result") = << >> => Fronts(m) = << >>
         /\ IdsOf(m.blocks, "tool_use") = << >> =>
              Behind(m) \in Seq(ChatRecords) /\ WellFormedChat(Behind(m))
         /\ IdsOf(m.blocks, "tool_use") # << >> =>
              \E said \in BOOLEAN :
                Behind(m) = <<Chat(m.role, said, IdsOf(m.blocks, "tool_use"), NoId)>>
<1> DEFINE calls == IdsOf(m.blocks, "tool_use")
           results == IdsOf(m.blocks, "tool_result")
           said == \E i \in 1 .. Len(m.blocks) : m.blocks[i].type \in {"text", "image"}
<1>1. m.blocks \in Seq(MessagesBlocks) /\ m.role \in Roles
  BY DEF MessagesTurns, Roles
<1>2. calls \in Seq(Nat) /\ results \in Seq(Nat)
  BY <1>1, IdsType
<1>3. said \in BOOLEAN
  OBVIOUS
<1>4. ConvertMessage(m) = Fronts(m) \o Behind(m)
  BY DEF ConvertMessage, Fronts, Behind
<1>5. Behind(m) = IF said \/ calls # << >> THEN <<Chat(m.role, said, calls, NoId)>> ELSE << >>
  BY DEF Behind
<1>6. Fronts(m) = [i \in 1 .. Len(results) |-> ToolMessage(results[i])]
  BY DEF Fronts
<1> HIDE DEF calls, results, said
<1>7. Fronts(m) \in Seq(ChatRecords) /\ (results = << >> => Fronts(m) = << >>)
  <2>1. \A i \in 1 .. Len(results) : results[i] \in Nat
    BY <1>2
  <2>2. \A i \in 1 .. Len(results) : ToolMessage(results[i]) \in ChatRecords
    BY <2>1, ToolType
  <2>3. Len(results) \in Nat /\ (results = << >> => Len(results) = 0)
    BY <1>2
  <2>4. [i \in 1 .. Len(results) |-> ToolMessage(results[i])] \in Seq(ChatRecords)
    BY <2>2, <2>3
  <2> QED
    BY <1>6, <2>3, <2>4
<1>8. calls = << >> => Behind(m) \in Seq(ChatRecords) /\ WellFormedChat(Behind(m))
  <2>1. CASE calls = << >> /\ said
    <3> DEFINE role == m.role
    <3>1. Behind(m) = <<Chat(role, said, << >>, NoId)>>
      BY <1>5, <2>1
    <3> HIDE DEF role
    <3> QED
      BY <1>1, <1>3, <3>1, OneWell DEF role
  <2>2. CASE calls = << >> /\ ~said
    <3>1. Behind(m) = << >>
      BY <1>5, <2>2
    <3>2. Len(<< >>) = 0 /\ << >> \in Seq(ChatRecords)
      OBVIOUS
    <3> QED
      BY <3>1, <3>2 DEF WellFormedChat
  <2> QED
    BY <1>3, <2>1, <2>2
<1>9. calls # << >> => \E x \in BOOLEAN : Behind(m) = <<Chat(m.role, x, calls, NoId)>>
  BY <1>3, <1>5
<1> QED
  BY <1>2, <1>4, <1>7, <1>8, <1>9 DEF calls, results

(* A Messages conversation is translated turn by turn.                     *)
Turned(req, n, f) ==
  f = [k \in 0 .. n |-> IF k = 0 THEN System(req.system)
                        ELSE f[k - 1] \o ConvertMessage(req.messages[k])]

LEMMA TurnedExists ==
  ASSUME NEW req, NEW n \in Nat
  PROVE  \E f : Turned(req, n, f)
<1> DEFINE T == {m \in Nat : ~\E f : Turned(req, m, f)}
<1>1. CASE T = {}
  BY <1>1
<1>2. CASE T # {}
  <2>1. PICK m \in T : \A k \in T : m <= k
    BY <1>2, LeastOf
  <2>2. CASE m = 0
    <3> DEFINE f == [k \in 0 .. 0 |-> System(req.system)]
    <3>1. f = [k \in 0 .. 0 |-> IF k = 0 THEN System(req.system)
                                ELSE f[k - 1] \o ConvertMessage(req.messages[k])]
      OBVIOUS
    <3> HIDE DEF f
    <3>2. Turned(req, 0, f)
      BY <3>1 DEF Turned
    <3> QED
      BY <2>1, <2>2, <3>2
  <2>3. CASE m # 0
    <3>1. m - 1 \in Nat /\ m \in Nat /\ m - 1 \notin T
      BY <2>1, <2>3
    <3>2. PICK g : Turned(req, m - 1, g)
      BY <3>1
    <3> DEFINE f == [k \in 0 .. m |->
                       IF k = m THEN g[m - 1] \o ConvertMessage(req.messages[m]) ELSE g[k]]
               r == [k \in 0 .. m |-> IF k = 0 THEN System(req.system)
                                      ELSE f[k - 1] \o ConvertMessage(req.messages[k])]
    <3>3. ASSUME NEW k \in 0 .. m PROVE f[k] = r[k]
      <4>1. CASE k = m
        <5>1. f[k] = g[m - 1] \o ConvertMessage(req.messages[m]) /\ f[m - 1] = g[m - 1]
          BY <3>1, <4>1
        <5> QED
          BY <2>3, <3>1, <4>1, <5>1
      <4>2. CASE k # m
        <5>1. f[k] = g[k] /\ k \in 0 .. (m - 1)
          BY <3>1, <4>2
        <5>2. g[k] = IF k = 0 THEN System(req.system)
                     ELSE g[k - 1] \o ConvertMessage(req.messages[k])
          BY <3>2, <5>1 DEF Turned
        <5>3. k # 0 => f[k - 1] = g[k - 1]
          BY <3>1, <4>2
        <5> QED
          BY <5>1, <5>2, <5>3
      <4> QED
        BY <4>1, <4>2
    <3>4. f = r
      BY <3>3
    <3>5. Turned(req, m, f)
      BY <3>4 DEF Turned
    <3> QED
      BY <2>1, <3>5
  <2> QED
    BY <2>2, <2>3
<1> QED
  BY <1>1, <1>2

LEMMA AnthropicTurns ==
  ASSUME NEW req, NEW n \in Nat, n = Len(req.messages)
  PROVE  \E f : /\ AnthropicToOpenai(req) = f[n] /\ f[0] = System(req.system)
                /\ \A k \in 1 .. n : f[k] = f[k - 1] \o ConvertMessage(req.messages[k])
<1> DEFINE f == CHOOSE g : Turned(req, n, g)
<1>1. Turned(req, n, f)
  BY TurnedExists
<1>2. AnthropicToOpenai(req) = f[n]
  BY DEF AnthropicToOpenai, Turned
<1> HIDE DEF f
<1>3. \A k \in 0 .. n : f[k] = IF k = 0 THEN System(req.system)
                                ELSE f[k - 1] \o ConvertMessage(req.messages[k])
  BY <1>1 DEF Turned
<1>4. f[0] = System(req.system)
  BY <1>3
<1>5. \A k \in 1 .. n : f[k] = f[k - 1] \o ConvertMessage(req.messages[k])
  <2> SUFFICES ASSUME NEW k \in 1 .. n
               PROVE  f[k] = f[k - 1] \o ConvertMessage(req.messages[k])
    OBVIOUS
  <2>1. k \in 0 .. n /\ k # 0
    OBVIOUS
  <2> QED
    BY <1>3, <2>1
<1> QED
  BY <1>2, <1>4, <1>5

(* Every turn but its last calls is well formed, and they wait for the     *)
(* next turn, that begins with their answers.                              *)
Pending(done, m, turns) ==
  /\ done \in Seq(ChatRecords) /\ WellFormedChat(done)
  /\ IF IdsOf(m.blocks, "tool_use") = << >> THEN turns = done
     ELSE \E said \in BOOLEAN :
            turns = done \o <<Chat(m.role, said, IdsOf(m.blocks, "tool_use"), NoId)>>

LEMMA TurnWell ==
  ASSUME NEW m \in MessagesTurns, NEW before \in Seq(ChatRecords), WellFormedChat(before),
         IdsOf(m.blocks, "tool_result") = << >>
  PROVE  \E done : Pending(done, m, before \o ConvertMessage(m))
<1> DEFINE calls == IdsOf(m.blocks, "tool_use")
<1>1. /\ ConvertMessage(m) = Fronts(m) \o Behind(m) /\ Fronts(m) = << >>
      /\ calls = << >> => Behind(m) \in Seq(ChatRecords) /\ WellFormedChat(Behind(m))
      /\ calls # << >> => \E said \in BOOLEAN : Behind(m) = <<Chat(m.role, said, calls, NoId)>>
  BY Converted
<1> HIDE DEF calls
<1>2. CASE calls = << >>
  <2>1. ConvertMessage(m) = Behind(m)
    BY <1>1, <1>2
  <2>2. before \o Behind(m) \in Seq(ChatRecords) /\ WellFormedChat(before \o Behind(m))
    BY <1>1, <1>2, JoinedWell
  <2> QED
    BY <1>2, <2>1, <2>2 DEF Pending, calls
<1>3. CASE calls # << >>
  <2>1. PICK said \in BOOLEAN : Behind(m) = <<Chat(m.role, said, calls, NoId)>>
    BY <1>1, <1>3
  <2>2. ConvertMessage(m) = Behind(m)
    BY <1>1, <2>1
  <2> QED
    BY <1>3, <2>1, <2>2 DEF Pending, calls
<1> QED
  BY <1>2, <1>3

LEMMA AnswersWell ==
  ASSUME NEW m \in MessagesTurns, NEW last \in MessagesTurns, NEW done, NEW turns,
         Pending(done, last, turns),
         IdsOf(last.blocks, "tool_use") # << >>,
         Len(IdsOf(m.blocks, "tool_result")) = Len(IdsOf(last.blocks, "tool_use")),
         ToSet(IdsOf(m.blocks, "tool_result")) = ToSet(IdsOf(last.blocks, "tool_use"))
  PROVE  turns \o Fronts(m) \in Seq(ChatRecords) /\ WellFormedChat(turns \o Fronts(m))
<1> DEFINE ids == IdsOf(last.blocks, "tool_use")
           results == IdsOf(m.blocks, "tool_result")
           role == last.role
<1>1. ids \in Seq(Nat) /\ results \in Seq(Nat) /\ role \in Roles
  <2>1. last.role \in Roles
    BY DEF MessagesTurns, Roles
  <2> QED
    BY <2>1, Converted
<1>2. PICK said \in BOOLEAN : turns = done \o <<Chat(role, said, ids, NoId)>>
  BY DEF Pending
<1>3. done \in Seq(ChatRecords) /\ WellFormedChat(done)
  BY DEF Pending
<1>4. Fronts(m) = [i \in 1 .. Len(results) |-> ToolMessage(results[i])]
  BY DEF Fronts
<1>5. Len(results) = Len(ids) /\ ToSet(results) = ToSet(ids)
  OBVIOUS
<1> HIDE DEF ids, results, role
<1> DEFINE x == Chat(role, said, ids, NoId)
           tools == Fronts(m)
           both == <<x>> \o tools
<1>6. both \in Seq(ChatRecords) /\ WellFormedChat(both)
  BY <1>1, <1>4, <1>5, AnsweredWell
<1>7. tools \in Seq(ChatRecords) /\ x \in ChatRecords
  <2>1. tools \in Seq(ChatRecords)
    BY Converted
  <2>2. NoId \in Nat
    BY DEF NoId
  <2> QED
    BY <1>1, <2>1, <2>2, ChatType
<1> HIDE DEF x, tools, both
<1>8. done \o both \in Seq(ChatRecords) /\ WellFormedChat(done \o both)
  BY <1>3, <1>6, JoinedWell
<1>9. done \o both = (done \o <<x>>) \o tools
  <2>1. \A p, q, s \in Seq(ChatRecords) : p \o (q \o s) = (p \o q) \o s
    OBVIOUS
  <2>2. <<x>> \in Seq(ChatRecords)
    BY <1>7
  <2> QED
    BY <1>3, <1>7, <2>1, <2>2 DEF both
<1> QED
  BY <1>2, <1>8, <1>9 DEF x, tools

LEMMA CallsType ==
  ASSUME NEW m \in MessagesTurns, NEW said \in BOOLEAN
  PROVE  <<Chat(m.role, said, IdsOf(m.blocks, "tool_use"), NoId)>> \in Seq(ChatRecords)
<1> DEFINE role == m.role
           ids == IdsOf(m.blocks, "tool_use")
<1>1. role \in Roles /\ ids \in Seq(Nat) /\ NoId \in Nat
  BY Converted DEF MessagesTurns, Roles, NoId
<1> HIDE DEF role, ids
<1>2. Chat(role, said, ids, NoId) \in ChatRecords
  BY <1>1, ChatType
<1> QED
  BY <1>2 DEF role, ids

LEMMA BehindType == ASSUME NEW m \in MessagesTurns PROVE Behind(m) \in Seq(ChatRecords)
<1>1. CASE IdsOf(m.blocks, "tool_use") = << >>
  BY <1>1, Converted
<1>2. CASE IdsOf(m.blocks, "tool_use") # << >>
  <2>1. PICK said \in BOOLEAN :
          Behind(m) = <<Chat(m.role, said, IdsOf(m.blocks, "tool_use"), NoId)>>
    BY <1>2, Converted
  <2> QED
    BY <2>1, CallsType
<1> QED
  BY <1>1, <1>2

LEMMA PendingType ==
  ASSUME NEW m \in MessagesTurns, NEW done, NEW turns, Pending(done, m, turns)
  PROVE  turns \in Seq(ChatRecords)
<1>1. CASE IdsOf(m.blocks, "tool_use") = << >>
  BY <1>1 DEF Pending
<1>2. CASE IdsOf(m.blocks, "tool_use") # << >>
  <2>1. PICK said \in BOOLEAN :
          turns = done \o <<Chat(m.role, said, IdsOf(m.blocks, "tool_use"), NoId)>>
    BY <1>2 DEF Pending
  <2>2. <<Chat(m.role, said, IdsOf(m.blocks, "tool_use"), NoId)>> \in Seq(ChatRecords)
    BY CallsType
  <2>3. done \in Seq(ChatRecords)
    BY DEF Pending
  <2> QED
    BY <2>1, <2>2, <2>3
<1> QED
  BY <1>1, <1>2

LEMMA AnthropicWell ==
  ASSUME NEW req \in MessagesRequests, WellFormedMessages(req.messages)
  PROVE  AnthropicToOpenai(req) \in Seq(ChatRecords) /\ WellFormedChat(AnthropicToOpenai(req))
<1> DEFINE turns == req.messages
           n == Len(turns)
           uses(k) == IdsOf(turns[k].blocks, "tool_use")
           results(k) == IdsOf(turns[k].blocks, "tool_result")
<1>1. n \in Nat /\ req.system \in Nat /\ \A k \in 1 .. n : turns[k] \in MessagesTurns
  BY DEF MessagesRequests
<1>2. PICK f : /\ AnthropicToOpenai(req) = f[n] /\ f[0] = System(req.system)
               /\ \A k \in 1 .. n : f[k] = f[k - 1] \o ConvertMessage(turns[k])
  <2> HIDE DEF n
  <2>1. n \in Nat /\ n = Len(req.messages)
    BY <1>1 DEF n
  <2> QED
    BY <2>1, AnthropicTurns
<1>3. \A k \in 1 .. n :
        /\ uses(k) # << >> => /\ k < n /\ Len(results(k + 1)) = Len(uses(k))
                             /\ ToSet(results(k + 1)) = ToSet(uses(k))
        /\ results(k) # << >> => k > 1 /\ uses(k - 1) # << >>
  BY DEF WellFormedMessages
<1> DEFINE T == {k \in 1 .. n : ~\E done : Pending(done, turns[k], f[k])}
<1>4. f[0] \in Seq(ChatRecords) /\ WellFormedChat(f[0])
  BY <1>1, <1>2, SystemWell
<1> HIDE DEF n, turns, uses, results
<1>5. ASSUME T # {} PROVE FALSE
  <2>1. T \in SUBSET Nat
    BY <1>1
  <2> HIDE DEF T
  <2>2. PICK m \in T : \A k \in T : m <= k
    BY <1>5, <2>1, LeastOf
  <2>3. m \in 1 .. n /\ ~\E done : Pending(done, turns[m], f[m])
    BY <2>2 DEF T
  <2>4. turns[m] \in MessagesTurns /\ f[m] = f[m - 1] \o ConvertMessage(turns[m])
    BY <1>1, <1>2, <2>3
  <2>5. CASE results(m) = << >>
    <3>1. f[m - 1] \in Seq(ChatRecords) /\ WellFormedChat(f[m - 1])
      <4>1. CASE m = 1
        BY <1>4, <4>1
      <4>2. CASE m # 1
        <5>1. m - 1 \in 1 .. n /\ ~(m <= m - 1) /\ (m - 1) + 1 = m
          BY <1>1, <2>3, <4>2
        <5>2. PICK done : Pending(done, turns[m - 1], f[m - 1])
          BY <2>2, <5>1 DEF T
        <5>3. uses(m - 1) = << >>
          <6> SUFFICES ASSUME uses(m - 1) # << >> PROVE FALSE
            OBVIOUS
          <6>1. Len(results(m)) = Len(uses(m - 1))
            BY <1>3, <5>1
          <6>2. uses(m - 1) \in Seq(Nat)
            BY <1>1, <5>1, Converted DEF uses
          <6> QED
            BY <2>5, <6>1, <6>2
        <5> QED
          BY <5>2, <5>3 DEF Pending, uses
      <4> QED
        BY <4>1, <4>2
    <3> DEFINE before == f[m - 1]
               turn == turns[m]
    <3>2. before \in Seq(ChatRecords) /\ WellFormedChat(before) /\ turn \in MessagesTurns
      BY <2>4, <3>1
    <3>3. IdsOf(turn.blocks, "tool_result") = << >>
      BY <2>5 DEF results
    <3> HIDE DEF before, turn
    <3>4. \E done : Pending(done, turn, before \o ConvertMessage(turn))
      BY <3>2, <3>3, TurnWell
    <3> QED
      BY <2>3, <2>4, <3>4 DEF before, turn
  <2>6. CASE results(m) # << >>
    <3> DEFINE last == turns[m - 1]
               turn == turns[m]
               before == f[m - 1]
    <3>1. m - 1 \in 1 .. n /\ ~(m <= m - 1) /\ (m - 1) + 1 = m /\ uses(m - 1) # << >>
      BY <1>1, <1>3, <2>3, <2>6
    <3>2. Len(results(m)) = Len(uses(m - 1)) /\ ToSet(results(m)) = ToSet(uses(m - 1))
      BY <1>3, <3>1
    <3>3. PICK done : Pending(done, last, before)
      BY <2>2, <3>1 DEF T
    <3>4. last \in MessagesTurns /\ turn \in MessagesTurns
      BY <1>1, <2>4, <3>1
    <3>5. /\ IdsOf(last.blocks, "tool_use") # << >>
          /\ Len(IdsOf(turn.blocks, "tool_result")) = Len(IdsOf(last.blocks, "tool_use"))
          /\ ToSet(IdsOf(turn.blocks, "tool_result")) = ToSet(IdsOf(last.blocks, "tool_use"))
      BY <3>1, <3>2 DEF uses, results
    <3> HIDE DEF last, turn, before
    <3> DEFINE front == before \o Fronts(turn)
    <3>6. front \in Seq(ChatRecords) /\ WellFormedChat(front)
      BY <3>3, <3>4, <3>5, AnswersWell
    <3> HIDE DEF front
    <3>7. \E d : Pending(d, turn, front \o Behind(turn))
      <4> DEFINE calls == IdsOf(turn.blocks, "tool_use")
      <4>1. /\ calls = << >> => Behind(turn) \in Seq(ChatRecords) /\ WellFormedChat(Behind(turn))
            /\ calls # << >> =>
                 \E said \in BOOLEAN : Behind(turn) = <<Chat(turn.role, said, calls, NoId)>>
        BY <3>4, Converted
      <4> HIDE DEF calls
      <4>2. CASE calls = << >>
        <5>1. front \o Behind(turn) \in Seq(ChatRecords) /\ WellFormedChat(front \o Behind(turn))
          BY <3>6, <4>1, <4>2, JoinedWell
        <5> QED
          BY <4>2, <5>1 DEF Pending, calls
      <4>3. CASE calls # << >>
        <5>1. PICK said \in BOOLEAN : Behind(turn) = <<Chat(turn.role, said, calls, NoId)>>
          BY <4>1, <4>3
        <5> QED
          BY <3>6, <4>3, <5>1 DEF Pending, calls
      <4> QED
        BY <4>2, <4>3
    <3>8. before \o ConvertMessage(turn) = front \o Behind(turn)
      <4>1. ConvertMessage(turn) = Fronts(turn) \o Behind(turn) /\ Fronts(turn) \in Seq(ChatRecords)
        BY <3>4, Converted
      <4>2. Behind(turn) \in Seq(ChatRecords)
        BY <3>4, BehindType
      <4>3. before \in Seq(ChatRecords)
        BY <3>3, <3>4, <3>5, PendingType
      <4>4. \A p, q, s \in Seq(ChatRecords) : p \o (q \o s) = (p \o q) \o s
        OBVIOUS
      <4> QED
        BY <4>1, <4>2, <4>3, <4>4 DEF front
    <3> QED
      BY <2>3, <2>4, <3>7, <3>8 DEF turn, before
  <2> QED
    BY <2>5, <2>6
<1>6. f[n] \in Seq(ChatRecords) /\ WellFormedChat(f[n])
  <2>1. CASE n = 0
    BY <1>4, <2>1
  <2>2. CASE n # 0
    <3>1. n \in 1 .. n /\ ~(n < n)
      BY <1>1, <2>2
    <3>2. PICK done : Pending(done, turns[n], f[n])
      BY <1>5, <3>1
    <3>3. uses(n) = << >>
      BY <1>3, <3>1
    <3> QED
      BY <3>2, <3>3 DEF Pending, uses
  <2> QED
    BY <2>1, <2>2
<1> QED
  BY <1>2, <1>6

LEMMA ConversationWell ==
  ASSUME IsClient(client)
  PROVE  ChatOf(client) \in Seq(ChatRecords) /\ ChatKept(ChatOf(client))
<1> DEFINE x == client
           body == x.body
<1>1. x.api \in {"openai", "anthropic", "responses"} /\ body \in Conversations(x.api)
  BY DEF IsClient
<1>2. CASE x.api = "openai"
  <2>1. ChatOf(x) \in Seq(ChatRecords) /\ WellFormedChat(ChatOf(x))
    BY <1>1, <1>2 DEF Conversations, ChatOf
  <2> QED
    BY <2>1, StrictKept
<1>3. CASE x.api = "anthropic"
  <2>1. body \in MessagesRequests /\ WellFormedMessages(body.messages)
    BY <1>1, <1>3 DEF Conversations
  <2>2. ChatOf(x) = AnthropicToOpenai(body)
    BY <1>3 DEF ChatOf
  <2> HIDE DEF body, x
  <2>3. AnthropicToOpenai(body) \in Seq(ChatRecords) /\ WellFormedChat(AnthropicToOpenai(body))
    BY <2>1, AnthropicWell
  <2>4. ChatKept(AnthropicToOpenai(body))
    BY <2>3, StrictKept
  <2> QED
    BY <2>2, <2>3, <2>4 DEF x
<1>4. CASE x.api = "responses"
  <2>1. body \in ResponsesRequests /\ WellFormedItems(body.items)
    BY <1>1, <1>4 DEF Conversations
  <2>2. ChatOf(x) = ResponsesToOpenai(body)
    BY <1>4 DEF ChatOf
  <2>3. OneAtATime(x) => OneByOne(body.items)
    BY <1>4 DEF OneAtATime
  <2> HIDE DEF body, x
  <2>4. ResponsesToOpenai(body) \in Seq(ChatRecords) /\ Paired(ResponsesToOpenai(body))
    BY <2>1, ResponsesPaired
  <2>5. OneAtATime(x) => WellFormedChat(ResponsesToOpenai(body))
    BY <2>1, <2>3, ResponsesWell
  <2>6. ChatKept(ResponsesToOpenai(body))
    BY <2>4, <2>5 DEF ChatKept, x
  <2> QED
    BY <2>2, <2>4, <2>6 DEF x
<1> QED
  BY <1>1, <1>2, <1>3, <1>4

LEMMA SpokenFront ==
  ASSUME NEW r \in BOOLEAN, NEW s \in BOOLEAN
  PROVE  LET front == Kept(r, "thinking") \o Kept(s, "text")
         IN /\ front \in Seq(CallKinds \cup {"thinking", "text"})
            /\ \A i \in 1 .. Len(front) : front[i] \notin CallKinds
            /\ s => \E i \in 1 .. Len(front) : front[i] = "text"
<1> DEFINE S == CallKinds \cup {"thinking", "text"}
           front == Kept(r, "thinking") \o Kept(s, "text")
<1> DEFINE p == Kept(r, "thinking")
           q == Kept(s, "text")
<1>1. /\ "thinking" \notin CallKinds /\ "thinking" \in S
      /\ "text" \notin CallKinds /\ "text" \in S
  BY DEF CallKinds
<1>2. p \in Seq(S) /\ q \in Seq(S)
  <2> HIDE DEF S
  <2>1. <<"thinking">> \in Seq(S) /\ <<"text">> \in Seq(S) /\ << >> \in Seq(S)
    BY <1>1
  <2> QED
    BY <2>1 DEF Kept
<1>3. /\ \A i \in 1 .. Len(p) : p[i] \notin CallKinds
      /\ \A i \in 1 .. Len(q) : q[i] \notin CallKinds
  BY <1>1 DEF Kept
<1>4. s => 1 \in 1 .. Len(q) /\ q[1] = "text"
  BY DEF Kept
<1> HIDE DEF S, p, q
<1>5. /\ p \o q \in Seq(S) /\ Len(p \o q) = Len(p) + Len(q) /\ Len(p) \in Nat /\ Len(q) \in Nat
      /\ \A i \in 1 .. Len(p) : (p \o q)[i] = p[i]
      /\ \A i \in 1 .. Len(q) : (p \o q)[Len(p) + i] = q[i]
  BY <1>2
<1>6. ASSUME NEW i \in 1 .. Len(p \o q) PROVE (p \o q)[i] \notin CallKinds
  <2>1. CASE i \in 1 .. Len(p)
    BY <1>3, <1>5, <2>1
  <2>2. CASE i \notin 1 .. Len(p)
    <3>1. i - Len(p) \in 1 .. Len(q) /\ i = Len(p) + (i - Len(p))
      BY <1>5, <2>2
    <3> QED
      BY <1>3, <1>5, <3>1
  <2> QED
    BY <2>1, <2>2
<1>7. s => Len(p) + 1 \in 1 .. Len(p \o q) /\ (p \o q)[Len(p) + 1] = "text"
  BY <1>4, <1>5
<1> QED
  BY <1>5, <1>6, <1>7 DEF S, p, q

(* What a client is shown of an answer.                                    *)
LEMMA ShownRight ==
  ASSUME NEW api \in {"openai", "anthropic", "responses"}, NEW a,
         a.reasoning \in BOOLEAN, a.text \in BOOLEAN, a.calls \in Seq(CallKinds),
         a.finish \in {"stop", "tool_calls"}
  PROVE  LET shown == Rendered(api, a)
         IN /\ CallsIn(shown.blocks) = a.calls
            /\ a.text => "text" \in ToSet(shown.blocks)
            /\ shown.stop \in {"tool_use", "tool_calls"}
                 <=> a.finish = "tool_calls" /\ api # "responses"
<1> DEFINE S == CallKinds \cup {"thinking", "text"}
           front == Kept(a.reasoning, "thinking") \o Kept(a.text, "text")
           blocks == Kept(a.reasoning, "thinking") \o Kept(a.text, "text") \o a.calls
           shown == Rendered(api, a)
<1>1. /\ front \in Seq(S) /\ a.calls \in Seq(S) /\ blocks = front \o a.calls
      /\ \A i \in 1 .. Len(front) : front[i] \notin CallKinds
      /\ \A i \in 1 .. Len(a.calls) : a.calls[i] \in CallKinds
      /\ a.text => \E i \in 1 .. Len(front) : front[i] = "text"
  <2>1. a.calls \in Seq(S) /\ \A i \in 1 .. Len(a.calls) : a.calls[i] \in CallKinds
    OBVIOUS
  <2>2. /\ front \in Seq(S)
        /\ \A i \in 1 .. Len(front) : front[i] \notin CallKinds
        /\ a.text => \E i \in 1 .. Len(front) : front[i] = "text"
    <3> DEFINE r == a.reasoning
               s == a.text
    <3>1. r \in BOOLEAN /\ s \in BOOLEAN
      OBVIOUS
    <3> HIDE DEF r, s
    <3>2. LET w == Kept(r, "thinking") \o Kept(s, "text")
          IN /\ w \in Seq(CallKinds \cup {"thinking", "text"})
             /\ \A i \in 1 .. Len(w) : w[i] \notin CallKinds
             /\ s => \E i \in 1 .. Len(w) : w[i] = "text"
      BY <3>1, SpokenFront
    <3> QED
      BY <3>2 DEF r, s
  <2> HIDE DEF S
  <2> QED
    BY <2>1, <2>2
<1>2. Among(blocks, CallKinds) = a.calls
  <2> DEFINE b == a.calls
             kinds == CallKinds
  <2>1. front \in Seq(S) /\ b \in Seq(S) /\ (\A i \in 1 .. Len(front) : front[i] \notin kinds)
        /\ (\A i \in 1 .. Len(b) : b[i] \in kinds) /\ blocks = front \o b
    BY <1>1
  <2> HIDE DEF S, front, b, blocks, kinds
  <2>2. Among(front \o b, kinds) = b
    BY <2>1, AmongJoin
  <2> QED
    BY <2>1, <2>2 DEF b, kinds
<1>3. a.text => "text" \in ToSet(blocks)
  <2> SUFFICES ASSUME a.text PROVE "text" \in ToSet(blocks)
    OBVIOUS
  <2>1. PICK i \in 1 .. Len(front) : front[i] = "text"
    BY <1>1
  <2>2. blocks \in Seq(S) /\ i \in 1 .. Len(blocks) /\ blocks[i] = "text"
    <3> DEFINE b == a.calls
    <3>1. front \in Seq(S) /\ b \in Seq(S) /\ blocks = front \o b
      BY <1>1
    <3> HIDE DEF S, front, b, blocks
    <3> QED
      BY <2>1, <3>1
  <2> HIDE DEF blocks
  <2> QED
    BY <2>2 DEF ToSet
<1>4. CASE api = "anthropic" /\ blocks = << >>
  <2>1. shown.blocks = <<"text">>
    BY <1>4 DEF Rendered, OpenaiToAnthropic
  <2>2. shown.stop = IF a.finish = "tool_calls" THEN "tool_use" ELSE "end_turn"
    BY <1>4 DEF Rendered, OpenaiToAnthropic
  <2>3. a.calls = << >>
    <3> HIDE DEF front, S
    <3> QED
      BY <1>1, <1>4
  <2>4. Among(<<"text">>, CallKinds) = << >>
    <3> DEFINE one == <<"text">>
               kinds == CallKinds
    <3>1. one \in Seq({"text"}) /\ \A i \in 1 .. Len(one) : one[i] \notin kinds
      BY DEF CallKinds
    <3> HIDE DEF one, kinds
    <3>2. Among(one, kinds) = << >>
      BY <3>1, AmongNone
    <3> QED
      BY <3>2 DEF one, kinds
  <2>5. "text" \in ToSet(<<"text">>)
    BY DEF ToSet
  <2> QED
    BY <1>4, <2>1, <2>2, <2>3, <2>4, <2>5 DEF CallsIn
<1>5. CASE ~(api = "anthropic" /\ blocks = << >>)
  <2>1. shown.blocks = blocks
    BY <1>5 DEF Rendered, OpenaiToAnthropic, OpenaiToResponses, OpenaiAsIs
  <2>2. shown.stop = CASE api = "anthropic" -> IF a.finish = "tool_calls" THEN "tool_use" ELSE "end_turn"
                       [] api = "responses" -> "completed"
                       [] api = "openai" -> a.finish
    BY DEF Rendered, OpenaiToAnthropic, OpenaiToResponses, OpenaiAsIs
  <2>3. shown.stop \in {"tool_use", "tool_calls"} <=> a.finish = "tool_calls" /\ api # "responses"
    <3> HIDE DEF shown
    <3> QED
      BY <2>2
  <2> HIDE DEF shown, blocks
  <2> QED
    BY <1>2, <1>3, <2>1, <2>3 DEF CallsIn, shown
<1> QED
  BY <1>4, <1>5

(* The client's own calls.                                                 *)
LEMMA OwnRight ==
  ASSUME NEW calls \in Seq(CallKinds)
  PROVE  /\ Among(calls, {"own"}) \in Seq(CallKinds)
         /\ (\A i \in 1 .. Len(calls) : calls[i] = "own") => Among(calls, {"own"}) = calls
         /\ (\E i \in 1 .. Len(calls) : calls[i] = "own") => Among(calls, {"own"}) # << >>
         /\ Among(calls, {"search", "blank"}) # << >> => Among(calls, {"own"}) # calls
<1> DEFINE mine == {"own"}
           ours == {"search", "blank"}
           own == Among(calls, mine)
<1>1. own \in Seq(mine \cap CallKinds)
  BY AmongType
<1>2. own \in Seq(CallKinds) /\ \A i \in 1 .. Len(own) : own[i] = "own"
  <2> HIDE DEF own
  <2> QED
    BY <1>1
<1>3. ASSUME \A i \in 1 .. Len(calls) : calls[i] = "own" PROVE own = calls
  <2> DEFINE none == << >>
  <2>1. /\ none \in Seq(CallKinds) /\ none \o calls = calls
        /\ \A i \in 1 .. Len(none) : none[i] \notin mine
        /\ \A i \in 1 .. Len(calls) : calls[i] \in mine
    BY <1>3
  <2> HIDE DEF none, mine
  <2>2. Among(none \o calls, mine) = calls
    BY <2>1, AmongJoin
  <2> QED
    BY <2>1, <2>2
<1>4. ASSUME NEW i \in 1 .. Len(calls), calls[i] = "own" PROVE own # << >>
  <2>1. calls[i] \in mine
    BY <1>4
  <2> HIDE DEF mine
  <2> QED
    BY <2>1, AmongNone
<1>5. ASSUME Among(calls, ours) # << >> PROVE own # calls
  <2>1. PICK i \in 1 .. Len(calls) : calls[i] \in ours
    <3> HIDE DEF ours
    <3> QED
      BY <1>5, AmongNone
  <2> HIDE DEF own
  <2> QED
    BY <1>2, <2>1
<1> QED
  BY <1>2, <1>3, <1>4, <1>5

-----------------------------------------------------------------------------
(***************************************************************************)
(* The handlers.                                                           *)
(***************************************************************************)
Phases == {"received", "chain", "send", "wait", "split", "search", "follow", "done"}
SendRecords == [entry : Nat, messages : Seq(ChatRecords), effort : Nat, hooked : BOOLEAN]

(* The effort that the policy of an entry gives the client's request.      *)
Level(i) == ApplyEffort(PolicyOf(i), Transformed(client.api, client.surface),
                        EffortRequest(client.api, client.surface))

PipelineTyped ==
  /\ c \in Configurations /\ ValidateComplete(c)
  /\ IsClient(client)
  /\ cursor \in Nat
  /\ pc \in Phases
  /\ entry \in {0} \cup DOMAIN c.models
  /\ chat \in [messages : Seq(ChatRecords), effort : Nat]
  /\ rounds \in Nat
  /\ IsAnswer(answer)
  /\ sends \in Seq(SendRecords)

(* A request goes where its name is configured, or to a default that       *)
(* startup looked at.                                                      *)
PipelineRouted ==
  /\ pc \notin {"received", "done"} => entry # 0
  /\ entry # 0 => Pool(c, client.requested) # {} \/ EntryValid(c, entry)

(* The effort is decided once, and every round is sent with it.            *)
PipelineEffort ==
  /\ pc \notin {"received", "done"} => chat.effort = Level(entry)
  /\ \A i \in 1 .. Len(sends) :
       entry # 0 /\ sends[i].entry = entry /\ sends[i].effort = Level(entry)

PipelineChats ==
  /\ ChatKept(chat.messages)
  /\ \A i \in 1 .. Len(sends) : ChatKept(sends[i].messages)

(* An answer is taken over before anything is sent, and divided only where *)
(* the client asked for no stream.                                         *)
PipelinePhase ==
  /\ pc \in {"received", "chain", "send"} => sends = << >>
  /\ pc \in {"wait", "split", "search", "follow"} => sends # << >>
  /\ pc \in {"split", "search"} => ~client.stream
  /\ pc # "done" => out = Nothing

PipelineInv ==
  /\ PipelineTyped /\ PipelineRouted /\ PipelineEffort /\ PipelineChats /\ PipelinePhase
  /\ AnswerWhole /\ EngineHonoursUser

LEMMA PipelineInitial == ASSUME Init PROVE PipelineInv
<1>1. PICK case \in Cases :
        ValidateComplete(case.config) /\ c = case.config /\ client = case.client
  BY DEF Init
<1>2. c \in Configurations /\ ValidateComplete(c) /\ IsClient(client)
  BY <1>1, PipelineAssumption
<1>3. /\ cursor = 0 /\ pc = "received" /\ entry = 0
      /\ chat = [messages |-> << >>, effort |-> NoLevel]
      /\ rounds = 0 /\ answer = NoAnswer /\ out = Nothing /\ sends = << >> /\ engines = NoSearch
  BY DEF Init
<1>4. PipelineTyped /\ ChatKept(chat.messages)
  <2>1. IsAnswer(NoAnswer)
    BY DEF NoAnswer, IsAnswer, Answer
  <2>2. chat \in [messages : Seq(ChatRecords), effort : Nat] /\ chat.messages = << >>
    BY <1>3 DEF NoLevel
  <2>3. WellFormedChat(<< >>) /\ Paired(<< >>)
    BY DEF WellFormedChat, Paired
  <2> QED
    BY <1>2, <1>3, <2>1, <2>2, <2>3 DEF PipelineTyped, Phases, ChatKept
<1>5. PipelineRouted /\ PipelineEffort /\ PipelineChats /\ PipelinePhase
  BY <1>3, <1>4 DEF PipelineRouted, PipelineEffort, PipelineChats, PipelinePhase
<1>6. AnswerWhole /\ EngineHonoursUser
  BY <1>3 DEF AnswerWhole, EngineHonoursUser, Nothing
<1> QED
  BY <1>4, <1>5, <1>6 DEF PipelineInv

(* What a step leaves alone keeps what is said of it.                      *)
LEMMA RoutingKept ==
  ASSUME PipelineInv, UNCHANGED <<c, client, entry, chat, sends>>,
         pc # "received", pc # "done"
  PROVE  PipelineRouted' /\ PipelineEffort' /\ PipelineChats'
<1>1. entry # 0 /\ chat.effort = Level(entry)
  BY DEF PipelineInv, PipelineRouted, PipelineEffort
<1>2. Level(entry)' = Level(entry)
  BY DEF Level, PolicyOf
<1>3. PipelineRouted'
  BY <1>1 DEF PipelineInv, PipelineRouted
<1>4. PipelineEffort'
  BY <1>1, <1>2 DEF PipelineInv, PipelineEffort
<1>5. PipelineChats'
  BY DEF PipelineInv, PipelineChats, ChatKept
<1> QED
  BY <1>3, <1>4, <1>5

LEMMA EnginesKept ==
  ASSUME EngineHonoursUser, UNCHANGED <<c, engines>>
  PROVE  EngineHonoursUser'
  BY DEF EngineHonoursUser

LEMMA EnginesAsked ==
  ASSUME c \in Configurations, UNCHANGED c, NEW texts, RunSearch(texts)
  PROVE  EngineHonoursUser'
<1>1. PICK chosen \in {ResolveSettings(c, texts, d) : d \in DecideAnswers \cup {NoAnswers}},
           first \in Backend :
        engines' = [texts |-> texts, asked |-> Asked(chosen, first), results |-> chosen.results]
  BY DEF RunSearch
<1>2. PICK d \in DecideAnswers \cup {NoAnswers} : chosen = ResolveSettings(c, texts, d)
  BY <1>1
<1> DEFINE conf == c
<1>3. conf \in Configurations
  OBVIOUS
<1> HIDE DEF conf
<1>4. LET ch == ResolveSettings(conf, texts, d)
      IN /\ Asked(ch, first)[1] = ch.engine
         /\ ch.results \in MAX_RESULTS_MIN .. MAX_RESULTS_MAX
         /\ Vetoed(texts) /\ ch.engine = "yandex" => conf.engine = "yandex"
         /\ conf.engine # "auto" =>
              \/ ch.engine = conf.engine
              \/ conf.engine = "yandex" /\ Vetoed(texts) /\ conf.searchDecide
         /\ conf.engine = "auto" /\ ~Vetoed(texts) /\ "names" \in texts =>
              ch.engine = "yandex"
  BY <1>3, SettingsRight
<1>5. /\ Asked(chosen, first)[1] = chosen.engine
      /\ chosen.results \in MAX_RESULTS_MIN .. MAX_RESULTS_MAX
      /\ Vetoed(texts) /\ chosen.engine = "yandex" => c.engine = "yandex"
      /\ c.engine # "auto" =>
           \/ chosen.engine = c.engine
           \/ c.engine = "yandex" /\ Vetoed(texts) /\ c.searchDecide
      /\ c.engine = "auto" /\ ~Vetoed(texts) /\ "names" \in texts => chosen.engine = "yandex"
  BY <1>2, <1>4 DEF conf
<1>6. /\ engines'.texts = texts /\ engines'.asked[1] = chosen.engine
      /\ engines'.results = chosen.results
  BY <1>1, <1>5
<1>7. Vetoed(texts) <=> "declines" \in texts
  BY DEF Vetoed
<1> QED
  BY <1>5, <1>6, <1>7 DEF EngineHonoursUser

(* A step that ends with an error, or goes on.                             *)
LEMMA NoAnswerShown ==
  ASSUME out'.kind # "answer" PROVE AnswerWhole'
  BY DEF AnswerWhole

LEMMA ErrorKept ==
  ASSUME PipelineInv, Error,
         UNCHANGED <<c, client, entry, chat, rounds, answer, sends, engines>>,
         cursor' \in Nat, pc # "done"
  PROVE  PipelineInv'
<1>1. pc' = "done" /\ out' = [kind |-> "error"]
  BY DEF Error, Reply
<1>2. PipelineTyped'
  BY <1>1 DEF PipelineInv, PipelineTyped, Phases
<1>3. PipelineRouted' /\ PipelineEffort' /\ PipelineChats'
  <2>1. Level(entry)' = Level(entry)
    BY DEF Level, PolicyOf
  <2> QED
    BY <1>1, <2>1 DEF PipelineInv, PipelineRouted, PipelineEffort, PipelineChats, ChatKept
<1>4. PipelinePhase'
  BY <1>1 DEF PipelinePhase
<1>5. AnswerWhole'
  BY <1>1, NoAnswerShown
<1>6. EngineHonoursUser'
  BY EnginesKept DEF PipelineInv
<1> QED
  BY <1>2, <1>3, <1>4, <1>5, <1>6 DEF PipelineInv

LEMMA NextRequestKept == ASSUME PipelineInv, NextRequest PROVE PipelineInv'
<1>1. /\ UNCHANGED <<c, cursor, client>> /\ pc' = "received" /\ entry' = 0
      /\ chat' = [messages |-> << >>, effort |-> NoLevel] /\ rounds' = 0
      /\ answer' = NoAnswer /\ out' = Nothing /\ sends' = << >> /\ engines' = NoSearch
  BY DEF NextRequest, Fresh
<1>2. PipelineTyped' /\ ChatKept(chat.messages)'
  <2>1. IsAnswer(NoAnswer)
    BY DEF NoAnswer, IsAnswer, Answer
  <2>2. chat' \in [messages : Seq(ChatRecords), effort : Nat] /\ chat'.messages = << >>
    BY <1>1 DEF NoLevel
  <2>3. WellFormedChat(<< >>) /\ Paired(<< >>)
    BY DEF WellFormedChat, Paired
  <2> QED
    BY <1>1, <2>1, <2>2, <2>3 DEF PipelineInv, PipelineTyped, Phases, ChatKept
<1>3. PipelineRouted' /\ PipelineEffort' /\ PipelineChats' /\ PipelinePhase'
  BY <1>1, <1>2 DEF PipelineRouted, PipelineEffort, PipelineChats, PipelinePhase
<1>4. AnswerWhole' /\ EngineHonoursUser'
  BY <1>1 DEF AnswerWhole, EngineHonoursUser, Nothing
<1> QED
  BY <1>2, <1>3, <1>4 DEF PipelineInv

LEMMA ServeNativeKept == ASSUME PipelineInv, ServeNative PROVE PipelineInv'
<1>1. /\ pc = "received" /\ RunSearch({client.query}) /\ pc' = "done" /\ out' = NativeAnswer
      /\ UNCHANGED <<c, cursor, client, entry, chat, rounds, answer, sends>>
  BY DEF ServeNative, Reply
<1>2. PipelineTyped'
  BY <1>1 DEF PipelineInv, PipelineTyped, Phases
<1>3. PipelineRouted' /\ PipelineEffort' /\ PipelineChats' /\ PipelinePhase'
  BY <1>1 DEF PipelineInv, PipelineRouted, PipelineEffort, PipelineChats, PipelinePhase, ChatKept
<1>4. AnswerWhole'
  BY <1>1, NoAnswerShown DEF NativeAnswer
<1>5. EngineHonoursUser'
  BY <1>1, EnginesAsked DEF PipelineInv, PipelineTyped
<1> QED
  BY <1>2, <1>3, <1>4, <1>5 DEF PipelineInv

LEMMA LevelType ==
  ASSUME PipelineInv, NEW i \in DOMAIN c.models
  PROVE  Level(i) \in Nat /\ RightEffort(client, PolicyOf(i), Level(i))
<1> DEFINE policy == PolicyOf(i)
           x == client
<1>1. policy \in Policies
  <2>1. c \in Configurations
    BY DEF PipelineInv, PipelineTyped
  <2>2. c.effort \in Limits /\ c.cap \in Limits /\ c.models[i] \in ModelEntries
    BY <2>1 DEF Configurations
  <2> QED
    BY <2>2 DEF PolicyOf, Policies, ModelEntries
<1>2. x.api \in {"openai", "anthropic", "responses"} /\ x.surface \in SurfaceOf(x.api)
  BY DEF PipelineInv, PipelineTyped, IsClient
<1>3. Level(i) = ApplyEffort(policy, Transformed(x.api, x.surface), EffortRequest(x.api, x.surface))
  BY DEF Level
<1> HIDE DEF policy, x
<1>4. Default(policy) \in Limits /\ Cap(policy) \in Limits
  BY <1>1, PolicyLimits
<1>5. LET level == ApplyEffort(policy, Transformed(x.api, x.surface),
                               EffortRequest(x.api, x.surface))
      IN level \in Nat /\ RightEffort(x, policy, level)
  BY <1>2, <1>4, AppliedRight
<1> QED
  BY <1>3, <1>5 DEF policy, x

LEMMA TransformKept == ASSUME PipelineInv, TransformAndRoute PROVE PipelineInv'
<1>1. PICK p \in ResolveRequestModel(c, client.requested,
                   IsReasoning(client.api, client.surface), cursor) :
        /\ entry' = p.entry /\ cursor' = p.cursor
        /\ chat' = [messages |-> ChatOf(client), effort |-> Level(p.entry)]
  BY DEF TransformAndRoute, Level
<1>2. /\ pc = "received" /\ pc' = "chain"
      /\ UNCHANGED <<c, client, rounds, answer, out, sends, engines>>
  BY DEF TransformAndRoute
<1>3. c \in Configurations /\ ValidateComplete(c) /\ IsClient(client) /\ cursor \in Nat
  BY DEF PipelineInv, PipelineTyped
<1>4. /\ p.entry \in DOMAIN c.models /\ p.cursor \in Nat /\ p.entry # 0
      /\ Pool(c, client.requested) # {} \/ EntryValid(c, p.entry)
  <2> DEFINE conf == c
             requested == client.requested
             reasons == IsReasoning(client.api, client.surface)
             cur == cursor
  <2>1. reasons \in BOOLEAN
    BY <1>3 DEF IsReasoning, IsClient
  <2>2. /\ conf \in Configurations /\ ValidateComplete(conf) /\ cur \in Nat
        /\ p \in ResolveRequestModel(conf, requested, reasons, cur)
    BY <1>1, <1>3
  <2> HIDE DEF conf, requested, reasons, cur
  <2>3. /\ p.entry \in DOMAIN conf.models /\ p.cursor \in Nat
        /\ Pool(conf, requested) # {} \/ EntryValid(conf, p.entry)
    BY <2>1, <2>2, RoutedRight
  <2>4. 0 \notin DOMAIN c.models
    BY <1>3 DEF Configurations
  <2> QED
    BY <2>3, <2>4 DEF conf, requested
<1>5. ChatOf(client) \in Seq(ChatRecords) /\ ChatKept(ChatOf(client))
  BY <1>3, ConversationWell
<1>6. Level(p.entry) \in Nat
  <2> DEFINE i == p.entry
  <2>1. i \in DOMAIN c.models
    BY <1>4
  <2> HIDE DEF i
  <2>2. Level(i) \in Nat
    BY <2>1, LevelType
  <2> QED
    BY <2>2 DEF i
<1>7. /\ chat' \in [messages : Seq(ChatRecords), effort : Nat]
      /\ chat'.messages = ChatOf(client) /\ chat'.effort = Level(p.entry)
  BY <1>1, <1>5, <1>6
<1>8. Level(entry)' = Level(p.entry)
  BY <1>1, <1>2 DEF Level, PolicyOf
<1>9. PipelineTyped'
  BY <1>1, <1>2, <1>4, <1>7 DEF PipelineInv, PipelineTyped, Phases
<1>10. sends = << >> /\ out = Nothing
  BY <1>2 DEF PipelineInv, PipelinePhase
<1>11. PipelineRouted' /\ PipelineEffort' /\ PipelineChats' /\ PipelinePhase'
  BY <1>1, <1>2, <1>4, <1>5, <1>7, <1>8, <1>10
  DEF PipelineRouted, PipelineEffort, PipelineChats, PipelinePhase, ChatKept
<1>12. AnswerWhole'
  BY <1>2, <1>10, NoAnswerShown DEF Nothing
<1>13. EngineHonoursUser'
  BY <1>2, EnginesKept DEF PipelineInv
<1> QED
  BY <1>9, <1>11, <1>12, <1>13 DEF PipelineInv

LEMMA ChainContinuesKept == ASSUME PipelineInv, ChainContinues PROVE PipelineInv'
<1>1. PICK edit \in {<< >>, <<Chat("user", TRUE, << >>, NoId)>>} :
        chat' = [chat EXCEPT !.messages = @ \o edit]
  BY DEF ChainContinues
<1>2. /\ pc = "chain" /\ pc' = "send"
      /\ UNCHANGED <<c, cursor, client, entry, rounds, answer, out, sends, engines>>
  BY DEF ChainContinues
<1>3. /\ chat \in [messages : Seq(ChatRecords), effort : Nat] /\ ChatKept(chat.messages)
      /\ chat.effort = Level(entry) /\ entry # 0 /\ sends = << >> /\ out = Nothing
  BY <1>2
  DEF PipelineInv, PipelineTyped, PipelineChats, PipelineEffort, PipelineRouted, PipelinePhase
<1>4. edit \in Seq(ChatRecords) /\ ChatKept(edit)
  <2>1. "user" \in Roles /\ TRUE \in BOOLEAN
    BY DEF Roles
  <2>2. << >> \in Seq(ChatRecords) /\ WellFormedChat(<< >>)
    BY DEF WellFormedChat
  <2>3. CASE edit = << >>
    BY <2>2, <2>3, StrictKept
  <2>4. CASE edit = <<Chat("user", TRUE, << >>, NoId)>>
    BY <2>1, <2>4, OneWell, StrictKept
  <2> QED
    BY <2>3, <2>4
<1> DEFINE joined == chat.messages \o edit
<1>5. joined \in Seq(ChatRecords) /\ ChatKept(joined)
  <2> DEFINE m == chat.messages
  <2>1. m \in Seq(ChatRecords) /\ ChatKept(m)
    BY <1>3
  <2> HIDE DEF m
  <2>2. m \o edit \in Seq(ChatRecords) /\ ChatKept(m \o edit)
    BY <1>4, <2>1, JoinedKept
  <2> QED
    BY <2>2 DEF m
<1> HIDE DEF joined
<1>6. chat' = [chat EXCEPT !.messages = joined]
  BY <1>1 DEF joined
<1>7. /\ chat' \in [messages : Seq(ChatRecords), effort : Nat]
      /\ chat'.messages = joined /\ chat'.effort = chat.effort
  BY <1>3, <1>5, <1>6
<1>8. Level(entry)' = Level(entry)
  BY <1>2 DEF Level, PolicyOf
<1>9. PipelineTyped'
  BY <1>2, <1>7 DEF PipelineInv, PipelineTyped, Phases
<1>10. PipelineRouted' /\ PipelineEffort' /\ PipelineChats' /\ PipelinePhase'
  BY <1>2, <1>3, <1>5, <1>7, <1>8
  DEF PipelineInv, PipelineRouted, PipelineEffort, PipelineChats, PipelinePhase, ChatKept
<1>11. AnswerWhole'
  BY <1>2, <1>3, NoAnswerShown DEF Nothing
<1>12. EngineHonoursUser'
  BY <1>2, EnginesKept DEF PipelineInv
<1> QED
  BY <1>9, <1>10, <1>11, <1>12 DEF PipelineInv

(* A step that ends with an answer that is no stream: a is what the model  *)
(* said, and b what of it is rendered.                                     *)
Shows(a, b) ==
  /\ out'.kind = "answer" /\ out'.model = ClientName
  /\ out'.content = Rendered(client.api, b)
  /\ answer' = a /\ UNCHANGED client
  /\ b.reasoning \in BOOLEAN /\ b.text \in BOOLEAN /\ b.calls \in Seq(CallKinds)
  /\ b.finish = a.finish /\ (a.text => b.text)
  /\ b.calls = IF sends' = << >> THEN a.calls ELSE Among(a.calls, {"own"})

LEMMA AnswerShown ==
  ASSUME IsClient(client), NEW a, IsAnswer(a), NEW b, Shows(a, b)
  PROVE  AnswerWhole'
<1> DEFINE kind == client.api
           shown == Rendered(kind, b)
           own == Among(a.calls, {"own"})
<1>1. kind \in {"openai", "anthropic", "responses"}
  BY DEF IsClient
<1>2. b.finish \in {"stop", "tool_calls"} /\ (a.finish = "tool_calls" <=> a.calls # << >>)
  <2>1. a = Answer(a.reasoning, a.text, a.calls)
    BY DEF IsAnswer
  <2>2. a.finish = IF a.calls = << >> THEN "stop" ELSE "tool_calls"
    BY <2>1 DEF Answer
  <2> QED
    BY <2>2 DEF Shows
<1>3. /\ CallsIn(shown.blocks) = b.calls
      /\ b.text => "text" \in ToSet(shown.blocks)
      /\ shown.stop \in {"tool_use", "tool_calls"} <=> b.finish = "tool_calls" /\ kind # "responses"
  <2>1. /\ b.reasoning \in BOOLEAN /\ b.text \in BOOLEAN /\ b.calls \in Seq(CallKinds)
        /\ b.finish \in {"stop", "tool_calls"}
    BY <1>2 DEF Shows
  <2> HIDE DEF kind
  <2> QED
    BY <1>1, <2>1, ShownRight
<1> HIDE DEF kind, shown, own
<1>4. /\ out'.content = shown /\ out'.model = ClientName /\ answer' = a /\ client' = client
      /\ b.finish = a.finish /\ (a.text => b.text)
      /\ b.calls = IF sends' = << >> THEN a.calls ELSE own
  BY DEF Shows, shown, own, kind
<1>5. Among(answer.calls, {"own"})' = own
  BY <1>4 DEF own
<1>6. /\ CallsIn(out.content.blocks)' = IF sends' = << >> THEN answer'.calls ELSE own
      /\ out'.model = ClientName
      /\ answer'.text => "text" \in ToSet(out'.content.blocks)
  BY <1>3, <1>4
<1>7. \/ out'.content.stop \in {"tool_use", "tool_calls"} <=> own # << >> /\ client'.api # "responses"
      \/ sends' = << >> \/ own # answer'.calls
  BY <1>2, <1>3, <1>4 DEF kind
<1> QED
  BY <1>5, <1>6, <1>7 DEF AnswerWhole

LEMMA StreamShown ==
  ASSUME client.stream, sends # << >>, UNCHANGED <<client, sends>> PROVE AnswerWhole'
  BY DEF AnswerWhole

LEMMA FinalKept ==
  ASSUME PipelineInv, IsAnswer(answer'), AnswerWhole',
         pc # "received", pc # "done", pc' = "done",
         UNCHANGED <<c, cursor, client, entry, rounds, sends, engines>>,
         chat' = chat
  PROVE  PipelineInv'
<1>1. PipelineTyped'
  BY DEF PipelineInv, PipelineTyped, Phases
<1>2. PipelineRouted' /\ PipelineEffort' /\ PipelineChats'
  BY RoutingKept
<1>3. PipelinePhase'
  BY DEF PipelinePhase
<1>4. EngineHonoursUser'
  BY EnginesKept DEF PipelineInv
<1> QED
  BY <1>1, <1>2, <1>3, <1>4 DEF PipelineInv

LEMMA AnswerFields ==
  ASSUME NEW a, IsAnswer(a)
  PROVE  /\ a.reasoning \in BOOLEAN /\ a.text \in BOOLEAN /\ a.calls \in Seq(CallKinds)
         /\ a = [reasoning |-> a.reasoning, text |-> a.text, calls |-> a.calls, finish |-> a.finish]
         /\ a.finish \in {"stop", "tool_calls"}
  BY DEF IsAnswer, Answer

LEMMA TakesOverKept == ASSUME PipelineInv, ChainTakesOver PROVE PipelineInv'
<1>1. PICK a \in Answers : answer' = a /\ Reply(RenderFinal(a))
  BY DEF ChainTakesOver
<1>2. /\ pc = "chain" /\ pc' = "done" /\ out' = RenderFinal(a)
      /\ UNCHANGED <<c, cursor, client, entry, chat, rounds, searched, sends, engines>>
  BY <1>1 DEF ChainTakesOver, Reply
<1>3. IsAnswer(a) /\ sends = << >>
  BY <1>1, <1>2, PipelineAssumption DEF PipelineInv, PipelinePhase
<1>4. AnswerWhole'
  <2>1. CASE client.stream
    <3> DEFINE b == SyntheticSse(a)
    <3>1. /\ out'.model = ClientName /\ out'.content = Rendered(client.api, b)
      BY <1>2, <2>1 DEF RenderFinal
    <3>2. /\ b.reasoning \in BOOLEAN /\ b.text = a.text /\ b.text \in BOOLEAN
          /\ b.calls \in Seq(CallKinds) /\ b.finish \in {"stop", "tool_calls"}
      <4>1. /\ a.reasoning \in BOOLEAN /\ a.text \in BOOLEAN /\ a.finish \in {"stop", "tool_calls"}
            /\ a = [reasoning |-> a.reasoning, text |-> a.text, calls |-> a.calls,
                    finish |-> a.finish]
        BY <1>3, AnswerFields
      <4>2. << >> \in Seq(CallKinds)
        OBVIOUS
      <4>3. b = [a EXCEPT !.calls = << >>]
        BY DEF SyntheticSse
      <4> HIDE DEF b
      <4>4. b = [reasoning |-> a.reasoning, text |-> a.text, calls |-> << >>, finish |-> a.finish]
        BY <4>1, <4>3
      <4> QED
        BY <4>1, <4>2, <4>4
    <3> DEFINE kind == client.api
    <3>3. kind \in {"openai", "anthropic", "responses"}
      BY DEF PipelineInv, PipelineTyped, IsClient
    <3> HIDE DEF b, kind
    <3> DEFINE shown == Rendered(kind, b)
    <3>4. /\ CallsIn(shown.blocks) = b.calls
          /\ b.text => "text" \in ToSet(shown.blocks)
          /\ shown.stop \in {"tool_use", "tool_calls"}
               <=> b.finish = "tool_calls" /\ kind # "responses"
      BY <3>2, <3>3, ShownRight
    <3> QED
      BY <1>1, <1>2, <2>1, <3>1, <3>2, <3>4 DEF AnswerWhole, kind
  <2>2. CASE ~client.stream
    <3>1. /\ out'.kind = "answer" /\ out'.model = ClientName
          /\ out'.content = Rendered(client.api, a)
      BY <1>2, <2>2 DEF RenderFinal
    <3>2. a.reasoning \in BOOLEAN /\ a.text \in BOOLEAN /\ a.calls \in Seq(CallKinds)
      BY <1>3, AnswerFields
    <3>3. Shows(a, a)
      BY <1>1, <1>2, <1>3, <3>1, <3>2 DEF Shows
    <3> QED
      BY <1>3, <3>3, AnswerShown DEF PipelineInv, PipelineTyped
  <2> QED
    BY <2>1, <2>2
<1> QED
  BY <1>1, <1>2, <1>3, <1>4, FinalKept

LEMMA PassedKept ==
  ASSUME PipelineInv, pc = "wait", NEW named, Passed(named),
         client.stream \/ named = ClientName
  PROVE  PipelineInv'
<1>1. PICK a \in Answers :
        /\ \A i \in 1 .. Len(a.calls) : a.calls[i] = "own"
        /\ answer' = a
        /\ Reply([kind |-> "answer", of |-> a, model |-> named,
                  content |-> Rendered(client.api, a)])
        /\ UNCHANGED <<c, cursor, client, entry, chat, rounds, searched, sends, engines, served>>
  BY DEF Passed
<1>2. IsAnswer(a) /\ sends # << >> /\ pc' = "done"
  BY <1>1, PipelineAssumption DEF PipelineInv, PipelinePhase, Reply
<1>3. /\ a.reasoning \in BOOLEAN /\ a.text \in BOOLEAN /\ a.calls \in Seq(CallKinds)
  BY <1>2, AnswerFields
<1>4. Among(a.calls, {"own"}) = a.calls
  <2> DEFINE calls == a.calls
  <2>1. calls \in Seq(CallKinds) /\ \A i \in 1 .. Len(calls) : calls[i] = "own"
    BY <1>1, <1>3
  <2> HIDE DEF calls
  <2>2. Among(calls, {"own"}) = calls
    BY <2>1, OwnRight
  <2> QED
    BY <2>2 DEF calls
<1>5. AnswerWhole'
  <2>1. CASE client.stream
    BY <1>1, <1>2, <2>1, StreamShown
  <2>2. CASE ~client.stream
    <3>1. /\ out'.kind = "answer" /\ out'.model = ClientName
          /\ out'.content = Rendered(client.api, a)
      BY <1>1, <2>2 DEF Reply
    <3>2. Shows(a, a)
      BY <1>1, <1>2, <1>3, <1>4, <3>1 DEF Shows
    <3> QED
      BY <1>2, <3>2, AnswerShown DEF PipelineInv, PipelineTyped
  <2> QED
    BY <2>1, <2>2
<1> QED
  BY <1>1, <1>2, <1>5, FinalKept

LEMMA StreamSearchingKept == ASSUME PipelineInv, StreamSearching PROVE PipelineInv'
<1>1. PICK named \in StreamNames, a \in Answers, said \in BOOLEAN, mixed \in BOOLEAN :
        /\ answer' = a
        /\ Reply([kind |-> "answer", of |-> a, model |-> named,
                  content |-> Rendered(client.api,
                    [a EXCEPT !.text = said,
                              !.calls = IF mixed THEN @ ELSE Among(@, {"own"})])])
  BY DEF StreamSearching
<1>2. /\ pc = "wait" /\ pc' = "done" /\ client.stream
      /\ UNCHANGED <<c, cursor, client, entry, chat, rounds, searched, sends, engines>>
  BY <1>1 DEF StreamSearching, Reply
<1>3. IsAnswer(answer')
  BY <1>1, PipelineAssumption
<1>4. AnswerWhole'
  BY <1>2, StreamShown DEF PipelineInv, PipelinePhase
<1> QED
  BY <1>2, <1>3, <1>4, FinalKept

(* The search loop's answers to a client that is not streamed to.          *)
LEMMA FinalRendered ==
  ASSUME PipelineInv, pc \in {"split", "search"}, NEW b, Reply(RenderFinal(b)),
         UNCHANGED <<client, answer, sends>>,
         b.reasoning \in BOOLEAN, b.text \in BOOLEAN,
         b.finish = answer.finish, answer.text => b.text,
         b.calls = Among(answer.calls, {"own"})
  PROVE  AnswerWhole'
<1>1. ~client.stream /\ sends # << >> /\ IsAnswer(answer)
  BY DEF PipelineInv, PipelinePhase, PipelineTyped
<1>2. out' = RenderFinal(b)
  BY DEF Reply
<1>3. /\ out'.kind = "answer" /\ out'.model = ClientName
      /\ out'.content = Rendered(client.api, b)
  BY <1>1, <1>2 DEF RenderFinal
<1>4. b.calls \in Seq(CallKinds)
  <2> DEFINE calls == answer.calls
  <2>1. calls \in Seq(CallKinds)
    BY <1>1, AnswerFields
  <2> HIDE DEF calls
  <2>2. Among(calls, {"own"}) \in Seq(CallKinds)
    BY <2>1, OwnRight
  <2> QED
    BY <2>2 DEF calls
<1>5. Shows(answer, b)
  BY <1>1, <1>3, <1>4 DEF Shows
<1> QED
  BY <1>1, <1>5, AnswerShown DEF PipelineInv, PipelineTyped

LEMMA SplitPlainKept == ASSUME PipelineInv, SplitPlain PROVE PipelineInv'
<1>1. /\ pc = "split" /\ Ours = << >> /\ Reply(RenderFinal(answer)) /\ pc' = "done"
      /\ UNCHANGED <<c, cursor, client, entry, chat, rounds, answer, searched, sends, engines>>
  BY DEF SplitPlain, Reply
<1>2. IsAnswer(answer)
  BY DEF PipelineInv, PipelineTyped
<1> DEFINE calls == answer.calls
<1>3. calls \in Seq(CallKinds) /\ answer.reasoning \in BOOLEAN /\ answer.text \in BOOLEAN
  BY <1>2, AnswerFields
<1>4. Among(calls, {"own"}) = calls
  <2> HIDE DEF calls
  <2> DEFINE ours == {"search", "blank"}
  <2>1. Among(calls, ours) = << >>
    BY <1>1 DEF Ours, calls
  <2> HIDE DEF ours
  <2>2. \A i \in 1 .. Len(calls) : calls[i] \notin ours
    BY <1>3, <2>1, AmongNone
  <2>3. \A i \in 1 .. Len(calls) : calls[i] = "own"
    BY <1>3, <2>2 DEF CallKinds, ours
  <2> QED
    BY <1>3, <2>3, OwnRight
<1>5. AnswerWhole'
  BY <1>1, <1>3, <1>4, FinalRendered
<1> QED
  BY <1>1, <1>2, <1>5, FinalKept

LEMMA StrippedFields ==
  ASSUME NEW a, IsAnswer(a)
  PROVE  LET b == StripSearchCall(a)
         IN /\ b.reasoning \in BOOLEAN /\ b.text \in BOOLEAN /\ b.finish = a.finish
            /\ a.text => b.text
            /\ b.calls = Among(a.calls, {"own"})
<1> DEFINE b == StripSearchCall(a)
           kept == Among(a.calls, {"own"})
           said == a.text \/ kept = << >>
<1>1. /\ a.reasoning \in BOOLEAN /\ a.text \in BOOLEAN
      /\ a = [reasoning |-> a.reasoning, text |-> a.text, calls |-> a.calls, finish |-> a.finish]
  BY AnswerFields
<1>2. b = [a EXCEPT !.calls = kept, !.text = said]
  BY DEF StripSearchCall
<1>3. said \in BOOLEAN /\ (a.text => said)
  OBVIOUS
<1> HIDE DEF kept, said, b
<1>4. b.reasoning = a.reasoning /\ b.text = said /\ b.finish = a.finish /\ b.calls = kept
  BY <1>1, <1>2
<1> QED
  BY <1>1, <1>3, <1>4 DEF kept, b

LEMMA GivesUpKept == ASSUME PipelineInv, SplitGivesUp PROVE PipelineInv'
<1> DEFINE b == StripSearchCall(answer)
<1>1. /\ pc = "split" /\ Reply(RenderFinal(b)) /\ pc' = "done"
      /\ UNCHANGED <<c, cursor, client, entry, chat, rounds, answer, searched, sends, engines>>
  BY DEF SplitGivesUp, Reply
<1>2. IsAnswer(answer)
  BY DEF PipelineInv, PipelineTyped
<1>3. /\ b.reasoning \in BOOLEAN /\ b.text \in BOOLEAN /\ b.finish = answer.finish
      /\ answer.text => b.text
      /\ b.calls = Among(answer.calls, {"own"})
  BY <1>2, StrippedFields
<1> HIDE DEF b
<1>4. AnswerWhole'
  BY <1>1, <1>3, FinalRendered
<1> QED
  BY <1>1, <1>2, <1>4, FinalKept

(* Another request is sent.                                                *)
LEMMA SentKept ==
  ASSUME PipelineInv, pc \in {"send", "follow"}, pc' = "wait", NEW hooked \in BOOLEAN,
         sends' = Sent(hooked), cursor' \in Nat,
         UNCHANGED <<c, client, entry, chat, rounds, answer, out, engines>>
  PROVE  PipelineInv'
<1> DEFINE payload == Payload
           x == [entry |-> entry, messages |-> payload, effort |-> chat.effort, hooked |-> hooked]
<1>1. /\ c \in Configurations /\ entry \in DOMAIN c.models /\ entry # 0
      /\ chat \in [messages : Seq(ChatRecords), effort : Nat] /\ ChatKept(chat.messages)
      /\ chat.effort = Level(entry) /\ sends \in Seq(SendRecords) /\ out = Nothing
  BY DEF PipelineInv, PipelineTyped, PipelineRouted, PipelineEffort, PipelineChats, PipelinePhase
<1>2. entry \in Nat
  BY <1>1 DEF Configurations
<1>3. payload \in Seq(ChatRecords) /\ ChatKept(payload)
  <2> DEFINE m == chat.messages
  <2>1. m \in Seq(ChatRecords) /\ ChatKept(m)
    BY <1>1
  <2>2. payload = WithSystem(m) \/ payload = m
    BY DEF Payload
  <2> HIDE DEF m, payload
  <2> QED
    BY <2>1, <2>2, WithSystemWell
<1> HIDE DEF payload
<1>4. /\ x \in SendRecords /\ x.entry = entry /\ x.effort = Level(entry)
      /\ x.messages = payload
  BY <1>1, <1>2, <1>3 DEF SendRecords
<1> HIDE DEF x
<1>5. sends' = Append(sends, x)
  BY DEF Sent, x, payload
<1>6. /\ sends' \in Seq(SendRecords) /\ sends' # << >>
      /\ \A i \in 1 .. Len(sends') : (i \in 1 .. Len(sends) /\ sends'[i] = sends[i]) \/ sends'[i] = x
  BY <1>1, <1>4, <1>5
<1>7. Level(entry)' = Level(entry)
  BY DEF Level, PolicyOf
<1>8. PipelineTyped'
  BY <1>6 DEF PipelineInv, PipelineTyped, Phases
<1>9. PipelineRouted'
  BY <1>1 DEF PipelineInv, PipelineRouted
<1>10. PipelineEffort'
  <2>1. \A i \in 1 .. Len(sends') : sends'[i].entry = entry /\ sends'[i].effort = Level(entry)
    BY <1>4, <1>6 DEF PipelineInv, PipelineEffort
  <2> QED
    BY <1>1, <1>7, <2>1 DEF PipelineEffort
<1>11. PipelineChats'
  BY <1>3, <1>4, <1>6 DEF PipelineInv, PipelineChats, ChatKept
<1>12. PipelinePhase'
  BY <1>1, <1>6 DEF PipelinePhase
<1>13. AnswerWhole'
  BY <1>1, NoAnswerShown DEF Nothing
<1>14. EngineHonoursUser'
  BY EnginesKept DEF PipelineInv
<1> QED
  BY <1>8, <1>9, <1>10, <1>11, <1>12, <1>13, <1>14 DEF PipelineInv

LEMMA SendRequestKept == ASSUME PipelineInv, SendRequest PROVE PipelineInv'
<1>1. /\ pc = "send" /\ UNCHANGED <<c, client, entry, chat, rounds, answer, searched, engines>>
      /\ IF AuthFails(c, entry)
           THEN Error /\ UNCHANGED sends
           ELSE pc' = "wait" /\ sends' = Sent(TRUE) /\ UNCHANGED out
  BY DEF SendRequest
<1>2. cursor' \in Nat
  <2>1. PICK p \in Pick(c, c.completion, cursor) : cursor' = p.cursor
    BY DEF SendRequest
  <2> DEFINE conf == c
             name == c.completion
             cur == cursor
  <2>2. conf \in Configurations /\ cur \in Nat /\ p \in Pick(conf, name, cur)
    BY <2>1 DEF PipelineInv, PipelineTyped
  <2> HIDE DEF conf, name, cur
  <2>3. p.cursor \in Nat
    BY <2>2, PickIsIn
  <2> QED
    BY <2>1, <2>3
<1>3. CASE AuthFails(c, entry)
  BY <1>1, <1>2, <1>3, ErrorKept
<1>4. CASE ~AuthFails(c, entry)
  BY <1>1, <1>2, <1>4, SentKept
<1> QED
  BY <1>3, <1>4

LEMMA FollowUpKept == ASSUME PipelineInv, FollowUp PROVE PipelineInv'
<1>1. /\ pc = "follow"
      /\ UNCHANGED <<c, cursor, client, entry, chat, rounds, answer, searched, engines>>
      /\ IF AuthFails(c, entry)
           THEN Error /\ UNCHANGED sends
           ELSE pc' = "wait" /\ sends' = Sent(FALSE) /\ UNCHANGED out
  BY DEF FollowUp
<1>2. cursor' \in Nat
  BY <1>1 DEF PipelineInv, PipelineTyped
<1>3. CASE AuthFails(c, entry)
  BY <1>1, <1>2, <1>3, ErrorKept
<1>4. CASE ~AuthFails(c, entry)
  BY <1>1, <1>2, <1>4, SentKept
<1> QED
  BY <1>3, <1>4

(* A step of the search loop between two answers.                          *)
LEMMA LoopKept ==
  ASSUME PipelineInv, pc \in {"wait", "split", "search"}, pc' \in {"split", "search"},
         ~client.stream, IsAnswer(answer'), rounds' \in Nat,
         UNCHANGED <<c, cursor, client, entry, chat, out, sends>>, EngineHonoursUser'
  PROVE  PipelineInv'
<1>1. sends # << >> /\ out = Nothing
  BY DEF PipelineInv, PipelinePhase
<1>2. PipelineTyped'
  BY DEF PipelineInv, PipelineTyped, Phases
<1>3. PipelineRouted' /\ PipelineEffort' /\ PipelineChats'
  BY RoutingKept
<1>4. PipelinePhase'
  BY <1>1 DEF PipelinePhase
<1>5. AnswerWhole'
  BY <1>1, NoAnswerShown DEF Nothing
<1> QED
  BY <1>2, <1>3, <1>4, <1>5 DEF PipelineInv

LEMMA UpstreamAnswersKept == ASSUME PipelineInv, UpstreamAnswers PROVE PipelineInv'
<1>1. EngineHonoursUser'
  BY EnginesKept DEF PipelineInv, UpstreamAnswers
<1>2. IsAnswer(answer')
  <2>1. answer' \in Answers
    BY DEF UpstreamAnswers
  <2> QED
    BY <2>1, PipelineAssumption
<1>3. /\ pc = "wait" /\ pc' = "split" /\ ~client.stream
      /\ UNCHANGED <<c, cursor, client, entry, chat, rounds, out, sends>>
  BY DEF UpstreamAnswers
<1>4. rounds' \in Nat
  BY <1>3 DEF PipelineInv, PipelineTyped
<1> QED
  BY <1>1, <1>2, <1>3, <1>4, LoopKept

LEMMA SplitSearchesKept == ASSUME PipelineInv, SplitSearches PROVE PipelineInv'
<1>1. EngineHonoursUser'
  BY EnginesKept DEF PipelineInv, SplitSearches
<1>2. /\ pc = "split" /\ pc' = "search" /\ rounds' = rounds + 1
      /\ UNCHANGED <<c, cursor, client, entry, chat, answer, out, sends>>
  BY DEF SplitSearches
<1>3. IsAnswer(answer') /\ rounds' \in Nat /\ ~client.stream
  BY <1>2 DEF PipelineInv, PipelineTyped, PipelinePhase
<1> QED
  BY <1>1, <1>2, <1>3, LoopKept

LEMMA SearchOneKept == ASSUME PipelineInv, SearchOne PROVE PipelineInv'
<1>1. /\ pc = "search" /\ pc' = "search"
      /\ UNCHANGED <<c, cursor, client, entry, chat, rounds, answer, out, sends>>
      /\ RunSearch({client.query, client.words})
  BY DEF SearchOne
<1>2. EngineHonoursUser'
  <2> DEFINE texts == {client.query, client.words}
  <2>1. RunSearch(texts)
    BY <1>1
  <2> HIDE DEF texts
  <2> QED
    BY <1>1, <2>1, EnginesAsked DEF PipelineInv, PipelineTyped
<1>3. IsAnswer(answer') /\ rounds' \in Nat /\ ~client.stream
  BY <1>1 DEF PipelineInv, PipelineTyped, PipelinePhase
<1> QED
  BY <1>1, <1>2, <1>3, LoopKept

(* The searches of a round: calls, and at once their answers.              *)
LEMMA ResultsWell ==
  ASSUME NEW m \in Seq(ChatRecords), ChatKept(m), NEW ids \in Seq(Nat), NEW n \in Nat,
         Len(ids) = n
  PROVE  LET w == m \o <<AssistantCalls(ids)>> \o [k \in 1 .. n |-> ToolMessage(ids[k])]
         IN w \in Seq(ChatRecords) /\ ChatKept(w)
<1> DEFINE role == "assistant"
           said == FALSE
           x == Chat(role, said, ids, NoId)
           tools == [k \in 1 .. Len(ids) |-> ToolMessage(ids[k])]
           both == <<x>> \o tools
<1>1. role \in Roles /\ said \in BOOLEAN /\ NoId \in Nat
  BY DEF Roles, NoId
<1>2. AssistantCalls(ids) = x /\ [k \in 1 .. n |-> ToolMessage(ids[k])] = tools
  BY DEF AssistantCalls
<1> HIDE DEF role, said
<1>3. both \in Seq(ChatRecords) /\ WellFormedChat(both)
  BY <1>1, AnsweredWell
<1>4. x \in ChatRecords
  BY <1>1, ChatType
<1>5. tools \in Seq(ChatRecords)
  <2>1. \A k \in 1 .. Len(ids) : ids[k] \in Nat
    OBVIOUS
  <2>2. \A k \in 1 .. Len(ids) : ToolMessage(ids[k]) \in ChatRecords
    BY <2>1, ToolType
  <2> QED
    BY <2>2
<1> HIDE DEF x, tools, both
<1>6. m \o both \in Seq(ChatRecords) /\ ChatKept(m \o both)
  BY <1>3, StrictKept, JoinedKept
<1>7. m \o both = m \o <<x>> \o tools
  <2>1. \A p, q, s \in Seq(ChatRecords) : p \o (q \o s) = (p \o q) \o s
    OBVIOUS
  <2>2. <<x>> \in Seq(ChatRecords)
    BY <1>4
  <2> QED
    BY <1>5, <2>1, <2>2 DEF both
<1> QED
  BY <1>2, <1>6, <1>7

LEMMA SearchesDoneKept == ASSUME PipelineInv, SearchesDone PROVE PipelineInv'
<1> DEFINE w == AppendSearchResults
           b == StripSearchCall(answer)
<1>1. /\ pc = "search" /\ chat' = [chat EXCEPT !.messages = w] /\ engines' = NoSearch
      /\ UNCHANGED <<c, cursor, client, entry, rounds, answer, searched, sends>>
      /\ IF OtherCalls THEN Reply(RenderFinal(b)) ELSE pc' = "follow" /\ UNCHANGED out
  BY DEF SearchesDone
<1>2. /\ chat \in [messages : Seq(ChatRecords), effort : Nat] /\ ChatKept(chat.messages)
      /\ rounds \in Nat /\ IsAnswer(answer) /\ chat.effort = Level(entry) /\ entry # 0
      /\ sends # << >> /\ out = Nothing
  BY <1>1
  DEF PipelineInv, PipelineTyped, PipelineChats, PipelineEffort, PipelineRouted, PipelinePhase
<1>3. w \in Seq(ChatRecords) /\ ChatKept(w)
  <2> DEFINE m == chat.messages
             ids == ResultIds
             n == Len(Queries)
             calls == answer.calls
             kinds == {"search"}
  <2>1. n \in Nat
    <3>1. calls \in Seq(CallKinds)
      BY <1>2, AnswerFields
    <3>2. Queries = Among(calls, kinds)
      BY DEF Queries
    <3> HIDE DEF calls, kinds
    <3>3. Among(calls, kinds) \in Seq(kinds \cap CallKinds)
      BY <3>1, AmongType
    <3> QED
      BY <3>2, <3>3
  <2>2. ids = [k \in 1 .. n |-> 10 * rounds + k]
    BY DEF ResultIds
  <2>3. w = m \o <<AssistantCalls(ids)>> \o [k \in 1 .. n |-> ToolMessage(ids[k])]
    BY DEF AppendSearchResults
  <2>4. m \in Seq(ChatRecords) /\ ChatKept(m)
    BY <1>2
  <2> HIDE DEF m, ids, n, w
  <2>5. ids \in Seq(Nat) /\ Len(ids) = n
    <3>1. \A k \in 1 .. n : 10 * rounds + k \in Nat
      BY <1>2, <2>1
    <3> QED
      BY <2>1, <2>2, <3>1
  <2> QED
    BY <2>1, <2>3, <2>4, <2>5, ResultsWell
<1> HIDE DEF w
<1>4. /\ chat' \in [messages : Seq(ChatRecords), effort : Nat]
      /\ chat'.messages = w /\ chat'.effort = chat.effort
  BY <1>1, <1>2, <1>3
<1>5. Level(entry)' = Level(entry)
  BY <1>1 DEF Level, PolicyOf
<1>6. pc' \in {"done", "follow"}
  BY <1>1 DEF Reply
<1>7. PipelineTyped'
  BY <1>1, <1>4, <1>6 DEF PipelineInv, PipelineTyped, Phases
<1>8. PipelineRouted' /\ PipelineEffort' /\ PipelineChats'
  BY <1>1, <1>2, <1>3, <1>4, <1>5
  DEF PipelineInv, PipelineRouted, PipelineEffort, PipelineChats, ChatKept
<1>9. PipelinePhase'
  BY <1>1, <1>2, <1>6 DEF PipelinePhase, Reply
<1>10. EngineHonoursUser'
  BY <1>1 DEF EngineHonoursUser
<1>11. AnswerWhole'
  <2>1. CASE OtherCalls
    <3>1. Reply(RenderFinal(b))
      BY <1>1, <2>1
    <3>2. /\ b.reasoning \in BOOLEAN /\ b.text \in BOOLEAN /\ b.finish = answer.finish
          /\ answer.text => b.text
          /\ b.calls = Among(answer.calls, {"own"})
      BY <1>2, StrippedFields
    <3> HIDE DEF b
    <3> QED
      BY <1>1, <3>1, <3>2, FinalRendered
  <2>2. CASE ~OtherCalls
    BY <1>1, <1>2, <2>2, NoAnswerShown DEF Nothing
  <2> QED
    BY <2>1, <2>2
<1> QED
  BY <1>7, <1>8, <1>9, <1>10, <1>11 DEF PipelineInv

LEMMA PipelineStepKeeps == ASSUME PipelineInv, Next PROVE PipelineInv'
<1>1. CASE BodyUnreadable
  <2>1. cursor' \in Nat
    BY <1>1 DEF BodyUnreadable, PipelineInv, PipelineTyped
  <2> QED
    BY <1>1, <2>1, ErrorKept DEF BodyUnreadable
<1>2. CASE ChainFails
  <2>1. cursor' \in Nat
    BY <1>2 DEF ChainFails, PipelineInv, PipelineTyped
  <2> QED
    BY <1>2, <2>1, ErrorKept DEF ChainFails
<1>3. CASE UpstreamFails
  <2>1. cursor' \in Nat
    BY <1>3 DEF UpstreamFails, PipelineInv, PipelineTyped
  <2> QED
    BY <1>3, <2>1, ErrorKept DEF UpstreamFails
<1>4. CASE PassWhole
  BY <1>4, PassedKept DEF PassWhole
<1>5. CASE PassStream
  <2>1. pc = "wait" /\ client.stream
    BY <1>5 DEF PassStream
  <2>2. PICK named \in StreamNames : Passed(named)
    BY <1>5 DEF PassStream
  <2> QED
    BY <2>1, <2>2, PassedKept
<1> QED
  BY <1>1, <1>2, <1>3, <1>4, <1>5, NextRequestKept, ServeNativeKept, TransformKept,
     ChainContinuesKept, TakesOverKept, SendRequestKept, UpstreamAnswersKept, SplitPlainKept,
     GivesUpKept, SplitSearchesKept, SearchOneKept, SearchesDoneKept, FollowUpKept,
     StreamSearchingKept
  DEF Next

LEMMA PipelineUnchanged == ASSUME PipelineInv, UNCHANGED vars PROVE PipelineInv'
<1>1. Level(entry)' = Level(entry)
  BY DEF Level, PolicyOf, vars
<1>2. PipelineTyped' /\ PipelineRouted' /\ PipelineEffort' /\ PipelineChats' /\ PipelinePhase'
  BY <1>1
  DEF vars, PipelineInv, PipelineTyped, PipelineRouted, PipelineEffort, PipelineChats,
      ChatKept, PipelinePhase
<1>3. AnswerWhole' /\ EngineHonoursUser'
  BY DEF vars, PipelineInv, AnswerWhole, EngineHonoursUser
<1> QED
  BY <1>2, <1>3 DEF PipelineInv

(* What the invariant says of the requests that were sent.                 *)
LEMMA PipelineEffortHonoured == ASSUME PipelineInv PROVE EffortHonoured
<1> SUFFICES ASSUME NEW i \in 1 .. Len(sends)
             PROVE  RightEffort(client, PolicyOf(sends[i].entry), sends[i].effort)
  BY DEF EffortHonoured
<1>1. sends[i].entry = entry /\ sends[i].effort = Level(entry) /\ entry \in DOMAIN c.models
  BY DEF PipelineInv, PipelineEffort, PipelineTyped
<1> QED
  BY <1>1, LevelType

LEMMA PipelineDefaultsUsable == ASSUME PipelineInv PROVE DefaultsUsable
<1> SUFFICES ASSUME entry # 0, AuthFails(c, entry), c.models[entry].type # "klava",
                    Pool(c, client.requested) = {}
             PROVE  FALSE
  BY DEF DefaultsUsable
<1>1. EntryValid(c, entry)
  BY DEF PipelineInv, PipelineRouted
<1>2. c.models[entry].type = "openai"
  <2>1. c \in Configurations /\ entry \in DOMAIN c.models
    BY DEF PipelineInv, PipelineTyped
  <2>2. c.models[entry] \in ModelEntries
    BY <2>1 DEF Configurations
  <2> QED
    BY <2>2 DEF ModelEntries, EntryTypes
<1> QED
  BY <1>1, <1>2 DEF EntryValid, AuthFails

LEMMA PipelineChatsKept == ASSUME PipelineInv PROVE ChatProtocolKept
  BY DEF PipelineInv, PipelineChats, ChatKept, ChatProtocolKept
=============================================================================
