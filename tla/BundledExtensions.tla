------------------------- MODULE BundledExtensions -------------------------
(***************************************************************************)
(* The three extensions klava brings along, as the host runs them on one   *)
(* request, in the order of their names: klava-compress, which drops words *)
(* from long tool results, klava-model-escalation, which asks a stronger   *)
(* model when the agent is stuck, and klava-pii-guardrail, which redacts.  *)
(* Each run is a process of its own and knows nothing of earlier ones.     *)
(*                                                                         *)
(* What the host does with any decision is ExtensionChain; here it is what *)
(* these three can answer.  The models are external: the compressor's may  *)
(* drop any words, the decide model may say yes or no, the stronger model  *)
(* may write anything, personal data included.                             *)
(*                                                                         *)
(* A text is a sequence of words.  Time and memory are counted in units of *)
(* what one squared token costs.                                           *)
(***************************************************************************)
EXTENDS Naturals, Sequences, FiniteSets, SequencesExt, FiniteSetsExt

CONSTANTS
  Chats,        (* [settings, messages] that clients send                   *)
  BudgetTime,   (* budget_ms, clamped to MAX_BUDGET_MS                      *)
  MinReserve, MinBudget, MaxBudget,   (* MIN_RESERVE_MB and the like        *)
  GraphMemory,  (* MODEL_RESIDENT_MB                                        *)
  LoadTime,     (* MODEL_LOAD_SECS                                          *)
  PassTime,     (* PER_MESSAGE_SECS                                         *)
  MinTokens, MaxTokens,   (* min_tokens, and the backstop of max_tokens     *)
  HostTimeout,  (* timeout_secs of the host                                 *)
  Delays,       (* how much longer a pass may take than predicted           *)
  Limit,        (* repeat_tool_call_limit and error_streak_limit            *)
  ResultLimit,  (* repeat_result_limit                                      *)
  MaxWords      (* MAX_ANALYZE_BYTES                                        *)

VARIABLES
  settings,  (* the extensions' settings for this request                   *)
  asked,     (* history: the messages of the client                         *)
  messages,  (* the payload                                                 *)
  at,        (* whose turn it is                                            *)
  copy,      (* klava-compress: its copy of the payload                     *)
  todo,      (* the texts it has planned to rewrite and not reached yet     *)
  clock,     (* time since it began                                         *)
  late,      (* history: how much longer its last pass took than predicted  *)
  loaded,    (* whether its model's graph is mapped                         *)
  decided,   (* the host's answer to a decide                               *)
  spent,     (* nested calls                                                *)
  missed     (* history: what klava-pii-guardrail saw and could not replace *)

extVars == <<settings, asked, messages, at, copy, todo, clock, late, loaded, decided, spent, missed>>

(* Words: "word", which may go; "number", which must not; "email"; "bytes" *)
(* of image n; "place" holder n; "redacted".                               *)
Word(kind) == [kind |-> kind, n |-> 0]
Place(n) == [kind |-> "place", n |-> n]
KindsIn(text) == {w.kind : w \in ToSet(text.words)}

(* A text is plain, or begins with an image (a data "url"), or is "code";  *)
(* an image of its own is a "field".  The bytes of an image are nowhere    *)
(* else.                                                                   *)
Text(form, words) == [form |-> form, words |-> words]
Encoded(text) == text.form \in {"url", "field"}

ChatWords == [kind : {"word", "number", "email", "bytes", "place", "redacted"}, n : Nat]
ChatTexts == {t \in [form : {"plain", "url", "code", "field"}, words : Seq(ChatWords)] :
            /\ Encoded(t) => t.words # << >>
            /\ \A i \in DOMAIN t.words : t.words[i].kind = "bytes" <=> (Encoded(t) /\ i = 1)}
ChatMessages == [role : {"user", "assistant", "tool"}, calls : Seq(Nat), error : BOOLEAN,
                 texts : Seq(ChatTexts)]

ASSUME BundledAssumption ==
  /\ \A chat \in Chats : chat.messages \in Seq(ChatMessages)
  /\ {BudgetTime, PassTime, MinTokens, MaxTokens} \subseteq Nat
  /\ LoadTime \in Nat \ {0}
  /\ Delays \subseteq Nat

ExtInit ==
  /\ \E chat \in Chats : settings = chat.settings /\ asked = chat.messages
  /\ messages = asked
  /\ at = "compress"
  /\ copy = << >> /\ todo = {} /\ clock = 0 /\ late = 0 /\ loaded = FALSE
  /\ decided = "none" /\ spent = 0 /\ missed = {}

-----------------------------------------------------------------------------
(* klava-compress.                                                         *)

Tokens(text) == Len(text.words)
Square(n) == n * n

(* What the machine has to give: the tightest headroom of a cgroup on the  *)
(* path that has a limit, or else what the kernel says is available.       *)
Headroom(limits) ==
  Min({IF l.max > l.used THEN l.max - l.used ELSE 0 : l \in limits})

Available(memory) == IF memory.limits = {} THEN memory.free ELSE Headroom(memory.limits)

(* budget_from_available_mb: a quarter is held back; a machine that cannot *)
(* be measured has a modest budget.                                        *)
BudgetMemory ==
  LET available == Available(settings.memory)
      reserve == Max({available \div 4, MinReserve})
  IN IF ~settings.memory.measured THEN MinBudget
     ELSE Min({IF available > reserve THEN available - reserve ELSE 0, MaxBudget})

(* What the graph leaves of the budget.                                    *)
Varying == IF BudgetMemory > GraphMemory THEN BudgetMemory - GraphMemory ELSE 0

(* tokens_that_fit, Compressor::new: the largest text that fits alone.     *)
Ceiling == Max({0} \cup {n \in 1 .. MaxTokens : Square(n) <= Varying})

(* looks_structured: code, SQL, JSON and patches are left alone.           *)
Structured(text) == text.form = "code"

(* candidates, measure: texts of the compressed roles whose size is in the *)
(* window.  Texts are addressed by message and part.                       *)
Addresses(msgs) ==
  UNION {{[m |-> m, p |-> p] : p \in DOMAIN msgs[m].texts} : m \in DOMAIN msgs}

TextAt(msgs, a) == msgs[a.m].texts[a.p]

Candidates(msgs) ==
  {a \in Addresses(msgs) :
     /\ msgs[a.m].role = "tool"
     /\ TextAt(msgs, a).form # "field"
     /\ ~Structured(TextAt(msgs, a))
     /\ Tokens(TextAt(msgs, a)) \in MinTokens .. Ceiling}

(* by_cost: smallest first, then by message.                               *)
Cheaper(msgs, a, b) ==
  LET size(x) == Tokens(TextAt(msgs, x))
  IN \/ size(a) < size(b)
     \/ size(a) = size(b) /\ (a.m < b.m \/ (a.m = b.m /\ a.p < b.p))

(* A candidate and those in front of it.                                   *)
UpTo(msgs, a) == {b \in Candidates(msgs) : ~Cheaper(msgs, a, b)}

PassCost(n) == Square(n) + PassTime

(* The arena keeps its largest allocation: that one in full, a tenth of    *)
(* the others.  Time is a sum, with the load.                              *)
TimeOf(msgs, S) ==
  LoadTime + MapThenSumSet(LAMBDA a : PassCost(Tokens(TextAt(msgs, a))), S)
TenfoldMemoryOf(msgs, S) ==
  LET memory(a) == Square(Tokens(TextAt(msgs, a)))
      largest == Max({memory(a) : a \in S})
  IN 10 * largest + (MapThenSumSet(memory, S) - largest)

Fits(msgs, S) ==
  TimeOf(msgs, S) <= BudgetTime /\ TenfoldMemoryOf(msgs, S) <= 10 * Varying

(* plan: the candidates in order, up to the first that does not fit.       *)
Plan(msgs) ==
  {a \in Candidates(msgs) : \A b \in UpTo(msgs, a) : Fits(msgs, UpTo(msgs, b))}

Turn(next) ==
  /\ at' = next
  /\ copy' = << >> /\ todo' = {} /\ clock' = 0 /\ late' = 0 /\ loaded' = FALSE

(* Disabled, unreadable settings, no tokenizer: continue.                  *)
CompressPasses ==
  /\ at = "compress"
  /\ Turn("escalate")
  /\ UNCHANGED <<settings, asked, messages, decided, spent, missed>>

(* Measuring takes its time before the first pass.                         *)
CompressPlans ==
  /\ at = "compress"
  /\ Plan(messages) # {}
  /\ at' = "compressing"
  /\ copy' = messages /\ todo' = Plan(messages)
  /\ clock' \in {0, 1}
  /\ UNCHANGED <<settings, asked, messages, late, loaded, decided, spent, missed>>

(* Mutant of TimeFor: only an exhausted budget stops the work.             *)
TimeForAny(n) == clock < BudgetTime

(* A pass is started only if it can finish.                                *)
TimeFor(n) == clock < BudgetTime /\ clock + PassCost(n) <= BudgetTime

(* meaning_preserved: every number, identifier (an email has a dot, a      *)
(* placeholder an underscore) and protected word of the original is found  *)
(* somewhere in the rewrite.                                               *)
MeaningPreserved(words, kept) ==
  \A w \in ToSet(words) : w.kind # "word" => w \in ToSet(kept)

(* judge_rebuilt: not empty, and shorter.                                  *)
JudgeRebuilt(words, kept) == kept # << >> /\ Len(kept) < Len(words)

(* rebuild: words the model scores low go, the places of the others are    *)
(* kept.                                                                   *)
Keepings(n) ==
  UNION {{keep \in [1 .. k -> 1 .. n] : \A i, j \in 1 .. k : i < j => keep[i] < keep[j]} :
           k \in 0 .. n}

Rewrites(text) ==
  {[text EXCEPT !.words = kept] :
     kept \in {k \in {[i \in DOMAIN keep |-> text.words[keep[i]]] :
                        keep \in Keepings(Len(text.words))} :
                 JudgeRebuilt(text.words, k) /\ MeaningPreserved(text.words, k)}}

(* scorer: the graph is mapped by the first pass and stays.                *)
MapGraph == IF loaded THEN 0 ELSE LoadTime

(* The text that is next.                                                  *)
Cheapest(a) == a \in todo /\ \A b \in todo \ {a} : Cheaper(copy, a, b)

(* One pass.  The model may fail.                                          *)
CompressPass ==
  /\ at = "compressing"
  /\ \E a \in todo :
       LET text == TextAt(copy, a)
       IN /\ Cheapest(a)
          /\ TimeFor(Tokens(text))
          /\ late' \in Delays
          /\ clock' = clock + PassCost(Tokens(text)) + late' + MapGraph
          /\ \E new \in Rewrites(text) \cup {text} : copy' = [copy EXCEPT ![a.m].texts[a.p] = new]
          /\ todo' = todo \ {a}
  /\ loaded' = TRUE
  /\ UNCHANGED <<settings, asked, messages, at, decided, spent, missed>>

(* The reply, with what was done so far: too late for the host, it is as   *)
(* if the extension had failed.                                            *)
CompressReplies ==
  /\ at = "compressing"
  /\ \A a \in todo : Cheapest(a) => ~TimeFor(Tokens(TextAt(copy, a)))
  /\ messages' = IF clock <= HostTimeout THEN copy ELSE messages
  /\ Turn("escalate")
  /\ UNCHANGED <<settings, asked, decided, spent, missed>>

-----------------------------------------------------------------------------
(* klava-model-escalation.                                                 *)

CallsMade(msgs) == FlattenSeq([i \in DOMAIN msgs |-> msgs[i].calls])
ResultsIn(msgs) ==
  LET results == SelectSeq(msgs, LAMBDA m : m.role = "tool")
  IN [i \in DOMAIN results |-> results[i].texts]

Times(seq, x) == Len(SelectSeq(seq, LAMBDA y : y = x))

(* The longest run of failing results, over messages of other roles.       *)
ErrorStreak(msgs) ==
  LET results == SelectSeq(msgs, LAMBDA m : m.role = "tool")
  IN Max({0} \cup {n \in DOMAIN results :
                    \E k \in 0 .. Len(results) - n : \A i \in 1 .. n : results[k + i].error})

(* detect, is_stuck: no order of calls, no recovery after a streak, and    *)
(* nothing of what earlier requests led to.                                *)
Stuck(msgs) ==
  \/ \E x \in ToSet(CallsMade(msgs)) : Times(CallsMade(msgs), x) >= Max({2, Limit})
  \/ \E x \in ToSet(ResultsIn(msgs)) : Times(ResultsIn(msgs), x) >= ResultLimit
  \/ ErrorStreak(msgs) >= Limit

(* on_payload.                                                             *)
Escalation ==
  IF ~settings.model \/ spent >= settings.maxEscalations \/ ~Stuck(messages) THEN "continue"
  ELSE IF decided # "none" THEN (IF decided = "yes" THEN "nested_call" ELSE "continue")
  ELSE IF settings.hostRequires \/ settings.verify THEN "decide"
  ELSE "nested_call"

(* Mutant of AfterEscalation: nothing is run behind the advice.            *)
AfterEscalationEnds == "sent"

(* The next extension by name.                                             *)
AfterEscalation == "guard"

EscalateContinues ==
  /\ at = "escalate"
  /\ Escalation = "continue"
  /\ at' = AfterEscalation
  /\ UNCHANGED <<settings, asked, messages, copy, todo, clock, late, loaded, decided, spent, missed>>

(* The host answers and runs the extension again, or cannot answer and     *)
(* goes on.                                                                *)
EscalateDecides ==
  /\ at = "escalate"
  /\ Escalation = "decide"
  /\ \/ decided' \in {"yes", "no"} /\ UNCHANGED at
     \/ at' = AfterEscalation /\ UNCHANGED decided
  /\ UNCHANGED <<settings, asked, messages, copy, todo, clock, late, loaded, spent, missed>>

(* The nested call: it fails, its advice joins the conversation (append),  *)
(* or it is the answer (take_over).                                        *)
EscalateCalls ==
  /\ at = "escalate"
  /\ Escalation = "nested_call"
  /\ spent' = spent + 1
  /\ \/ /\ at' = AfterEscalation /\ UNCHANGED messages
     \/ /\ ~settings.takeOver
        /\ at' = AfterEscalation
        /\ \E words \in {<<Word("word")>>, <<Word("email")>>} :
             messages' = Append(messages, [role |-> "user", calls |-> << >>, error |-> FALSE,
                                           texts |-> <<Text("plain", words)>>])
     \/ settings.takeOver /\ at' = "answered" /\ UNCHANGED messages
  /\ UNCHANGED <<settings, asked, copy, todo, clock, late, loaded, decided, missed>>

-----------------------------------------------------------------------------
(* klava-pii-guardrail.                                                    *)

(* What the recognizers see: an email, and something that looks like a     *)
(* crypto address, as the bytes of an image may.                           *)
Detected(w) == w.kind = "email" \/ (w.kind = "bytes" /\ w.n = 1)

(* redact_string, splice_detections, apply_operator.  Where the analysis   *)
(* fails nothing of a text is replaced, and a span that is of no use is    *)
(* skipped: "left" are the places of those words.                          *)
RedactText(text, left) ==
  [text EXCEPT !.words =
     [i \in DOMAIN @ |-> IF Detected(@[i]) /\ i \notin left THEN Word("redacted") ELSE @[i]]]

(* The detected words of a payload.                                        *)
Hits(msgs) ==
  UNION {{[at |-> a, i |-> i] : i \in {i \in DOMAIN TextAt(msgs, a).words :
                                       Detected(TextAt(msgs, a).words[i])}} :
           a \in Addresses(msgs)}

(* The texts of a payload, one behind the other, as mask_value walks them. *)
Before(a, b) == a.m < b.m \/ (a.m = b.m /\ a.p < b.p)

EncodedAt(msgs) == {a \in Addresses(msgs) : Encoded(TextAt(msgs, a))}
EncodedBefore(msgs, b) == Cardinality({a \in EncodedAt(msgs) : Before(a, b)})

(* The payload with other texts at its addresses.                          *)
WithTexts(msgs, text) ==
  [m \in DOMAIN msgs |->
     [msgs[m] EXCEPT !.texts = [p \in DOMAIN @ |-> text[[m |-> m, p |-> p]]]]]

(* Mutant of Placeholder: the counter does not move.                       *)
PlaceholderAgain(k) == Place(0)

Placeholder(k) == Place(k)

(* mask_encoded_payloads: placeholders are numbered as they come.          *)
Masked(msgs) ==
  WithTexts(msgs, [a \in Addresses(msgs) |->
    IF Encoded(TextAt(msgs, a))
    THEN [TextAt(msgs, a) EXCEPT !.words[1] = Placeholder(EncodedBefore(msgs, a))]
    ELSE TextAt(msgs, a)])

Originals(msgs) ==
  {[place |-> Placeholder(EncodedBefore(msgs, a)), was |-> TextAt(msgs, a).words[1]] :
     a \in EncodedAt(msgs)}

(* restore_encoded_payloads: wherever a placeholder is found, one after    *)
(* the other, in the order of their numbers.                               *)
Replaced(w, k, originals) ==
  LET hits == {o \in originals : o.place = w /\ w.n = k}
  IN IF hits = {} THEN w ELSE (CHOOSE o \in hits : TRUE).was

RestoredWord(word, originals) ==
  LET upto[k \in 0 .. Cardinality(originals)] ==
        IF k = 0 THEN word ELSE Replaced(upto[k - 1], k - 1, originals)
  IN upto[Cardinality(originals)]

Restored(msgs, originals) ==
  WithTexts(msgs, [a \in Addresses(msgs) |->
    [TextAt(msgs, a) EXCEPT !.words = [i \in DOMAIN @ |-> RestoredWord(@[i], originals)]]])

(* string_bytes.                                                           *)
Sizes(msgs) == [a \in Addresses(msgs) |-> Len(TextAt(msgs, a).words)]
WordsOf(msgs) == SumFunction(Sizes(msgs))

(* redact_value.                                                           *)
Redacted(msgs, left) ==
  WithTexts(msgs, [a \in Addresses(msgs) |->
    RedactText(TextAt(msgs, a), {h.i : h \in {h \in left : h.at = a}})])

Rest == UNCHANGED <<settings, asked, copy, todo, clock, late, loaded, decided, spent>>

(* Settings that do not parse, or say disabled: continue, although the     *)
(* manifest fails closed.                                                  *)
GuardPasses ==
  /\ at = "guard" /\ ~settings.guarded
  /\ at' = "sent"
  /\ UNCHANGED <<messages, missed>> /\ Rest

(* on_payload: too much text is refused; a payload without a hit is left   *)
(* as it was.                                                              *)
GuardDenies ==
  /\ at = "guard" /\ settings.guarded
  /\ WordsOf(Masked(messages)) > MaxWords
  /\ at' = "denied"
  /\ UNCHANGED <<messages, missed>> /\ Rest

GuardRedacts ==
  /\ at = "guard" /\ settings.guarded
  /\ WordsOf(Masked(messages)) <= MaxWords
  /\ missed' \in SUBSET Hits(Masked(messages))
  /\ LET masked == Masked(messages)
         redacted == Redacted(masked, missed')
     IN messages' = IF redacted = masked THEN messages
                    ELSE Restored(redacted, Originals(messages))
  /\ at' = "sent"
  /\ Rest

ExtNext ==
  \/ CompressPasses \/ CompressPlans \/ CompressPass \/ CompressReplies
  \/ EscalateContinues \/ EscalateDecides \/ EscalateCalls
  \/ GuardPasses \/ GuardDenies \/ GuardRedacts

ExtSpec == ExtInit /\ [][ExtNext]_extVars

-----------------------------------------------------------------------------
(* Whatever compression made of the conversation and whoever gave advice   *)
(* on it, every detected word of what is sent is one whose text could not  *)
(* be analysed or whose span was of no use, and nothing is sent that was   *)
(* too long to be read.  (What the escalation asked other models before    *)
(* the guardrail's turn is not what is sent: it went out as it was.)       *)
SentRedacted ==
  at = "sent" /\ settings.guarded =>
    /\ WordsOf(messages) <= MaxWords
    /\ \A a \in Addresses(messages) : \A i \in DOMAIN TextAt(messages, a).words :
         TextAt(messages, a).words[i].kind = "email" => [at |-> a, i |-> i] \in missed

(* Every encoded image arrives as the client sent it, in its place, next   *)
(* to text that was compressed, redacted and added to: even when the       *)
(* client's own text has a word that looks like a placeholder.             *)
ImagesKept ==
  at = "sent" =>
    \A a \in Addresses(asked) :
      Encoded(TextAt(asked, a)) =>
        TextAt(messages, a).words[1] = TextAt(asked, a).words[1]

(* "Only start work this message can finish": the compressor's reply is    *)
(* late by no more than its last pass was slower than predicted, beyond    *)
(* its budget and the load that a check on the first pass does not count.  *)
ReplyInTime == clock <= BudgetTime + LoadTime + late
=============================================================================
