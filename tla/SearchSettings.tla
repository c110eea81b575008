--------------------------- MODULE SearchSettings ---------------------------
(***************************************************************************)
(* Which engine a web search runs on, how much it retrieves, and what      *)
(* becomes of it.  A text either names Yandex, declines it, or neither.    *)
(***************************************************************************)
EXTENDS Naturals, Sequences, SequencesExt

Engines == {"auto", "web_fast", "yandex"}
Texts == {"neutral", "names", "declines"}

(* The decision model's answers; "none" is a question left open, and       *)
(* NoAnswers a call that failed.                                           *)
DecideAnswers ==
  [family : Engines \cup {"none"}, russia : BOOLEAN,
   breadth : {"none", "focused", "broad"}, fresh : BOOLEAN]
NoAnswers == [family |-> "failed", russia |-> FALSE, breadth |-> "none", fresh |-> FALSE]

MAX_RESULTS_MIN == 1
MAX_RESULTS_MAX == 20

Clamped(n) ==
  IF n < MAX_RESULTS_MIN THEN MAX_RESULTS_MIN
  ELSE IF n > MAX_RESULTS_MAX THEN MAX_RESULTS_MAX ELSE n

Settings(engine, results) == [engine |-> engine, results |-> results]

SettingsFromConfig(c) == Settings(c.engine, Clamped(c.maxResults))

(* A veto anywhere beats a name anywhere.                                  *)
Vetoed(texts) == "declines" \in texts
ExplicitEngineIn(texts) == IF ~Vetoed(texts) /\ "names" \in texts THEN "yandex" ELSE "none"

(* decide::apply: the engine only while it is auto, where the region       *)
(* outranks a mere style; freshness only where the breadth was left open.  *)
Apply(base, d) ==
  LET family  == IF d.family = "none" THEN "auto" ELSE d.family
      engine  == CASE base.engine # "auto" -> base.engine
                   [] base.engine = "auto" /\ d.russia -> "yandex"
                   [] OTHER -> family
      results == CASE d.breadth = "focused" -> 3
                   [] d.breadth = "broad" -> 10
                   [] d.breadth = "none" /\ d.fresh -> 10
                   [] OTHER -> base.results
  IN Settings(engine, Clamped(results))

(* tune: a failed decision leaves everything as it is.                     *)
Tune(base, d) == IF d = NoAnswers THEN base ELSE Apply(base, d)

(* Mutant of ResolveSettings: a veto only stops what is named.             *)
ResolveSettingsUnvetoed(c, texts, d) ==
  LET named == ExplicitEngineIn(texts)
      base  == IF c.engine = "auto" /\ named # "none"
                 THEN [SettingsFromConfig(c) EXCEPT !.engine = named]
                 ELSE SettingsFromConfig(c)
  IN IF c.searchDecide THEN Tune(base, d) ELSE base

(* resolve_settings, for the query and the user's words.  Without the      *)
(* decision nothing is left to veto; with it the veto is the last word.    *)
ResolveSettings(c, texts, d) ==
  LET named == ExplicitEngineIn(texts)
      base  == IF c.engine = "auto" /\ named # "none"
                 THEN [SettingsFromConfig(c) EXCEPT !.engine = named]
                 ELSE SettingsFromConfig(c)
      tuned == Tune(base, d)
  IN IF ~c.searchDecide THEN base
     ELSE IF Vetoed(texts) /\ tuned.engine = "yandex"
       THEN [tuned EXCEPT !.engine = "auto"] ELSE tuned

(* execute_outcome: the engines that are asked, in order.  A client error  *)
(* on a chosen engine is tried once more with the backend's own choice.    *)
Backend == {"ok", "refused", "broken"}

Asked(settings, first) ==
  IF first = "refused" /\ settings.engine # "auto"
    THEN <<settings.engine, "auto">> ELSE <<settings.engine>>
=============================================================================
