---------------------------- MODULE ModelRouting ----------------------------
(***************************************************************************)
(* The lookups of Config and of its [[models]] entries: which entry        *)
(* answers a request, with which credentials, and whether web search is on.*)
(*                                                                         *)
(* A configuration c is a record; an entry is named by its position in     *)
(* c.models.  The round-robin cursor is one number of the process: every   *)
(* lookup takes it and returns the set of its possible results, each with  *)
(* the cursor it leaves.  0 is "no entry".                                 *)
(***************************************************************************)
EXTENDS Naturals, Sequences, FiniteSets

None == "none"      \* an unset name

(* key: an API key, written down or in the variable that is named; "named" *)
(* when the variable that is named is not there.                           *)
EntryTypes == {"openai", "klava"}
EntryKeys == {"set", "named", None}

(* The entries that share a name: by their positions, which are the order  *)
(* of declaration.                                                         *)
Pool(c, name) == {i \in DOMAIN c.models : c.models[i].name = name}

(* The entry of a pool that k others were declared before.                 *)
Nth(pool, k) == CHOOSE i \in pool : Cardinality({j \in pool : j < i}) = k

Pick(c, name, cursor) ==
  LET pool == Pool(c, name)
      n    == Cardinality(pool)
  IN CASE n = 0 -> {[entry |-> 0, cursor |-> cursor]}
       [] n = 1 \/ (n > 1 /\ c.routing = "first") -> {[entry |-> Nth(pool, 0), cursor |-> cursor]}
       [] n > 1 /\ c.routing = "round_robin" ->
            {[entry |-> Nth(pool, cursor % n), cursor |-> cursor + 1]}
       [] n > 1 /\ c.routing = "shuffle" -> {[entry |-> i, cursor |-> cursor] : i \in pool}

FirstEntry(c) == IF c.models = << >> THEN 0 ELSE 1

DefaultCompletion(c, cursor) ==
  {IF p.entry = 0 THEN [p EXCEPT !.entry = FirstEntry(c)] ELSE p :
     p \in Pick(c, c.completion, cursor)}

DefaultReasoning(c, cursor) ==
  UNION {IF p.entry = 0 THEN DefaultCompletion(c, p.cursor) ELSE {p} :
           p \in Pick(c, c.reasoning, cursor)}

(* What the client asks for, if it is configured, or else a default.       *)
ResolveRequestModel(c, requested, isReasoning, cursor) ==
  UNION {CASE p.entry # 0 -> {p}
           [] p.entry = 0 /\ isReasoning -> DefaultReasoning(c, cursor)
           [] p.entry = 0 /\ ~isReasoning -> DefaultCompletion(c, cursor) :
           p \in Pick(c, requested, cursor)}

(* The first entry names the search model when nothing else does.          *)
ResolveSearchModel(c) ==
  CASE c.search # None -> c.search
    [] c.search = None /\ c.completion # None -> c.completion
    [] c.search = None /\ c.completion = None /\ c.models # << >> -> c.models[1].name
    [] OTHER -> None

-----------------------------------------------------------------------------
(* Credentials.                                                            *)

(* get_auth_headers_for: no header is an answer, a name without a variable *)
(* is an error, and a klava entry falls back to the saved login.           *)
AuthFails(c, i) ==
  CASE c.models[i].type = "openai" -> c.models[i].key = "named"
    [] c.models[i].type = "klava"  -> c.models[i].key # "set" /\ ~c.signedIn

HasKlavaAuth(c, i) == c.models[i].key = "set" \/ c.signedIn

(* validate_config: a klava entry is never refused.                        *)
EntryValid(c, i) == c.models[i].type = "openai" => c.models[i].key # "named"

(* The klava entry of the search model's pool that has credentials.        *)
SearchEntry(c) ==
  LET usable == {i \in Pool(c, ResolveSearchModel(c)) :
                   c.models[i].type = "klava" /\ HasKlavaAuth(c, i)}
  IN IF usable = {} THEN 0 ELSE Nth(usable, 0)

WebsearchAvailable(c) == c.websearch /\ SearchEntry(c) # 0

DecideAmbiguous(c) == Cardinality(Pool(c, c.decide)) > 1

(* Mutant of ValidateComplete: only the names are looked at.               *)
ValidateNames(c) ==
  /\ c.models # << >>
  /\ \A name \in {c.completion, c.reasoning} \ {None} : Pool(c, name) # {}

(* validate_complete, at startup: the names exist, and every entry of the  *)
(* pools the defaults and the search use is valid.                         *)
ValidateComplete(c) ==
  /\ c.models # << >>
  /\ \A name \in {c.completion, c.reasoning} \ {None} : Pool(c, name) # {}
  /\ \A name \in {c.models[p.entry].name :
                    p \in DefaultCompletion(c, 0) \cup DefaultReasoning(c, 0)}
                   \cup {ResolveSearchModel(c)} :
       /\ Pool(c, name) # {}
       /\ \A i \in Pool(c, name) : EntryValid(c, i)
  /\ ~DecideAmbiguous(c)
=============================================================================
