--------------------------- MODULE ProviderConfig ---------------------------
(***************************************************************************)
(* The config file as the commands edit it (src/providers/setup.rs, the    *)
(* `providers` and `login` handlers of src/main.rs, Config::load and       *)
(* Config::save of src/config.rs).  Every command loads the whole file,    *)
(* works on its copy while it talks to the user and the network, and       *)
(* stores the whole copy; nothing locks the file between the two.          *)
(*                                                                         *)
(* An entry is one [[models]] table: its name, provider kind, base URL and *)
(* where its key comes from.  A pool is the entries that share a name.     *)
(***************************************************************************)
EXTENDS Naturals, Sequences, SequencesExt, FiniteSetsExt

CONSTANTS
  Editors,      \* commands that may run side by side
  ModelNames,   \* model ids a catalog offers or the user types
  Backends,     \* [kind, base, key] of the connections the wizard can collect
  LoginBackend, \* the connection `klava login` writes
  LegacyTables, \* [[providers]] layouts an old config file may still hold
  MaxEntries,   \* bound: entries in the file
  MaxEdits,     \* bound: commands that load the file
  NoModel       \* an unset model pointer, not a member of ModelNames

VARIABLES
  saved,     \* the config file
  keyInEnv,  \* whether the environment variable an entry may name is set
  edits,     \* per command: "idle" or the copy it loaded and works on
  edited     \* commands started so far (bounded by MaxEdits)

configVars == <<saved, keyInEnv, edits, edited>>

(* The unset pointer is no name; catalogs are finite; an old layout is a   *)
(* list of tables.                                                         *)
ASSUME ConfigAssumption ==
  /\ NoModel \notin ModelNames
  /\ IsFiniteSet(ModelNames)
  /\ {MaxEntries, MaxEdits} \subseteq Nat
  /\ \A t \in LegacyTables : t \in Seq(Range(t))

Entry(n, b) == [name |-> n, kind |-> b.kind, base |-> b.base, key |-> b.key]
EntriesOf(c) == Range(c.models)
Named(c) == {e.name : e \in EntriesOf(c)}
PoolOf(c, n) == SelectSeq(c.models, LAMBDA e : e.name = n)
FirstName(c) == IF c.models = <<>> THEN NoModel ELSE c.models[1].name

\* The entries pushed one by one behind the others, unless an entry is there
\* already that agrees on the fields.
Pushed(models, es, fields) ==
  LET after[i \in 0 .. Len(es)] ==
        IF i = 0 THEN models
        ELSE IF \E m \in Range(after[i - 1]) : \A x \in fields : m[x] = es[i][x]
             THEN after[i - 1] ELSE Append(after[i - 1], es[i])
  IN  after[Len(es)]

\* The entries without those of a name.
Without(models, n) ==
  LET kept[i \in 0 .. Len(models)] ==
        IF i = 0 THEN <<>>
        ELSE IF models[i].name = n THEN kept[i - 1] ELSE Append(kept[i - 1], models[i])
  IN  kept[Len(models)]

-----------------------------------------------------------------------------
(* Loading: an old [[providers]] layout becomes [[models]] entries.        *)

\* The distinct model ids a legacy provider named; its own name if none.
LegacyIds(p) ==
  IF {p.completion, p.reasoning} = {NoModel} THEN <<p.name>>
  ELSE IF NoModel \notin {p.completion, p.reasoning} /\ p.completion # p.reasoning
  THEN <<p.completion, p.reasoning>>
  ELSE <<IF p.completion # NoModel THEN p.completion ELSE p.reasoning>>

EntriesFor(p) == [j \in 1 .. Len(LegacyIds(p)) |-> Entry(LegacyIds(p)[j], p)]

\* An entry is skipped when one with its name and base URL is there already.
Migrated(c) ==
  LET after[i \in 0 .. Len(c.providers)] ==
        IF i = 0 THEN c.models
        ELSE Pushed(after[i - 1], EntriesFor(c.providers[i]), {"name", "base"})
  IN  after[Len(c.providers)]

Else(a, b) == IF a = NoModel THEN b ELSE a

\* What the active provider says of a pointer.
OfActive(c, pointer) ==
  LET active == {i \in DOMAIN c.providers : c.providers[i].name = c.active}
  IN  IF active = {} THEN NoModel ELSE c.providers[Min(active)][pointer]

Migrate(c) ==
  LET compl == Else(c.completion, OfActive(c, "completion"))
      reas == Else(c.reasoning, OfActive(c, "reasoning"))
  IN  IF c.providers = <<>> THEN c
      ELSE [c EXCEPT !.models = Migrated(c), !.completion = compl,
                     !.reasoning = Else(reas, compl), !.providers = <<>>]

-----------------------------------------------------------------------------
(* What the commands do to their copy.                                     *)

\* A plausible slip: an entry of the same name is replaced.
MergeByName(c, es) ==
  [c EXCEPT !.models = FoldLeft(
      LAMBDA ms, e : Append(SelectSeq(ms, LAMBDA m : m.name # e.name), e), c.models, es)]

\* Only an entry that agrees on name, type, base URL and key is replaced.
Merge(c, es) ==
  [c EXCEPT !.models = Pushed(@, es, {"name", "kind", "base", "key"})]

\* Names that are not configured are ignored; reasoning follows the
\* completion model when its own pointer dangles.
SetDefaults(c, compl, reas) ==
  LET known == Named(c)
      c1 == IF compl \notin known THEN c
            ELSE [c EXCEPT !.completion = compl,
                           !.reasoning = IF c.reasoning \in known THEN @ ELSE compl]
  IN  IF reas \in known THEN [c1 EXCEPT !.reasoning = reas] ELSE c1

\* Entries whose backend answers a decide call: all but the qwen ones.
DecideCandidates(c) == {n \in Named(c) : \E e \in EntriesOf(c) : e.name = n /\ e.kind # "qwen"}

\* One of the wizard's entries answers its check unless it names an
\* environment variable that is not set; it may fail for other reasons.
MayAnswer(e) == ~(e.key = "env" /\ ~keyInEnv)

\* The login's entry: found again by type and name, with its base URL
\* rewritten, or pushed.
LoginEntry(c, n) ==
  LET e == Entry(n, LoginBackend)
      found == {i \in DOMAIN c.models : c.models[i].kind = e.kind /\ c.models[i].name = n}
      c1 == IF found = {} THEN [c EXCEPT !.models = Append(@, e)]
            ELSE [c EXCEPT !.models[Min(found)].base = e.base]
  IN  SetDefaults(c1, n, n)

\* A plausible slip: the search pointer is forgotten.
RemoveNameOnly(c, n) ==
  LET c1 == [c EXCEPT !.models = Without(@, n)]
      known == Named(c1)
      compl == IF c.completion \in known THEN c.completion ELSE FirstName(c1)
  IN  [c1 EXCEPT !.completion = compl, !.reasoning = IF @ \in known THEN @ ELSE compl]

\* Drop every entry of a name, and every default that names it.
RemoveName(c, n) ==
  LET c1 == [c EXCEPT !.models = Without(@, n)]
      known == Named(c1)
      compl == IF c.completion \in known THEN c.completion ELSE FirstName(c1)
  IN  [c1 EXCEPT !.completion = compl,
                 !.reasoning = IF @ \in known THEN @ ELSE compl,
                 !.search = IF @ \in known THEN @ ELSE NoModel]

-----------------------------------------------------------------------------
(* The commands.                                                           *)

NoEdit == [step |-> "idle"]

ConfigInit ==
  /\ saved \in [models : {<<>>}, providers : LegacyTables, active : {"legacy", "gone"},
                completion : {NoModel}, reasoning : {NoModel},
                search : {NoModel}, decide : {NoModel}]
  /\ keyInEnv \in BOOLEAN
  /\ edits = [p \in Editors |-> NoEdit]
  /\ edited = 0

\* Config::load; a migrated config is written back at once.
LoadConfig(p) ==
  /\ edits[p].step = "idle" /\ edited < MaxEdits
  /\ edits' = [edits EXCEPT ![p] = [step |-> "edit", copy |-> Migrate(saved)]]
  /\ saved' = IF saved.providers = <<>> THEN saved ELSE Migrate(saved)
  /\ edited' = edited + 1
  /\ UNCHANGED keyInEnv

Store(p, c) ==
  /\ edits[p].step = "edit"
  /\ Len(c.models) <= MaxEntries
  /\ saved' = c
  /\ edits' = [edits EXCEPT ![p] = NoEdit]
  /\ UNCHANGED <<keyInEnv, edited>>

\* `providers add`: collect a connection, pick models, check them, merge, and
\* offer the entries that answered (all of them when none did and the user
\* keeps them) as the defaults.  Without a completion model the choice is not
\* optional.  The decide model is chosen among the candidates, or kept.
AddProvider(p) ==
  \E b \in Backends, picked \in (SUBSET ModelNames) \ {{}} :
  \E answered \in SUBSET {n \in picked : MayAnswer(Entry(n, b))} :
    /\ edits[p].step = "edit"
    /\ LET offered == IF answered = {} THEN picked ELSE answered
           c == Merge(edits[p].copy, [i \in 1..Cardinality(picked) |->
                                        Entry(SetToSeq(picked)[i], b)])
       IN  \/ /\ c.completion # NoModel     \* "Use it as the default?" No.
              /\ Store(p, c)
           \/ \E compl, reas \in offered :
                LET d == SetDefaults(c, compl, reas)
                IN  \E decide \in DecideCandidates(d) \cup {d.decide} :
                      Store(p, [d EXCEPT !.decide = decide])

\* `klava login` after the device flow: with a model from the catalog, or
\* without one when the catalog could not be read.
LoginStores(p) ==
  /\ edits[p].step = "edit"
  /\ \/ Store(p, edits[p].copy)
     \/ \E n \in ModelNames : Store(p, LoginEntry(edits[p].copy, n))

\* `providers remove`.
RemoveProvider(p) ==
  /\ edits[p].step = "edit"
  /\ \E n \in Named(edits[p].copy) : Store(p, RemoveName(edits[p].copy, n))

\* `providers set`.
SetDefaultModel(p) ==
  /\ edits[p].step = "edit"
  /\ \E n \in Named(edits[p].copy) : Store(p, SetDefaults(edits[p].copy, n, n))

\* A prompt is declined, no model is picked, the name is unknown, or the login
\* fails: the command ends without a write.
GiveUp(p) ==
  /\ edits[p].step = "edit"
  /\ edits' = [edits EXCEPT ![p] = NoEdit]
  /\ UNCHANGED <<saved, keyInEnv, edited>>

\* The user sets the search model in the file, to a configured name.
SetSearchByHand ==
  /\ \A p \in Editors : edits[p].step = "idle"
  /\ saved.search = NoModel /\ saved.providers = <<>>
  /\ \E n \in Named(saved) : saved' = [saved EXCEPT !.search = n]
  /\ UNCHANGED <<keyInEnv, edits, edited>>

ConfigNext ==
  \/ \E p \in Editors :
       \/ LoadConfig(p) \/ AddProvider(p) \/ LoginStores(p)
       \/ RemoveProvider(p) \/ SetDefaultModel(p) \/ GiveUp(p)
  \/ SetSearchByHand

ConfigSpec == ConfigInit /\ [][ConfigNext]_configVars

-----------------------------------------------------------------------------
(* Properties.                                                             *)

\* As long as models are configured, the completion, reasoning and search
\* pointers of the file name one of them, whatever commands edited it and
\* however their loads and saves interleave: a dangling pointer makes the
\* next server start fail (remove_provider, set_defaults, handle_klava_login,
\* migrate_providers).
DefaultsConfigured ==
  saved.models # <<>> =>
    {saved.completion, saved.reasoning, saved.search} \subseteq Named(saved) \cup {NoModel}

\* A command that stores its copy keeps every connection it loaded: the only
\* entries missing afterwards are those of a name it removed altogether, or
\* a klava one whose base URL the login refreshed.
KeepsConnections ==
  \A p \in Editors :
    edits[p].step = "edit" /\ edits'[p].step = "idle" /\ saved' # saved =>
      \A e \in EntriesOf(edits[p].copy) :
        \/ e \in EntriesOf(saved')
        \/ e.name \notin Named(saved')
        \/ /\ e.kind = LoginBackend.kind
           /\ [e EXCEPT !.base = LoginBackend.base] \in EntriesOf(saved')

\* No command loses a connection it loaded (merge, handle_klava_login).
ConnectionsKept == [][KeepsConnections]_configVars
=============================================================================
