# A verification project for klava

klava is a local proxy: coding agents speak the Anthropic Messages API, the OpenAI Chat
Completions API or the OpenAI Responses API to it, and it speaks chat completions to
whatever provider a `[[models]]` entry names.  On the way it runs extensions (foreign
processes) over the request, may run web searches on behalf of the model, and converts the
provider's event stream for the client.  Around the proxy stand commands that install,
update and provision extensions, sign in to providers, and control a background service.

This directory holds TLA+ models of the parts whose correctness depends on the order of
steps, TLC configurations that check them on small instances, and TLAPS proofs of their main
properties for every instance.  Paths below are relative to the repository; `PROJECT.json`
maps every definition to its lines.

## Inventory

| Component | State it keeps | Operations | Hard because | Correct when |
|---|---|---|---|---|
| Extension runtime, `src/extensions.rs`, `src/decision.rs` | per request: payload, decide answer and rounds of the current extension, number of nested calls | run an extension; apply its decision; ask the decide model; make a nested call | each extension may crash, hang or answer anything; it may be run again; calls cost money | money is spent only behind the gate and within bounds; fail-open and fail-closed both hold; requests settle |
| SSE framing, `src/stream_converter.rs` | byte buffer | network chunk, extract, partial buffer, finalize | chunks are cut anywhere; the stream may break | nothing complete is lost; the stream ends |
| Anthropic converter, `src/anthropic/stream.rs` | phase, block index, arguments so far, completed | one method per kind of delta | deltas come in any grouping, repeated, cut off | blocks nest and are numbered; the end is told truthfully; arguments arrive once |
| OpenAI passthrough, `src/openai_stream.rs` | completed | process | chunks behind the finish | nothing behind the finish |
| Responses converter, `src/responses/stream.rs` | as Anthropic, with several open calls | as Anthropic | item numbering, several calls | every item is added and closed under one number |
| Streaming search loop, `src/search/stream.rs` | round counter, calls put together, frames held | frame, end of round, search, flush | holding and forwarding interleave over several upstream streams | the client sees one answer and never the search tool |
| Non-streaming search loop, `src/proxy.rs`, `src/search/mod.rs` | request, round counter | round | mixes of own and client calls | as above |
| Setup hook, `src/ext_setup.rs`, `src/ext_setup_store.rs` | lock file, record, running hooks | run_with, acquire, execute, record | several processes, crashes, clocks, installs in between | hooks exclude each other; the record is true; setup ends |
| Install and update, `src/ext_install.rs`, `src/ext_update.rs` | artifact, manifest, provenance, staging directory | install, commit, update, remove | crashes between renames; shared staging | nothing half-written is ever run; an update settles |
| Sign-in, `src/qwen_auth.rs`, `src/klava_auth.rs` | credentials file, cached token, polling interval | device flow, refresh | rotating tokens, concurrent refresh, crash while saving | a session stays usable as long as no answer of the server is lost |
| Routing, `src/config.rs` | configuration file, one round-robin counter | pick, save | shared counter; unlocked read-modify-write | defaults and pointers name entries that exist; no command loses what it loaded |
| Service control, `src/service.rs`, `src/daemon.rs`, `src/server.rs` | unit or pid file, listening port | start, stop, restart, status | stale pid, port in use | what runs is what its file says |
| Proxy handlers and hooks, `src/proxy.rs`, `src/hooks/` | none of their own | one pipeline per client API | order of the pipeline | extensions run once and before every send |
| Transforms, effort, search settings, models | none | pure functions | none concurrent | example tests |
| CLI, agent integrations, diagnostics, self upgrade, telemetry | other programs' files | commands | little | one write each |
| Bundled extensions, `crates/klava-compress`, `klava-model-escalation`, `klava-pii-guardrail` | none between requests; a model on disk | compress, escalate, redact; fetch the model | deadlines of the host; each works on what the one before left; downloads are resumed | nothing detected is sent, images arrive unchanged, replies are in time, the model is whole |

How they interact.  A handler of `proxy.rs` transforms the request, picks a model, runs the
extension chain on the normalized payload, and sends.  With web search available the answer
goes through the search loop, whose output is again a chat-completions stream; that stream
goes through `UniversalConverter` with the converter of the client's API.  The chain's state
lives in one call frame and a stream's state in one generator, so concurrent client requests
share only the configuration, the HTTP client and the round-robin counter.  The commands of
the CLI are separate processes that meet only in files, on the proxy's port, and in what
systemd or launchd does for them.

Behaviours that are hard to test, each at its line, are listed under `hazards` in
`PROJECT.json` with the properties that would catch it or the reason why there is none.

## Modules

| Module | Models | Proofs |
|---|---|---|
| `ExtensionChain` | `Extensions::on_request` and what the handler does with its outcome | `ExtensionChainProofs` |
| `SseConverter` | `UniversalConverter::convert`, without the converter | with the next |
| `AnthropicStream` | `AnthropicStreamConverter` on top of `SseConverter`, and the client | `AnthropicStreamProofs` |
| `OneAnswer` | abstract: what a streaming client is promised | |
| `SearchStream` | `search::stream::drive`; implements `OneAnswer` | `SearchStreamProofs` |
| `SetupLock` | `ext_setup::run_with`, the lock and the record, for several processes | `SetupLockProofs` |
| `Runtime` | composes `ExtensionChain`, `SetupLock`, `SearchStream` and `AnthropicStream` | those of the parts |
| `Pipeline`, `MCPipeline` | the three handlers of `proxy.rs`, the plain search loop, the native search | `PipelineProofs` |
| `ModelRouting` | the lookups of `Config` and `ModelEntry` | `PipelineProofs` |
| `Effort` | `effort.rs` | `PipelineProofs` |
| `Transforms` | the translations of `anthropic/transform.rs`, `responses/transform.rs` | `PipelineProofs` |
| `SearchSettings` | `search/settings.rs`, `search/decide.rs` | `PipelineProofs` |
| `ResponsesConverter` | `ResponsesStreamConverter` and the client's list of items | `RequestsProofs` |
| `OpenaiPassthrough` | `OpenaiPassthrough` and a chat client | `RequestsProofs` |
| `ClientStream` | either of these two on top of `SseConverter` | `RequestsProofs` |
| `BundledExtensions`, `MCBundled` | one request through the three bundled extensions | `BundledProofs` |
| `Requests` | composes `Pipeline`, `ClientStream` and `BundledExtensions` | `RequestsProofs` |
| `ExtensionFiles`, `MCExtensionFiles` | install, update, remove, enable and disable, by several processes | `CommandsProofs` |
| `SignIn` | device flows, refresh, the session files, logout | `CommandsProofs` |
| `ProviderConfig`, `MCProviderConfig` | the config file as commands load, edit and store it | `CommandsProofs` |
| `Service` | the background proxy: systemd, launchd, daemon, child, foreground | `CommandsProofs` |
| `ModelFetch` | `klava-compress --fetch-model` | `CommandsProofs` |
| `Commands` | composes the five modules above it (files to downloads) | `CommandsProofs` |

**ExtensionChain.**  `cur` is the position in `for ext in &self.active`; `stage` says what
`on_request` awaits; `decideResult`, `decideRounds` and `nestedCallsUsed` are its locals.
Each arm of `match decision` is an action, and an arm with an await is split there
(`AskStarts`/`AskAnswered`/`AskFailed`,
`NestedSent`/`NestedAppended`/`NestedTakenOver`/`NestedFailed`).  A payload is the sequence
of the authors of its messages: that is all the chain's promises tell apart.  `replace` may
put anything there (`Rewritten`): messages of earlier extensions in any order, some or all
of them gone, its own in between; or something that is no request (`NotARequest`), which a
later nested call cannot index (`NestedPanics`) and the handler cannot read back
(`Deliver`).  `append` adds behind what is there.  History variables say what was asked,
spent and decided for each extension.

**SseConverter, AnthropicStream.**  The buffer is the sequence of complete events in it and
the rest behind the last blank line (`tail`), which may be cut inside its data line or lack
only its blank line.  What is in a chat chunk is chosen when it is processed, delta by
delta, so every grouping of deltas into chunks is covered.  The converter's fields and the
client that reads the events are one record `st`; every method is an operator on it and the
order of calls in `process` is the nesting of operators.  Arguments of a tool call are
counted in fragments, the last being the closing brace that some providers omit.  The
provider is external: it keeps the order reasoning, text, tools, finish, may make several
calls (`up.parallel`), may repeat a finish, may repeat the arguments whole or reformatted,
and may stop anywhere.  A fragment that is JSON by itself is switched on by `Quirks`.
`[DONE]` and error frames are handed on by the framing; they are no events of the Messages
API, whose clients pass over what they do not know, so the client's record is not touched by
them.

**OneAnswer, SearchStream.**  `drive` is a generator; its steps are reading a round,
classifying it, searching, and flushing.  A frame is its piece of text (numbered over the
whole answer), its pieces of calls by index, and whether it finishes or is `[DONE]`.  `acc`
is `tool_acc`; a query is known to be blank or not; a search that fails is a result like any
other.  `OneAnswer` has one variable, what the client has received, and says: text in order
and each piece once, then the client's own calls, then one finish, then `[DONE]`; it may
stop anywhere and may be cut off by a failure.  The refinement mapping is `answer <-
client`.  A frame may mix text, calls of several tools and a finish, and the bytes may end
in an event without its blank line, which is passed on unread; the history `odd` notes what
of this happened, and the properties say in which of these cases the code keeps less than it
promises.

**SetupLock.**  Each process is one klava command at a program counter of `run_with`.  The
lock file is the set of its creator, or empty; its age is what `metadata` would say, in
ticks, and saturates at the point where it is abandoned.  A hook is in `hook` while it runs,
which may be longer than its klava lives.  Time is a `Tick` that lock age and hook timeout
count alike; `ClockLeaps` moves the first without the second.  A process under the lock does
only local work between its waits, so no tick passes there (`Urgent`).  An install replaces
the artifact and, as a second step, its recorded hash.

**Pipeline** is one handler at a time: `pc` is its place, `entry` is `route.entry`, `chat`
is the translated request, `answer` what the model said last, `out` what the client gets.
Its actions are the awaits of the handler in their order: `TransformAndRoute`, then
`ChainContinues`, `ChainTakesOver` or `ChainFails` (all a handler sees of `ExtensionChain`),
`SendRequest`, then what becomes of the answer: `PassWhole`, `PassStream`, `StreamSearching`
(which says nothing of the text: `SearchStream` does), or the rounds of `proxy_with_search`
(`SplitPlain`, `SplitSearches`, `SearchOne`, `SearchesDone`, `FollowUp`, `SplitGivesUp`).
Every early return is one of `BodyUnreadable`, `ChainFails`, `UpstreamFails`.  The process's
round-robin cursor outlives the request, so a second request meets what the first left.  It
uses four modules of functions that keep no state: `ModelRouting` (a pool is the set of the
positions of its entries; each lookup gives the set of its possible results with the cursor
it leaves, because `shuffle` is random), `Effort` (levels are their ranks), `Transforms` (a
message is its role, the calls it makes or answers, and whether something is said; a
Responses client may make calls in parallel, each of which becomes a message of its own),
`SearchSettings` (a text names Yandex, declines it, or neither).

**ResponsesConverter, OpenaiPassthrough, ClientStream.**  As `AnthropicStream`: the
converter's fields and the client that reads the events are one record, a method is an
operator on it.  The Responses client adds, fills and closes numbered items and compares
them with the array of `response.completed`; it notes what was wrong instead of refusing it.

**BundledExtensions.**  A text is a sequence of words, of which the properties tell plain
words, numbers, email addresses, images and placeholders apart.  Compression copies the
payload, plans within memory and time and rewrites text by text (`CompressPass`).  The plan
is the set of texts that are cheap enough together with all cheaper ones (`UpTo`, `Fits`);
the sort order shows in which of them is next (`Cheapest`).  Escalation counts errors and
repetitions (`Stuck`), asks to decide and takes a second opinion; the guardrail masks
images, splices redactions and restores the images.  The models behind them may answer
anything; the analysis of a text may fail and a span be of no use, and then the guardrail
lets the words through (`missed`).

**ExtensionFiles.**  A process is a command at a step of `install`, `apply` or `remove`, and
each step is one file operation; `Crash` stops it there.  A build stands for the bytes of an
executable and their hash.  All commands share one `staging`, and nothing keeps two of them
from being about one extension (`contested`).  A source is a local file, a release of a
registry, a git repository or a crate in a directory; the last two are always built again.

**SignIn.**  `flow` is the login command with its code's age and polling interval; `calls`
are requests that refresh at the same time; `file` is the session file with the states a
truncating write goes through.  What the Qwen server does with refresh tokens (`policy`) is
external and one of three: it leaves them out, adds new ones, or rotates.  Its answer may be
lost on the way or be unreadable, a save may fail and a request may die before it: the token
that is retired then is in `lost`.

**ProviderConfig.**  Every command loads the file, edits its copy, and stores all of it;
`edits` holds the copies.  A hand edit of the search model may come in between.  Old layouts
are migrated on every load (`Migrated`).  The loops that push entries are recursive
functions over the entries still to come.

**Service.**  A proxy is what it runs with: its flags, the default model it read, its
binary.  One command at a time goes through `Converge`, `LegacyStopped`, `Look`, `WriteUnit`
and `ReloadUnit` or `WritePlist` and `UnloadAgent`, `StartUnit` or `LoadAgent`,
`WaitHealth`, and may die between any two (`CommandDies`), which may leave a torn file.  An
unload or a stop may fail, which the code passes over; `overwritten` notes a plist written
over an agent that nothing has unloaded since.  The manager's own steps (`ProxyCrashes`,
`Heal`) and other programs on the port (`ForeignMoves`) come in between.

**ModelFetch.**  A file is a sequence of blocks that know their version; `part` and `dest`
are the two names of each, `run` the downloads in progress, one for each runner; no lock
keeps two of them apart, and one that has a file open goes on writing to it when another
renames it.  The server may refuse, honour or ignore a range, end early, and publish another
version.

**Runtime, Requests, Commands.**  Each extends its parts, so that the constants, variables
and definitions of a part are those its theorems are about.  The parts of each share no
state with one another, so their product would check nothing their sum does not: a behaviour
follows one part, the `subject`, which it chooses at the start, and the others stay as they
began.  Parts that do share state are composed inside the modules: handlers with routing and
search, converters with the framing, the extensions with one payload, several commands with
one file.

## Runs

| Run | Instance | Shows |
|---|---|---|
| `runtime` | 2 extensions, 2 decide rounds, 2 messages; 2 processes, timeout 1, margin 1, 1 further build, deaths and leaps; 1 searched round, 2 call indices, 2 frames a round, 2 pieces of text; 3 events, 2 per network chunk, 3 fragments | all decisions of two extensions in all orders; takeover of an abandoned lock, a hanging hook, an install in between; rounds of mixed calls with text on both sides; a Messages stream cut between any two events |
| `requests` | 2 requests in a row; 3 events and 2 per network chunk, 2 calls of 2 fragments; 7 conversations through the bundled extensions | routing that moves its cursor, effort, translations, search rounds; the two other converters; compression, advice and redaction behind one another |
| `commands` | 2 commands at once about 2 extensions, 2 editors, 2 refreshes, 3 commands to the service, 3 runs of the download by 2 runners | every interleaving of two commands, with deaths in between; what a manager keeps; resumed and concurrent downloads |
| `nested_calls_counted` | 2 extensions | violated: a failed nested call is not counted |
| `literal_fragment` | quirk "literal" | violated: a fragment that is JSON by itself is dropped |
| `parallel_blocks` | 2 events | violated: the block of a second call is opened inside that of the first |
| `completed_is_last` | 2 events, 1 call | violated: calls are finished again behind `response.completed` |
| `search_content` | 1 call index | violated: text in a held frame is lost |
| `search_leaks` | 2 call indices | violated: a search call reaches the client |
| `setup_exclusive` | 3 processes, deaths | violated: two processes take the same abandoned lock over |
| `setup_record` | 1 process, 1 further build | violated: an overlapping install is recorded as provisioned |
| `artifact_missing` | 2 commands, a crate and a git repository | violated: an update that fails leaves no artifact |

What the passing runs establish:

* chain: `GateFailsClosed`, `SpendBounded`, `GatesHold`, `EditsInNameOrder`;
* Anthropic stream: `WellFormed`, `ClosedAtEnd`, `ToolArgsIntact`, `NothingLost`;
* search loop: `SearchHidden`, `TextForwarded`, `OwnCallsKept`, the refinement
  `ClientSeesOneAnswer` (of answers without oddities);
* setup: `ExclusiveUndisturbed`, `LockReleased`, `RecordIsEarned`;
* all four of these: `EverythingEnds`;
* handlers: `ChatProtocolKept` (every request sent has its tool results behind their calls),
  `AnswerWhole` (a client that does not stream gets the text and its own calls of the last
  answer and never the search tool), `EngineHonoursUser`, `EffortHonoured`,
  `DefaultsUsable`, `HandlerAnswers`;
* OpenAI streams: `ItemsWellFormed`, `ItemsClosedAtEnd`, `CallArgsIntact`,
  `ChatDeltasNamed`;
* bundled extensions: `SentRedacted`, `ImagesKept`, `ReplyInTime`;
* commands: `NothingHalfWritten`, `UpdateSettles`, `DefaultsConfigured`, `ConnectionsKept`,
  `PollsInTime`, `SessionKept`, `LaunchdCurrent`, `ModelWhole`.

For each there is a mutation of the modelled code, in the module beside what it mutates,
under which TLC finds the property violated.

Several of these properties name an exception, a case in which the code does not keep them:
calls in parallel, frames that mix, two commands about one extension, a lost answer.  None of
these cases is left out of the model; "Where code and comments disagree" says what happens
in them.

Deadlock checking is off in every configuration: a request, a stream and a setup come to
their end and stop, and so do commands.

**Bounds.**  `NumExt`, `MAX_DECIDE_ROUNDS`, `MaxRounds`, `Indices`, `Procs`, `TIMEOUT` and
`MARGIN` are parameters of the code; `MaxMessages`, `RoundFrames`, `MaxFrames`, `MaxBatch`,
`MaxText` and `MaxBuilds` bound only how long something is, how long upstream talks or how
often something is replaced.  The proofs are free of all of them.

In `runtime`: the two-round limit is the code's, and with two extensions one may spoil what
the other paid for or gates; one searched round has a round in front of the limit and one
behind it, and two call indices are what it takes to mix the search tool with another; a
lock is abandoned after two ticks, one of which a hook may use up; three fragments give one
before, one in and one at the closing brace.

In `requests`: two requests are what it takes for the cursor to matter; routing, effort,
conversations and searches do not depend on one another and have clients of their own
(`MCCases`).  Two calls of two fragments show a repetition, a reformatting and a call cut
off behind another.  The bundled extensions count time and memory in units that keep the
order of the code's constants (a budget of 20 below the host's 24; a pass may be later than
predicted by 10); a limit of three errors and two equal results is reached exactly, and one
short of it.

In `commands`: two commands, about one extension or about a local one and one of a registry,
which delete each other's staging; at first all extensions are installed or none
(`AllOrNone`), and once two commands were about one extension at once no source moves
(`SourcesStay`); a device code that is dead at once and one that is polled, with two polling
intervals, which `slow_down` stretches to the cap of 10 (klava) or halves to nothing (qwen);
two requests that refresh at the same time with two further tokens; two editors with three
entries, enough for a pool of two and a rest; three commands to the service, one
at a time, and a burst limit of two under systemd; two versions of a model of two blocks in three runs by two
runners, so that one can open a file, another finish it, and the first write on.  Processes
and requests are symmetric and TLC is told so; no property names one.

**Fairness.**  `runtime` has one condition, `Progress`, for the steps that are sure to come,
and one for each setup.  The chain: every await is bounded (an extension by its
`timeout_secs`, a decide call by `DECIDE_TIMEOUT_SECS`, a nested call by the client's
timeouts), so the chain never stops taking steps.  The streams: the client polls, a chat
chunk has finitely many deltas, and an upstream that falls silent is cut off by
`read_timeout` (`src/main.rs`, `build_http_client`), which ends the byte stream with an
error; upstream is not assumed to send anything, nor to finish.  Setup (`RunWith`): klava
waits for no user and no other process once it asks for the lock, and time goes on; the user
may never consent and the hook may run for ever.  Handlers (`PipelineStep`): every await ends
within the client's `read_timeout` or the extensions' timeouts, so a handler always takes
its next step.  Commands are checked for safety only: they wait for users, servers and
managers that promise nothing.

## Proofs

Every invariant, action property and refinement that a passing run checks is also a theorem:
TLC shows it on the instance above, TLAPS for every value of the constants.  All proofs are
checked without assumptions beyond those the modules name:

* counts, sizes and limits are naturals, some positive; names form finite sets
  (`ChainAssumption`, `ConverterAssumption`, `ConfigAssumption`, `FetchAssumption` and the
  like);
* `BundledAssumption`: a client's conversation is a sequence of messages whose images are
  encoded texts, and nothing else in a text is an image's bytes;
* `PipelineAssumption`: a configuration has the types `serde` gives it, a client's
  conversation keeps the protocol of its own API, and a model says that it ends in calls
  exactly when it makes some;
* the theorems about the structure of the converted streams say in their statement that
  `Quirks = {}`: no fragment of a call's arguments is JSON by itself (`literal_fragment`
  shows what happens then), and no text comes behind calls.

Type invariants are theorems only: `TypeCorrect` of the four parts of `runtime`; elsewhere
the types are conjuncts of the inductive invariants.

* **ExtensionChainProofs.**  `TypeCorrect`, then an invariant that relates the loop's locals
  to the histories: `decideRounds` is `asked[cur]`, `decideResult` is the last answer of
  `cur` or none, everything behind `cur` is untouched, everything before it has left the
  loop.  None of `GateIsClosed`, `CostIsBounded`, `GatesAreObeyed`, `ChainFailsOpen` is
  inductive without these.  `ChainFailsOpen`: a replacement may leave any order
  behind, so what is out of name order was there when some extension replaced the payload.
* **AnthropicStreamProofs.**  For `Quirks = {}`: the converter's state determines what block
  is open at the client, the client's count of closed blocks is the converter's index,
  `completed` is `message_stop` sent is upstream's rank 3, and the converter's arguments are
  upstream's up to the last brace.  For any `Quirks`, `TypeCorrect` and `NoEventIsLost`: the
  framing alone keeps the account of what is still buffered, so nothing complete is when the
  bytes end.  One lemma for each method, then one step for each action.
  `StreamIsWellFormed` (of messages with one call), `StreamIsClosed`, `ToolArgsArrive` (of
  any) follow.
* **SearchStreamProofs.**  For any upstream.  `CInv` (every held call is put together and
  named) gives `OwnCallsAreKept` whatever upstream mixes.  `SearchIsHidden`: a frame that is
  flushed in a round with a search call is dropped or has another tool's call in it.  `TInv`
  says that, as long as `odd` is empty, what is held is ordered calls, finish, `[DONE]`,
  that all the client has comes before it, and that the client lacks no text; every step
  then is a step of `OneAnswer` or none (`LoopIsOneAnswer`).  `CostIsBounded`: the searches
  so far are at most those of the rounds left behind, each of which had one call per index.
* **SetupLockProofs.**  While nobody has died and no clock has leapt: the lock is held by
  exactly the process that is between acquire and release, its age is at most the time its
  hook has run, and therefore below the margin: `HooksAreExclusive`, `LockIsReleased`.
  `RecordsAreEarned` follows what the hook that was started was.
* **RequestsProofs.**  All safety properties of `requests`, from `RequestsSpec`.  *Responses
  stream* (`AnswerInv`, for `Quirks = {}`): the items the client has read are reasoning,
  text and calls in this order, as many as the converter's flags and list of calls say;
  those in front of `outputIdx` are closed; which one is open follows from the state; the
  arguments are upstream's.  None of `ItemsAreWellFormed`, `ItemsAreClosed`,
  `CallArgsAreIntact` is inductive without the others.  *Chat stream* (`NamedInv`, for any
  `Quirks`): a call that the client has seen without an id is one upstream has not named.
  *Extensions and handlers*: the two modules below, carried over to the composition.
* **BundledProofs.**  `BundledInv`: compression and advice leave each encoded text where it
  was (`Alike`); a placeholder's number is the count of images in front of it, so two images
  have two numbers, and the words go through all replacements in order, each of which puts
  back the image of its own number (`RestoredPlace`) and nothing that would be detected
  (`RestoredClean`).  Hence `ImagesAreKept`, also where the client's text looks like a
  placeholder, and `SentIsRedacted`: what is detected and still sent is in `missed`.
  `RepliesAreInTime`: a pass starts only if its predicted end is in the budget.
* **PipelineProofs.**  `PipelineInv`.  `ChatProtocolIsKept`: the translations are loops,
  each turn of which adds a piece that is well formed by itself, and well formed pieces may
  be joined (`JoinedWell`); so is what a search round appends.  Parallel calls of a
  Responses client keep only the pairing of calls and answers, by the same argument.
  `DefaultsAreUsable`: whatever the cursor and the strategy, a pick is in its pool
  (`PickIsIn`), and startup has validated the pool.  `EffortIsHonoured` follows the level
  from the client's wish to every round's request, `AnswersAreWhole` what the last answer
  said to what the client gets, `EnginesHonourUsers` the words of the user through every
  branch of the settings.
* **CommandsProofs**, each part from its own specification.
  *Extensions*: as long as an extension is not `contested`, one command at most is about it
  (`Apart`), and what that command knows of its files is what they are (`Knows`), though any
  process may clear the shared staging: `InstalledIsWhole`, `UpdatesSettle`.
  *Sign-in*: only a request that still asks can retire a token; what a request has been
  given and has not written yet is accepted (`Good`) and, when tokens rotate, known to
  nobody else (`Own`); so a file whose token was retired has a writer that is still to come
  (`Coming`) or one that lost its answer: `SessionIsKept`.  A poll that sleeps went to sleep
  in time and sleeps no longer than the cap or the server's own interval: `PollsAreInTime`.
  *Config file*: every copy that a command works on has its pointers right by itself
  (`Settled`), so it does not matter which copy is stored last; an old layout is in the file
  only before the first load (`Unsettled`): `DefaultsAreConfigured`, `ConnectionsAreKept`.
  *Service*: an agent that launchd has loaded is the plist as it stands, unless the plist
  was `overwritten`, and a process runs only from a loaded agent (`Agent`):
  `AgentIsCurrent`.
  *Model*: a `.part` that no new version has overtaken and that one run at most works on is
  a beginning of the server's file, the body being read goes on exactly where it ends, and
  it is renamed at full length only: `ModelIsWhole`.

Recursive functions (the loops of the translations, of the migration, of the restoring) are
reasoned about turn by turn: a lemma says that the function exists, by the well-founded
order of the naturals, and another that what each turn keeps holds of the last.

Only model-checked are the liveness properties `EverythingEnds` and `HandlerAnswers`: what
must happen under fairness needs ENABLED, which is beyond the prover.  The violated
properties are counterexamples, which only TLC finds.

## Where code and comments disagree

Nine runs show it; `findings` in `PROJECT.json` quotes the lines.

* `nested_calls_counted`: a nested call that failed is not in `nested_calls_used`.
* `literal_fragment`: a fragment of arguments that is JSON by itself (`1`, `true`) is
  dropped.
* `parallel_blocks`: of two tool calls the second opens its block inside that of the first
  (`src/anthropic/stream.rs:254-284`).
* `completed_is_last`: a finish in an event without its blank line is followed by
  `finalize()`, which finishes the calls again.
* `search_content`: text in a frame that is held back is lost when the round is searched.
* `search_leaks`: a search call beside another tool's call in one frame, or in a last event
  without its blank line, reaches the client.
* `setup_exclusive`, `setup_record`: two processes take over one abandoned lock; the record
  takes the artifact's hash behind the hook, not in front of it.
* `artifact_missing`: `commit()` keeps the old artifact in the shared `.staging`, which any
  other command clears, so that there is nothing to put back.

Further ones were met while modelling.  They are in the models, and the property that would
contradict them names them as its exception:

* An explicit `search_engine` is "never overridden" (`src/search/mod.rs:243-244`); with
  `search_decide` on, a configured `yandex` gives way to the user's veto (lines 281-287).
  `EngineHonoursUser`.
* "A client that explicitly disabled reasoning wins over every default"
  (`src/effort.rs:14-15`, `README.md:246`); one that disables thinking and names an unknown
  level gets the default (`src/effort.rs:79-88`).  `EffortHonoured`.
* A Responses client may make parallel calls, by default
  (`src/responses/transform.rs:228-231`, `:378`); each becomes an assistant message of its
  own (lines 113-131), with the answers behind the last, which chat completions do not
  allow.  `ChatProtocolKept`.
* `synthetic_openai_sse` "carries a complete final answer" (`src/proxy.rs:929-930`); the
  calls of an answer that an extension gave are not in it.  `AnswerWhole`.
* The guardrail "rewrites the content of your requests before they leave the machine"
  (`crates/klava-pii-guardrail/src/main.rs:80`); what an extension in front of it asks other
  models left as it was, and so does a text whose analysis failed.  `SentRedacted`.
* "A failed or interrupted install cannot leave a half-written executable"
  (`src/ext_install.rs:14-16`); of two commands about one extension at once the second may
  move what the first is still writing.  `NothingHalfWritten`.
* "Nothing is built when the recorded version already is the latest" (`EXTENSIONS.md:62-66`,
  of a local crate); one is always built again (`src/ext_update.rs:234-235`, `:300-314`).
  `UpdateSettles`.
* A `.part` is never appended to with a body that starts afresh
  (`crates/klava-compress/src/main.rs:1560-1564`); two fetches at once do it, and so does a
  new version.  `ModelWhole`.
* Without a comment to contradict: an answer to a refresh that is lost or unreadable, or a
  save that fails, leaves a retired token (`src/qwen_auth.rs:463-465`, `:486`, `:509`;
  `SessionKept`), and an unload that fails is ignored while "already loaded" passes for
  success (`src/service.rs:729`, `:740-743`, `:801`; `LaunchdCurrent`).
* Seen and not stated by any property: chunks behind the finish are to be skipped
  (`src/stream_converter.rs:179-180`), while `is_completed()` is asked only behind the loop
  over the network chunks (line 49); the polling interval is to grow by 1.5 and is halved
  (`src/qwen_auth.rs:380-382`).

## Not modelled, and why

* What text, ids, models, usage and stop reasons say; only their presence, order and number.
* Discovery and the merge of configurations; the environment of an extension.
* In setup: a change of the hook's arguments, an artifact without provenance, a hook that
  leaves children behind when it is killed, an error of `try_wait`.
* In the search loop: what the request of the next round contains.
* In the Anthropic stream: an upstream that goes back from text to reasoning or from tools
  to text.
* In the handlers: token counting, the stream log (`hooks/`), headers, and sampling
  parameters, which no other part reads.
* In the search loops: what a search returns.
* In the Responses converter: deltas charged to another call than the last and deltas in
  front of any id (line 433 would underflow); text behind calls except under the quirk
  "backtrack".
* In install: archives, downloads, `cargo` and `npm` themselves, which are external; in
  sign-in: headers, the account display and the browser.
* In the bundled extensions: the neural model, the detectors' patterns, statistics and the
  warm-up; words stand for what they find.
* `agents/` (one write of another program's file each), `diagnostic.rs`, `telemetry.rs`
  (they read and report), `self_upgrade.rs` except that it replaces the binary, argument
  parsing and prompts.

## Plan

Done: the answer's and the request's way through the proxy for all three client APIs, the
bundled extensions, all commands that keep files or processes, and the proofs of all safety
properties.

Next, in this order:

1. `ExtensionFiles` composed with `SetupLock`: the artifact an install replaces is the one a
   hook provisions, whose hash `SetupLock` now takes as given.
2. An abstract specification of a request (received, answered once or refused) that
   `Pipeline` implements, as `SearchStream` implements `OneAnswer`.
3. Discovery and the merge of an extension's manifest with the user's settings, a
   fail-closed one that does not parse included.
