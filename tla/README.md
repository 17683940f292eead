# crated: verification project

TLA+ models of `crated`, the agent runtime daemon of this repository, with the
TLC runs that check them on small instances and proofs that hold for every
instance: of every invariant and action property the runs check, and of the
refinements; only liveness is left to TLC. Line numbers below are those of the repository;
`PROJECT.json` maps every definition to the lines it models.

    tlc -config MCLimiter.cfg MCLimiter.tla      # any run: NAME.cfg with its MC module
    tlapm LimiterProofs.tla                      # the proofs of a component: COMPONENTProofs.tla

## 1. The system

| Part | State it keeps | Operations | What is hard |
| --- | --- | --- | --- |
| `cmd/crated/main.go`, `run` | the context, two signal channels of size one, the deferred calls | startup in phases, SIGINT/SIGTERM, SIGHUP, return | four goroutines, order of deferred calls, signals at any moment |
| `internal/runtime/runtime.go` | Agentfile, agent, toolsets, closers | `Init`, `Reload`, `Close`, `connectSkill` | failure after some skills run, reload during use, subprocess cleanup |
| `internal/runtime/models.go` | models by name, the default's name | `NewModelRegistry`, `Default`, `createModel` | degradation when a model fails; which key and address each model gets |
| `internal/ratelimit`, `middleware.WithRateLimit` | a buffered channel, three atomics | `Acquire`, `Release`, `Stats` | interleaving, cancellation, early exit of iterators |
| `internal/httpclient` | client, lazily made stream client | `Do`, `DoStream`, `ReadBody` | retries, body replay, timeouts, closing bodies |
| `internal/sse` | the event being built | `Read` | what a blank line ends, read errors that tear a line |
| `providers/openai`, `providers/anthropic` | per stream: accumulators, usage, reason | `CreateModel`, `generateSync`, `generateStreaming`, conversions of requests and replies | interleaved fragments, cut streams, consumers that stop, pairing of calls and results over a whole history |
| `providers/gemini` | none | `CreateModel`, `configuredModel` around the SDK's model | which setting wins |
| `internal/frontend/frontend.go` | runner, sessions | `CreateSession`, `Chat`, registry | accumulation over a turn |
| `frontend/repl` | session, reader | `Run` | blocks in a read |
| `frontend/playground` and `static/app.js` | per connection a goroutine; in the tab: socket, `isStreaming`, current message | `handleWebSocket`, `streamChat`, `connect`, `handleEvent`, `sendMessage` | cuts, reconnects, two ends that disagree |
| `internal/health` | the ready flag, the listener | probes, `MarkReady`, `MarkNotReady` | readiness during start and stop |
| `internal/runtimecfg` | a file | `Load`, `Save`, `Lookup` | how a connection and the environment combine |

Calls go from a frontend through the bridge and the (external) ADK runner to a
model, which is a provider wrapped by the logging and the rate-limit
middleware; a provider uses the HTTP client and the SSE reader. Responses come
back through the same chain as nested Go iterators, so a consumer that stops
or blocks is felt in all of them. `run` owns the process's life: it starts the
health server, builds the runtime, starts the SIGHUP goroutine and blocks in
the frontend.

What makes each part correct, and where it can go wrong at a place a test would
hardly reach, is listed line by line under `hazards` in `PROJECT.json`.

## 2. Modules

| Module | Models | State and actions |
| --- | --- | --- |
| `Semaphore` | what a limiter promises | where each request stands; enter, leave, hand over, refuse |
| `Limiter` | `limiter.go`, `WithRateLimit` | `pc` per request, `sem` (channel buffer), `queue` (blocked senders), the atomics. `Acquire` is `Send`/`Block`/`GiveUp` and the `Count…` steps, `Release` is `Uncount` then `Receive`, the iterator is `Yield`, `Resume`, `Break`, `Finish` |
| `LimiterProofs`, `DaemonProofs`, `HTTPClientProofs`, `SSEProofs`, `OpenAIStreamProofs`, `AnthropicStreamProofs`, `PlaygroundProofs`, `ConversationProofs` | – | theorems about the module each is named after, and the inductive invariant they rest on (section 4) |
| `Lists` | – | `Lists(f, S)`: the sequence `f` has the numbers in `S`, each once, smallest first; what "once and in order" means in the properties |
| `Runtime` | `runtime.go` | `af`, `agent`, `registry`, `toolsets`, `closers`, `conn` (each skill's connection and subprocess); operations as actions without a caller |
| `Daemon` | `main.go`, `health.go`, and `Run` of the two frontends | extends `Runtime`; a program counter for each goroutine, signal channels, the Agentfile on disk |
| `HTTPClient` | `client.go` and its use by the providers | one request: attempt, body, response in hand, time |
| `SSE` | `reader.go` and the loop of either provider over its events | one stream: `lines` scanned, `event` being built, events yielded (`out`), the provider's `outcome`. A read error may leave part of a line (`ReadError`), which the provider sees as a torn event. What each provider's loop makes of an event is `ConsumeAnthropic` and `ConsumeOpenAI`: it may read on, yield its final response, fail, be left by its consumer, or, on `[DONE]`, end in silence |
| `ResponseStream` | what a streaming provider promises | kinds of responses given, whether it is over |
| `OpenAIStream` | `openai.go`, `generateStreaming` | one stream of chunks, each with text, any set of tool-call deltas and perhaps the finish reason |
| `AnthropicStream` | `anthropic.go`, `generateStreaming` | one stream of events, one operator per case of the switch |
| `Models` | `models.go`, `CreateModel` of the three providers, `Lookup` | `setup` (brain, `runtime.json`, environment), `registry`, `warned`, `stage`: the loop of `NewModelRegistry` entry by entry, the default looked up after the skills, `Reload` |
| `Conversation` | `buildRequest`, `convertContents`, `convertSyncResponse`, the contents of the streams, `configuredModel` | extends `Models`; the `history` of contents, who `said` what, the request `sent`, what the provider has `held` back of a reply, the calls whose results are `due`. The user says something (`UserSays`), the provider builds a request (`GenerateContent`), a reply arrives item by item (`Arrives`), each yielded at once or kept (`KeptBack`), and ends with a last content (`Finish`) or fails (`BreaksOff`); the runner answers the calls of a content before the next response is taken (`Answer`) |
| `Playground` | `playground.go`, `app.js`, `AgentBridge.Chat` | a tab, its connections one after the other, a goroutine for each |

`Daemon` composes with `Runtime`, and `Conversation` with `Models`, by extension
(one process, shared state); `SSE` composes the reader with its consumer.
`Limiter` implements `Semaphore`, and both stream modules implement
`ResponseStream`, each by an `INSTANCE … WITH` that is checked as a property.

The operators marked "Faulty" are variants of the action that follows them, with
an error one could make there. Putting one in the place of its action makes a
property fail; `mutants` in `PROJECT.json` says which.

### Abstractions

- An Agentfile is the number of the edit it comes from and whether it is valid;
  persona and brain both change with each edit.
- The runner of the ADK, MCP handshakes, model servers, the network, signals and
  the user are environment: they may do anything their interface allows.
- In `Playground` the runner gives any events, final or not, in any order, and
  may go on after a final one: `Chat` forwards them all and the providers never
  mark a chunk as partial. `overrun` remembers the turns in which it did go on.
- A chunk of OpenAI's has at most one delta for a call; two for the same call in
  one chunk would be appended like those of two chunks.
- Texts, names and JSON fragments are the number of the chunk, event or line
  that carries them, so "arrives once, in order, with its own call" can be said
  without strings.
- In `Models`, "" is a field that is not set and an environment variable that is
  set has its name for a value: enough to say whose value wins. `HostURL` is what
  becomes of a host variable's value (`openai.go:60-62`); trailing slashes, which
  the code trims, are not in the values. Whether the genai SDK can make a client
  is part of the setup (`sdk`).
- In `Conversation` a part of a content is the number of the thing said. The
  runner is external and what the code's outcome depends on in it is a record
  (`Runners`): whether it gives calls IDs, merges results into one content, which
  role results have, where the system prompt is, which parameters it sets. A reply
  is any sequence of texts and calls, but that OpenAI's API puts text before the
  calls (`Arrives`); without streaming it ends in one content, which may be empty
  (a reply of OpenAI without choices, `openai.go:501-506`, is taken for such a one).
- `SSE` knows a line by its kind and an event by the numbers of its lines, a
  negative number for a torn one; whether what is left of a torn line is still
  JSON is open.
- A select with several cases ready may take any; a signal channel holds one
  value and loses what does not fit; each atomic operation is a step.

## 3. Runs

Passing runs:

| Run | Shows | Bounds |
| --- | --- | --- |
| `MCLimiter` | slot bound, work conservation, counters, no leak, accounting, order, refinement of `Semaphore`; a cancelled request ends even if others never do; no request starves if inner models end and consumers come back | 3 requests, 1 slot (the default, `New(0)`): one holds, two queue, a cancel hits the front or the end of the queue |
| `MCDaemon` | readiness, valid configurations only, coalesced SIGHUPs, no orphans and a closer for each subprocess | a stdio and an http skill, all frontends, 2 shutdown signals, 2 hangups, 2 edits: one more of each than the channels hold or the handler has in hand |
| `MCDaemonLive` | the first signal ends the process with the playground and a turn of the REPL; the second always works; the SIGHUP goroutine survives invalid files | one skill, both frontends, no health port, 2 shutdowns, 2 hangups, 1 edit |
| `MCHTTPClient` | what is retried, how often and with which body, bodies closed, total time, calls return | `MaxRetries` -1, 0 (default 3), 2; delays that are capped from the third retry on, all of them within `MaxDuration`, as `DelaysFit` demands; body sizes around the limit |
| `MCOpenAIStream` | text and calls whole, one ending | 4 chunks, 2 calls: both interleave from chunk to chunk or share one, with text, and come with the finish reason or before it |
| `MCAnthropicStream` | text and calls whole, final response up to date, one ending | 7 events, 2 blocks |
| `MCSSE` | data intact, types in their own block, a stream that breaks off is reported unless the event left over ends the answer by itself, and no text is yielded of torn JSON | every stream of up to 5 lines, both providers, broken off after any line or inside it; any of its lines may be the one that announces the end |
| `MCConversation` | who is skipped at startup and who ends it; where requests go and with which key and parameters; when the API can relate results to calls; nothing said is lost or reordered | 72 setups (every rule of `createModel` and the three `CreateModel`, either default, a name that occurs twice), 6 runners, 2 tools, streaming or not, 2 requests, replies that end or break off anywhere and add nothing once 4 things were said: two calls at once, of one tool or two, a text before, between or after them, and a broken reply before the second request |
| `MCPlayground` | whatever the runner gives: answers in their own message and one turn at a time on a connection until a turn there goes on after a final event; honest button; a turn releases the tab, goroutines of lost connections end | 2 turns, 2 connections, 3 runner events in all: a turn that outlives its connection, a cut between any two writes, a turn that goes on after a final event and runs into the next |

The type invariants have no run of their own: each is a conjunct of one of the
invariants (`NoOrphans`, `BodiesClosed`, `NothingLost`, …).

`TextFaithful`, `ToolCallsComplete`, `CallsFaithful`, `DataIntact` and
`TypeOfItsBlock` relate the responses to the places of the stream their parts came
from (`Lists`, `Carry`) and do not compute the responses a second time: that
what arrived is what was sent, once, in order and under its own call or type.

`MCLimiter` checks safety and liveness in one run, on one slot; with four
requests and two slots the liveness check takes too long. That every safety
property holds for any number of requests and slots is proved (section 4).
`PairingExact` is an equivalence: it says for which runners the conversions of
OpenAI and Anthropic work, and that they fail for the others. The ADK's runner
is not part of this repository, so which of them it is remains open.

Deadlock checking is off in all of them since every one of these systems may
stop: requests and streams end, the process exits.

Runs that find a documented statement violated (`findings` in `PROJECT.json`
has the quotations):

| Run | What the code does |
| --- | --- |
| `MCDaemonServed` | a reload never reaches the frontends: the bridge keeps the first agent (`main.go:204`) |
| `MCDaemonTerm` | a shutdown signal SIGKILLs skills through `exec.CommandContext` before the closer's SIGTERM (`runtime.go:218`) |
| `MCOpenAIStreamUsage` | the requested usage chunk is never read (`openai.go:242-272`) |

More statements that the models contradict, without a run of their own; the
properties above are stated so as not to assume them:

- `frontend.go:124` "partial (streaming) events followed by a final event": `Chat`
  forwards every event with the runner's word for being final and goes on
  (`frontend.go:163`), and the providers never mark a chunk as partial. What comes
  after a final event is shown in a message of its own or in the next answer;
  `AnswerInOwnMessage` and `OneTurnAtATime` hold but for what `Overrun` names.
- `runtime.go:166` "If brain config changed, try the new default": `Reload` asks
  the registry that `Init` built from the old brain (`runtime.go:167`), so requests
  still go to the old default, even if the new one is in the registry.
  `RequestsAsConfigured` asks for the Agentfile's default only while a reload has
  not brought another one.
- `config.go:45-47`, `ARCHITECTURE.md:83-87` and `README.md:141`: `host_env_var`
  overrides `api_base`. Only OpenAI's `CreateModel` looks at it; with the Anthropic
  provider requests go to `api_base` though the variable is set (`anthropic.go:58`),
  and Gemini's looks at neither. `RequestsAsConfigured` asks for the documented
  order of OpenAI, for `api_base` of Anthropic where no host variable is set, and
  of all that the address is a configured one or the provider's own.
- `health.go:100` "no longer ready (e.g., during graceful shutdown)": deferred
  calls run last first, so skills are closed before `MarkNotReady`
  (`main.go:140`, `main.go:189`) and `/readyz` is 200 meanwhile.
- `ARCHITECTURE.md:109` "drain connections": `Shutdown` neither sees nor waits
  for hijacked WebSocket connections (`playground.go:111-116`).
- `main.go:123` "first Ctrl+C = graceful shutdown": with the REPL waiting for a
  line it only takes effect after the line (`repl.go:64`); `ShutdownEnds` is
  therefore about the playground.
- `client.go:50` "maximum duration for the entire request": the timeout is per
  attempt (`client.go:98`); `TimeBounded` is the bound that holds.
- `reader.go:28` "standard SSE line protocol": a blank line keeps the type of an
  event without data (`reader.go:49-56`); `TypeOfItsBlock` asks for streams in
  which every typed block has data, as those of both providers have.
- `config.go:41-42` "Empty means no authentication is required": the providers
  then read their default key variable and use its value for whatever
  endpoint is configured.
- `frontend.go:129` "Accumulate token usage across the response turn": usage on an
  event without content is skipped (`frontend.go:140`). No module follows the
  usage through `Chat`.

Three things the models make visible without a statement to hold against them: a
system prompt in `req.Config.SystemInstruction` is read by neither the OpenAI nor
the Anthropic provider (`Request`; `RequestsAsConfigured` only says when a prompt
does arrive); without streaming OpenAI's text beside tool calls is dropped
(`LeftOut` in `NothingLost`); and a stream that ends before its finish reason, or at
OpenAI's `[DONE]` without one, ends with neither a final response nor an error
(`openai.go:193-195`, the outcome "silent" in `SSE`), where `[DONE]` even leaves a
read error behind it unasked (`BreakReported`).

### Fairness

- `Limiter`: the steps of `Acquire` and `Release` are weakly fair (the Go
  scheduler). The inner model ends strongly fairly once its context is done,
  which every HTTP request carries (`CancelSpec`). That a request's consumer
  comes back from `yield` (`ConsumerFair`; a write to a WebSocket has no
  deadline) and that inner models always end (`InnerEnds`) is in the hypotheses
  of the properties: `CancelEnds` needs the consumer of the cancelled request
  only, `EveryCallEnds` those of all. Blocking as such needs no fairness: a
  request that finds no slot is queued by the channel.
- `Daemon`: main's own steps, the signal, SIGHUP and health goroutines are
  weakly fair. The launch and handshake of a skill, a REPL turn and the
  playground's `Serve` are fair only once the context is done. Typing, signals
  and edits are not fair.
- `HTTPClient`: an attempt of `Do` ends within its timeout; a stream ends only
  with its context.
- `Playground`: goroutines, delivery on a connection that is up, and the turn,
  which has a timeout of five minutes (`playground.go:250`). Sending, cutting
  and reconnecting are not fair.

## 4. Proofs

Every theorem is about the whole specification and every value of the
constants. What the argument needs of those is in a named assumption of the
module: `LimiterAssumption`, `RuntimeAssumption` and `DaemonAssumption`,
`ClientAssumption` and `DelaysFit`, `SSEAssumption`, `StreamAssumption`,
`AnthropicAssumption`, `PlaygroundAssumption`, `ModelsAssumption`, `ConversationAssumption`. All but two
give types only (numbers are natural, sets finite where the code has them finite;
results do not have the role of the system, nor tools an empty name).
`ModelsAssumption` also keeps apart the addresses that are configured, set in the
environment (as `HostURL` makes them) and built in, without which an address would not say where it is from;
`DelaysFit` says that the delays of the configured retries are within a
`time.Duration`, since Go does not define the conversion of one that is not
(`client.go:222`).

Hardly any of the properties is inductive: each follows from an invariant, called
`IInv` in its module, that also says what connects the variables the actions look at. Each
`IInv` was model-checked, on the states of the component's run, before it was
proved. A module has lemmas about its operators, then `Frames` (what stays as it
is if nothing changes), `Steps` (a case for each action, below it one for each
conjunct the action can disturb; in `ConversationProofs` a lemma `…Keeps` for each
action), `Initially`, `Invariance`, and the properties.

| Module | Proved | What `IInv` adds, and why it is needed |
| --- | --- | --- |
| `LimiterProofs` | all safety and action properties of `MCLimiter`; `RejectedNeverServed`; `Limiter` implements `Semaphore` | "at most Capacity requests hold a slot" says nothing about the channel, which is what `Send` looks at: `SlotsInUse` (`sem` is the number of requests between send and receive), `CountersExact` (each atomic is the number past its `Add`), `QueueExact`, `QueueOnlyWhenFull` |
| `DaemonProofs` | `ReadyAfterInit`, `OnlyValidConfigs`, `CoalescedReload`, `NoOrphans`, for any number of skills, signals, edits | `main` only goes forward, so it says for each phase of `run` what has happened by then: `Progress` (how far `Init` is with the toolsets), `ReadyLate`, `FilesValid` (also of the file the SIGHUP goroutine has in hand), `HangupKept` (a valid file present at the last SIGHUP runs, or a value in the channel or a goroutine will still take it), `Covered` (each running subprocess has a closer that `Close` has not passed) |
| `HTTPClientProofs` | `RetriesJustified`, `BodiesClosed`, `TimeBounded`, for every configuration | at each point of `Do` how many attempts were made and how they ended (`Attempts`), whether the next one has a fresh body (`Body`), which response is open (`Response`), and the time used (`Time`): the budget of k attempts and w waits, where after a wait one more is used than after an attempt |
| `SSEProofs` | `DataIntact`, `TypeOfItsBlock`, `BreakReported`, for streams of any length | the events yielded say nothing about the one in the reader's hands: it is of the block the last line is in (`OfCurrentBlock`), those before it are of blocks that have ended (`Closed`, `OneBlockEach`). `BreakReported` is about one step and follows from what a provider does with the event left over (`Exits`) |
| `OpenAIStreamProofs` | `TextFaithful`, `ToolCallsComplete`; `OpenAIStream` implements `ResponseStream`, for any number of chunks and calls | the accumulators, which only the final response shows, hold at any time every fragment so far under its own call (`Complete`) |
| `AnthropicStreamProofs` | `TextFaithful`, `CallsFaithful`, `FinalUpToDate`; `AnthropicStream` implements `ResponseStream` | `Accumulated` (the same of `activeBlocks`), which needs what the order of the server's events guarantees (`Ordered`: a block has one type and stops after its start), and `IsLast` of reason and usage |
| `PlaygroundProofs` | `AnswerInOwnMessage`, `OneTurnAtATime`, `ButtonHonest`, for any number of turns, connections, cuts | what the tab will show depends on what is on its way: `Pipe` follows the turn through the current connection, from the inbox (`Waiting`) through goroutine and outbox (`Serving`) to a tab that is free again (`Idle`) or still waits for an answer that was lost with an earlier connection (`Stale`). Once a turn of the connection has gone on after a final event, none of this holds there any more, and all that is said is that whatever is on its way is of that turn or a later one (`Aftermath`); `Link` says that a connection that was cut has nothing in flight, `Tab` which connection the last turn was sent on |
| `ConversationProofs` | `DegradesGracefully`, `RequestsAsConfigured`, `NothingLost`, `PairingExact`, for every Agentfile (names may repeat), `runtime.json`, environment and runner, replies and histories of any length | of the models: the property speaks of the end of `NewModelRegistry`'s loop, `ModelsInv` says the same of the entries passed so far (`RegistryExact`, `WarnedExact`) and what each stage knows of the default (`DefaultKnown`); `Provenance`: what is in the registry is what `CreateModel` makes of an entry of that name. Of the conversation, `TalkInv`: a request is a picture of the history at the moment it is made, so all that has to be known is about the history: what kinds of contents it has (`ShapedBy`), which IDs and names (`NumberedBy`), that the results directly behind a content with calls are just those of its calls but for the ones that are due (`Answered`, `Pending`), and that texts and calls in it are the things said, in order (`Heard`), up to those that the provider has kept back (`Kept`) |

Steps that carry an argument:

- `Limiter`: the counting is done once. `Move` says how the number of requests at
  some points changes when one moves, `GotoCounting` applies it to the sets the
  invariant counts, `CountsKept` draws the conclusion for a step. Only the
  hand-over in `Receive` moves two requests, in two moves.
- `Daemon`: an interrupted `Init` goes to `close` with the closers of the skills
  that were launched; that the one being launched is among them is why
  `connectSkill` registers it first (`Covered`, the part on `preload`). For
  `CoalescedReload` the case that matters is a SIGHUP during a reload: the handler
  has read an older file, but the value in the channel is still there.
- `HTTPClient`: `BudgetFacts`, `AttemptBudget` and `WaitBudget` have the arithmetic;
  `WaitBounded` bounds a jittered delay by a quarter more than `MaxDelay`.
- `SSE`: `CarryMore` (one more line for the event being built), `BlockEnds` (a
  blank line) and `RemainderKeeps` (what a read error leaves).
- `Playground`: `TakeFirst`, `PutLast` and `Join` say what sending and receiving
  makes of events that are all partial or end with the final one; `Enter` is the
  moment at which a turn goes on after its final event, from which on `TaintedQueue`
  and `TaintStays` carry `Aftermath`.
- The refinements of `ResponseStream`: `KindsGrow` says how the kinds of the responses
  grow with a response, `StepRefines` that each step yields what the contract
  allows there or stutters. That nothing follows a final response is
  `IInv`'s last conjunct.
- `Conversation`: one lemma for each way an iteration of the loop can end and one
  for the steps that leave the registry alone. That `Default` finds a model
  exactly if a usable entry has its name (`ElseKeepsInv`, case `UseDefault`) is what
  makes `Init` fail before any frontend starts.
- `Conversation`, the history: `SpeechAppended` and `ResultsAppended` say what
  `Answered` becomes with one more content, `MoreHeard` the same of `Heard`. The
  delicate steps are a call that is yielded in the middle of a reply, whose result
  the runner appends before the next item arrives (`YieldedItemKeeps`, `AnswerKeeps`),
  and OpenAI's last content, which is the calls if there are any and else the text
  (`LastPartsFacts`): what it leaves out is exactly `Skipped`.
- `Conversation`, the requests: `MessagesShow` relates each message to the content it
  renders, by places. `PairingExact` is an equivalence, so both ways are lemmas: if
  all contents are `Relatable`, each call has the only result with its key
  (`RelatablePairs`); if the calls of a content are paired, they have IDs or names of
  their own, and no result was left out by the conversion, so the content is
  `Relatable` (`PairsRelatable`).

The invariants need no fairness and no bound: the bounds on events, turns and
streams are constants of which the proofs only use that they are numbers.

Only model-checked are the liveness properties, under fairness beyond the prover:
`EveryCallEnds`, `CancelEnds`, `CallReturns` and those of `Daemon` (`ShutdownEnds`,
`SecondSignalForces`, `TurnInterrupted`, `HupHandled`) and `Playground`
(`TurnReleasesTab`, `HandlersEnd`).

## 5. Not modelled

- In the conversions: images and other parts than text, calls and results, JSON
  of arguments and schemas, finish reasons and token counts (the streams' counts
  are in the stream modules).
- `configuredModel` (`gemini.go:107-108`) shares one config between all requests
  that come without one, so what the SDK or a caller changes in it stays; whether
  anyone does is outside the repository.
- `Load` and `Save` of `runtimecfg`: reading and writing a file. The registries
  of providers and frontends: maps under a lock filled at `init`.
- `Stats`, `/metrics`, the logging middleware: they read and pass on.
- The ADK with its runner and sessions, MCP, the Gemini SDK, the Agentfile
  parser: external.
- In the playground: origin checks, static files, markdown, statistics.
- Whether the server has acted on a request that timed out: `client.go:158` sends
  it again (noted among the hazards).
- Memory-model effects: `runtime.go:162` reads `r.af` without the lock, but only
  the SIGHUP goroutine writes it.

## 6. Plan

Done, in this order: the limiter with its proofs; the process and its runtime;
the HTTP client; the SSE reader; the two streaming providers with their common
abstraction; the playground with the runner's events in any order; the model registry with the three `CreateModel`;
conversations (requests and replies of the providers); the SSE reader composed
with the providers' loop, with read errors that tear a line; consumers that stall
while they hold a slot; the proofs about process and runtime, HTTP client,
playground, both streams and SSE reader; replies that arrive item by item, and the
proofs about requests, replies and the history.

Next: an abstract specification of a conversation (what was said, and the requests
that show it) that `Conversation` implements for the runners `PairingExact` finds to
work; of the liveness properties, the safety halves that a proof can reach (each
step of a shutdown or of a turn lowers what is left to do).
