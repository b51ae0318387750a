# TLA+ models of the voice engine

This directory holds a formal model of the cloud voice application: TLA+
modules of its concurrent parts, TLC configurations that check them on small
instances, and proofs, checked by TLAPS, that hold for every value of the
constants. Files are named without their directory where the name is unique
under `go/`; the table of section 1 has the paths.

- [1. The system](#1-the-system): components, state, operations, hard behaviour
- [2. The modules](#2-the-modules): which definition stands for which code
- [3. The runs](#3-the-runs): what TLC checks, within which bounds
- [4. The proofs](#4-the-proofs)
- [5. Findings](#5-findings)
- [6. Not modelled, and plan](#6-not-modelled-and-plan)

## 1. The system

A caller's audio reaches the **media edge** (Go) over a WebSocket. It detects
speech, buffers and plays audio, and hands frames and interruptions to the
**orchestrator** (Go) over a bridge. The orchestrator runs one pipeline per
session: speech recognition, language model, speech synthesis, each a streaming
call to a provider behind a circuit breaker. The providers are reached through
the **provider gateway** (Python, gRPC).

```
 client <-> WebSocket handler <-> session handler (VAD, playout) <-> channel bridge
                                                                        |
   gateway <-- breaker <-- ASR / LLM / TTS stages <-- engine (FSM, turn manager, history)
```

| Component | State | Operations | What makes it hard, and what makes it correct |
|---|---|---|---|
| Circuit breaker (`circuit_breaker.go`) | state, two counters, time of the last failure | Execute = beforeCall, the call, afterCall; Reset | The mutex is released during the call, so results arrive in a later period than they belong to. It must open only after consecutive failures, close only through trials, and never refuse for ever. All three stages ask for the breaker named "default": they share one. |
| Session FSM (`fsm.go`, `pkg/session/state.go`) | current state | Transition, Reset | Two tables kept by hand; changes announced by two events each, of which only the second says the state, on a shared sink that drops when full. No event may be rejected; a client that reads what is sent ends up right. |
| Engine (`engine.go`) | registries of sessions, FSMs, turn managers; per session a context | ProcessSession, ProcessUserUtterance, HandleInterruption, StopSession | Five goroutines per utterance over three bounded channels; interruption and stop arrive between any two of their steps. No ring of waiting, no state, turn or cancel function left behind, a session that ends when told to. |
| LLM and TTS stages (`llm_stage.go`, `tts_stage.go`) | cancel functions by session and generation | Generate, Synthesize, SynthesizeIncremental, Cancel | Entries stored, overwritten and deleted by several goroutines under one key; streams that fail or end anywhere. |
| Turn manager (`turn_manager.go`, `pkg/session/turn.go`) | current turn: text, playout cursor | StartTurn, AppendGenerated, AdvancePlayout, MarkSpoken, HandleInterruption, CommitTurn | Three callers, one lock per call; bytes, durations, samples and characters converted into one another. Only what was spoken may be committed, and nothing that was spoken forgotten. |
| History and prompt assembly (`pkg/session/history.go`, `prompt.go`) | the list of messages | Append*, Clear, AssemblePromptWithHistory | Two limits applied one after the other: the newest messages and the system prompt must survive both. |
| ASR stage (`asr_stage.go`) | active streams | ProcessAudio, ProcessAudioStream | A sender and a receiver goroutine that end in either order; the result channel must be closed once and nobody left blocked. |
| Session handler (`media-edge/internal/handler/session_handler.go`) | state, active turn, output buffer | Start, Stop, ProcessAudioChunk, handleInterruption, orchestrator events, playout callbacks | VAD, playout, events and Stop run in different goroutines and read-then-use the same fields. |
| Channel bridge (`.../orchestrator_bridge.go`) | per session five channels, a map | StartSession, Send*, ReceiveEvents, Interrupt, StopSession, Close | The closed flag is checked, the lock released, and only then the channel used. |
| WebSocket handler and transport (`.../websocket.go`, `.../transport/transport.go`) | connections, write queue | handle messages, write pump, close | Start and stop of a session interleave with the connection's own close. |
| Voice activity detection (`.../vad/vad.go`, Python `energy_vad.py`) | frame counters | Process | Hysteresis: starts and ends of speech must pair up. |
| Audio buffers and playout (`pkg/audio/`) | ring, cursor, pending chunks | Write, Read, Advance, AddChunk | Condition variables, callbacks under a lock, chunks out of order. |
| Session stores (`pkg/session/*_store.go`) | serialized sessions | Save, UpdateTurn, ... | Read-modify-write without a transaction. |
| Provider registry (`pkg/providers/registry.go`) | providers, tenant overrides | Register, Resolve | Precedence of overrides; clients are stubs. |
| Provider gateway (`py/provider_gateway/app/`) | active streams by session, provider cache | Stream*, Cancel | A second stream of a session overwrites the first one's record. |

The session handler, the transport and the bridge interact in both directions:
audio frames, utterances and interruptions go to the orchestrator through
`ChannelBridge`, its events come back through ReceiveEvents; the connection
starts and stops both. Each is modelled in a module of its own, with its
neighbours free to do what their interface allows.

`PROJECT.json` lists every component with its status, and every hazard with its
line and the properties aimed at it.

Nothing in the repository calls the engine's ProcessSession, HandleInterruption
and StopSession except its tests: `cmd/main.go` builds the engine and serves
health checks. The models therefore take these three as called by a careful
caller: one run of a session at a time, one interruption handled at a time, at
any moment.

Other library code has no caller in the services' mains either: the circular
buffer, the reassembler, the playout controller, ResolveForSession and the hot
state of RedisPersistence are modelled as what they promise to a caller that
uses them as their comments and tests do.

## 2. The modules

| Module | Models | Built on |
|---|---|---|
| `CircuitBreaker` | one breaker and the goroutines inside Execute | |
| `SessionStates` | the two transition tables, AfterEvent (pure) | |
| `SessionFSM` | the FSM, its announcements, the client's view | `SessionStates` |
| `Engine` | one session: loop, LLM, token processor, TTS, audio processor, interruption, stop | `SessionStates` |
| `EngineLifecycle` | the registries over successive runs of one session ID | |
| `History` | what the two message limits do (pure), and a reference for it | |
| `Conversation` | turn, playout cursor, history and prompts of one session | `History`, refines `Transcript` |
| `Transcript` | abstract: utterances in order, replies remembered as far as they were heard | `History` |
| `DropOldestQueue` | abstract: a bounded queue that loses items only at its old end | |
| `ChannelBridge` | one session of the bridge, its callers and its reader | refines `DropOldestQueue` |
| `SessionHandler` | one session of the media edge, its three goroutines | `SessionStates` |
| `Connection` | one WebSocket connection from upgrade to clean-up, and shutdown | |
| `Transport` | senders, write queue, write pump and Close | |
| `VoiceActivity` | EnergyVAD and the VADProcessor around it | |
| `ASRStage` | ProcessAudio and ProcessAudioStream with the provider | |
| `JitterBuffer` | the jitter buffer and its reader | |
| `Playout` | playout tracker and controller | `JitterBuffer` |
| `CircularBuffer` | the circular sample buffer | refines `DropOldestQueue` |
| `Reassembler`, `Chunker` | numbered chunks put together, audio cut into frames | |
| `AudioFormat` | Normalize: decoding, mix to one channel, resampling | |
| `ProviderRegistry` | Register, SetConfig, ResolveForSession | |
| `SessionStore` | the Redis session record and the hot-state keys | |
| `ProviderGateway` | the gateway's streams and its cache of providers (Python) | |
| `CircuitBreakerProofs`, `SessionFSMProofs`, `EngineProofs`, `EngineLifecycleProofs`, `ConversationProofs` | the theorems of section 4 | the module they name |
| `ServicesProofs` | theorems about bridge, session handler, connection, transport, ASR stage, store, registry, gateway | those modules |
| `AudioProofs` | theorems about jitter buffer, playout, reassembler, detector, circular buffer, chunker, audio format | those modules, `Induction` |
| `Induction` | induction over numbers and sequences, stated with sets | |
| `MC*` | instances for TLC | the module they name |

Each module's header states its abstraction. The main ones:

- **CircuitBreaker.** `BeforeCall` and `AfterCall` are the two critical
  sections; a caller in `inCall` is between them. Time is one bit, whether the
  timeout has passed since the last failure. The counters saturate at
  `CountCap`, above both limits they are compared with. `streak` only observes.
- **SessionFSM.** `Transition` covers the lookup in both tables, the change and
  the handler's send, whose turn event carries the name of the event
  (`OnTransition`, `engine.go:487`); `AnnounceState` is the second send, the one
  that carries the state, and the release of the mutex, held as long as
  `announcing` is not empty. Between the two the client may read and the engine
  may send its transcripts, tokens and audio on the same sink (`OtherEvent`). A
  send into a full sink is dropped, as by the `select` with a `default`. `Reset`
  calls the handler only, so it sends "session_stop" and no state (nothing in
  the repository but tests calls it). `untold` only observes.
- **Engine.** One action per blocking point or lock. Each goroutine has a
  variable for where it is: `loop` (ProcessSession with ProcessUserUtterance),
  `llm[u]` and `hold[u]` (Generate's goroutine), `proc` (token processor),
  `tts` (incremental synthesis, with the segment it runs), `audio`. The
  channels are `tokenCh`, `ttsTokenCh` and `audioCh`, with their capacities as
  constants; closing one is the end of its only sender. `activeGens` and
  `activeSynth` are the stages' maps of cancel functions, with the keys the
  code uses: `StageGen(u)` and `TurnGen(u)` are the *two* generation IDs an
  utterance gets (`llm_stage.go:70`, `engine.go:259`). HandleInterruption is
  seven steps, one per lock it takes. Tokens are counted, a segment yields one
  chunk or none, where text is cut into segments is a choice, and sends to the
  event sink, which never block, are left out.
- **EngineLifecycle.** ProcessSession's lookups, its store and its deferred
  delete are separate steps per run, as are StopSession's cancel and three
  removals. The entry of a registry is the number of the run that made it.
- **Conversation.** Each locked call on the turn manager is a step. Audio is
  counted in bytes, positions in samples, text in characters. The conversions
  through floating-point seconds truncate: for example a cursor of 1001 samples
  at 16 kHz comes back as 1000, and 540800 samples, exactly 507 characters,
  give 506. So a position may be one sample short, and a character count that
  is an exact multiple may be one short; both are choices in the model. `log`,
  `generated` and `played` only observe.

- **ChannelBridge.** Four channels with four overflow policies. A caller's
  look-up, check and send are three steps, since it holds the bridge's lock for
  the first, the session's for the second and none for the third; `Panic` is the
  send on a channel that was closed in between. SendAudio into a full channel is
  three steps: it fails, drops a frame (or finds none left), and tries once more.
- **SessionHandler.** `conn`, `proc` and `out` are how far the connection's
  goroutine, the event loop and the output loop are; a handler is cut at every
  lock and at every call another goroutine can observe. `dead` is the use of an
  active turn that is nil. What the bridge and the client do is free.
- **Connection.** `loop` follows ServeHTTP's read loop through a start, a stop
  and the clean-up, step by step; `pump` is the write pump. `bridge` is the
  ChannelBridge, which refuses to subscribe to an unknown session, or a
  "lenient" one that does not.
- **Transport.** Senders check and send separately, Close is three steps;
  `crashed` is a send on the closed queue.
- **VoiceActivity.** The energy of a frame is one bit, above the threshold or
  not. `voiced` and `silent` count frames in a row as a listener would.
- **ASRStage.** `offer` and `provider` are the provider, which may answer, fail,
  close or hang as it likes.
- **JitterBuffer, Playout.** Frames are counted. A read that has found the
  buffer empty lets go of the lock before it sleeps; the controller's read and
  its Stop each take two locks one after the other.
- **CircularBuffer, Chunker, Reassembler.** Every operation is one step, under
  one lock; the chunks' delivery is any order, with repetition and loss.
  Loops are recursive functions (`PutBytes`, `CutLoop`), so that they can be
  proved about.
- **AudioFormat.** Samples are integers of 16 bits, with the wrap of the code's
  conversions. Exact fractions replace floating point. Rates are in units of
  50 Hz, so that 22.05 kHz is 441 and 16 kHz is 320.
- **ProviderRegistry.** ResolveForSession reads the configuration twice, each a
  step; `during` collects the configurations in force while it runs.
- **SessionStore.** A pipeline is one step. UpdateTurn is a read and a write; so
  is StoreGenerationID (HSet, then Expire). Expiry is a step at any time.
- **ProviderGateway.** One step per stretch of a coroutine between awaits. The
  three servicers have the same life cycle; the model's is the LLM's.
- **MCComponents** is the *sum* of these components, not their product: a
  behaviour picks one (`which`) and is a behaviour of that one. **MCControl** is
  the same for the breaker, the FSM and the registries of the engine.

The playout reports of `Conversation` come from a caller the repository does not
have yet; `Engine` models the code as it is, where the cursor stays at zero.

## 3. The runs

| Run | Config | Bounds | States | Question |
|---|---|---|---|---|
| `control` | `MCControl.cfg` | breaker: 3 callers, threshold 2, trials 2; FSM: sink of 3; registries: 3 runs, 2 stops | 141 k | Can late results open, close or starve the breaker, and does it recover? Do the FSM's tables agree; does the client catch up? Do the registries survive overlapping runs? |
| `engine` | `MCEngine.cfg` | 2 utterances of 2 tokens, 2 interruptions, capacities 1 | 1.6 M | Do FSM, turn and cancel functions stay consistent? |
| `engine_live` | `MCEngineLive.cfg` | 1 utterance, 1 interruption, 1 stop, fairness | 194 k | Can everybody wait for somebody else; does a stop end everything; does an utterance end? |
| `conversation` | `MCConversation.cfg` | 2 utterances of 2 characters, 2 chunks each, 1 interruption, limits 2 | 3.6 M | Is only, and all of, what was spoken remembered? |
| `components` | `MCComponents.cfg` | see below | 259 k | Does each component around the engine keep its promise? |
| `engine_cancel`, `engine_hang`, `engine_history`, `engine_synthesis` | `MCEngineCancel`, `MCEngineHang`, `MCEngineHistory`, `MCEngineSynthesis` | 1 utterance of 2 tokens, at most 1 interruption | | findings 1, 2, 3, 6 |
| `conversation_twice` | `MCConversationTwice.cfg` | as `conversation`, smaller | | finding 4 |
| `session_start` | `MCSessionStart.cfg` | channel bridge, no store faults | | finding 5 |
| `engine_active` | `MCEngineActive.cfg` | 2 runs, 1 stop | | finding 7 |

What the properties say:

- `CircuitBreaker`: `HalfOpenNeverStarves` (the quota of a trial period is never
  full without a decision), `ClosedCountsConsecutiveFailures`,
  `OpensOnlyAfterConsecutiveFailures`, `OpenClosesOnlyThroughTrials`, and under
  fairness `PeriodsEnd` (an open period is left, a trial period decided).
- `SessionFSM`: `NeverRejects` (the error return of Transition is unreachable)
  and `ClientCatchesUp` (once the mutex is free, and unless the state of the very
  last change was dropped or never sent, the last state queued or read is the
  session's, whoever made the transitions and whatever else is in the sink).
- `Engine`: `StateHasItsCause` (the session is speaking only during an utterance
  and interrupted only while an interruption is handled),
  `TurnIsOfCurrentUtterance`, `CancelFunctionsAreOfRunning`,
  `SynthesisEntryIsLive`, and under fairness `StopTerminates` and
  `UninterruptedUtteranceEnds`. `SomebodyGoesOn` is what these two rest on: while
  an utterance is in the works one of its goroutines can go on, unless the token
  processor sends to a synthesis that an interruption has ended (`SendsToNobody`,
  finding 2); once the session is cancelled something can go on until all has
  ended. It says of each goroutine when it can go on by the guards of its steps
  (`LoopReady`, `LLMReady`, ...) and without ENABLED, so that it can be proved.
- `EngineLifecycle`: `EntryIsOfLiveRun`, and under fairness `StoppedRunEnds`.
- `Conversation`: `SpokenOnly` (what is committed of a reply was generated and
  played in that turn), `CommitKeepsWhatWasPlayed` (and at most one character
  less), `HistoryIsTrimmedLog` (trimming after every append equals trimming the
  whole conversation once), `PromptShowsNewest` (the history's limit and the
  assembler's together act as the assembler's alone) and `ImplementsTranscript`,
  the refinement of `Transcript` (a reply is recorded under its own utterance,
  and for no more than was heard of it at that moment).
- `ChannelBridge`: `InterruptNotLost` (a coalesced interrupt is still there until
  it has been taken), `SendAudioReturns` (without a reader, it returns) and
  `AudioDropsOldest`, the refinement of `DropOldestQueue` (only the oldest frame
  is lost, only by a sender that found the channel full).
- `SessionHandler`: `StateIsExplained` (whatever three goroutines assign, the
  state names what is going on) and, under fairness, `StopEndsGoroutines`.
- `Connection`: `CleanupLeavesNothing` (however a connection ends, a start that
  failed half-way included, it leaves no registration, bridge session, running
  handler or, unless the store failed, record).
- `Transport`: `SentAsAccepted` (no gap, no change of order, nothing accepted
  lost while the pump lives, the close message last).
- `VoiceActivity`: `SpeechIsBoundedBySilence` (starts and ends are justified by
  the frames in a row, and none that is due is missed).
- `ASRStage`, under fairness: `CancelEndsStage` (both goroutines end and both
  channels are closed, with a provider and a caller that no longer read).
- `JitterBuffer`: `NoLostWakeup`. `Playout`: `PositionWithinOneFrame`, on which
  the position an interruption reports rests.
- `CircularBuffer`: `KeepsNewestBytes`, again the refinement of `DropOldestQueue`.
- `Reassembler`: `ReassembledInOrder` (order without repetition, no gap before
  the buffer has overflowed). `Chunker`: `FramesAreTheStream` (frames and rest as
  if all that was written had been cut at once).
- `AudioFormat`: `NormalizedKeepsSound` (duration to within a sample, no
  overflow or overshoot, each sample from its own instant, codes in order).
- `ProviderRegistry`: `ResolutionIsOfItsTime` (precedence of the four levels,
  each as configured at some time of the call).
- `SessionStore`: `NoResurrection` (only a Save, or an update under way when it
  went, brings a session back).
- `ProviderGateway`: `CancelFindsStream` (a cancel is put to a provider that is
  generating for that session; a name's streams share one instance).

`TypesOK` has the type invariants of all components of the run `components`;
section 4 proves each. Those of the breaker, the FSM, the engine, the lifecycle
and the conversation are proved for every constant and not run.

Every property has a mutation of the model, a plausible slip in the mapped code,
under which TLC finds it violated (`PROJECT.json`, "mutants"; the mutated forms
stand before the originals and are marked `Mutation:`).

**Why the bounds are enough to meet the cases.** With capacities of 1 the second
token or chunk already finds its channel full, so every way the goroutines can
block each other is reached with two tokens. The FSM leaves "idle" through the
first interruption (see section 5), so two interruptions are needed for one to
arrive while the session is speaking. Two utterances let an interruption, or a
turn left over, of the first meet the second. Three runs and two stops let a
run be stopped, replaced and replaced again before it returns. Three callers
let a straggler of the closed period return while a second half-opens the
breaker and a third is a trial. Two samples to a character make a lost sample
cost a character only at its edge, as the code's 1066.7 do. With both message limits at 2,
every conversation of more than one exchange is trimmed. The counters
`interrupts`, `stops`, `utt`, `systems` and `clears` are bounds of the model
and guard only the environment's actions.

The bounds of `components`, by component:

- *Bridge:* 2 frames of audio and 1 of everything else fit, 3 frames and 2
  interrupts are sent: a full channel, a drop, a coalesced interrupt, and a stop
  or close between any two steps of a sender.
- *Handler:* room for 1 frame of output, so that it is full as soon as one is
  waiting. Nothing else is bounded.
- *Connection:* 1 message waiting, 1 fault of the store: every step of a start
  and of the clean-up can be the one that fails. Both bridges.
- *Transport:* 2 senders, a queue of 2, 3 messages: full, and a message in the
  pump's hands while another is queued and a third is checked.
- *VAD:* minima and hangover of 1 frame, and of 3 or 4, so that each can be the
  longer; counts are cut at 5, above all of them.
- *ASR:* channels of 1, 2 pieces of audio, 2 results: either side can be full.
- *Jitter buffer and playout:* 2 frames fit, 3 are read between resets.
- *Circular buffer:* 3 bytes of two values, with writes of up to 4.
- *Reassembler, Chunker:* 6 chunks with a buffer of 2, 7 bytes in frames of 3.
- *Audio format:* up to 4 samples of the extremes, 0 and -3, or 4 codes; rates of
  8, 16, 22.05 and 48 kHz: slower, equal, not a multiple, faster.
- *Registry:* 2 kinds (one whose name is never checked), 2 names, 1 change of the
  configuration. *Store:* 2 clients. *Gateway:* 3 streams of 2 sessions under 2
  names, 2 registrations of a name: a stream can lose its record to another one.

**Deadlock** as TLC sees it is not checked, since the system rightly stops (a
session that has ended, bounds that are used up). For the breaker, `PeriodsEnd`
takes its place, for the registries `StoppedRunEnds`; for the engine,
`SomebodyGoesOn`, `StopTerminates` and `UninterruptedUtteranceEnds` say what must
not get stuck. The components stop when their bounds are used up or they are
closed; `SendAudioReturns`, `CancelEndsStage` and `StopEndsGoroutines` take that
place.

**Fairness.** Weak fairness of a goroutine's steps: the Go scheduler runs what
can run. For `LLMStep` and the segment's steps it includes that a provider's
stream goes on or ends: a provider that hangs silently is outside what the code
can recover from, since it sets no deadline of its own. It is not assumed that
anyone speaks, interrupts, stops a session or resets a breaker, nor that a
particular branch of a `select` is ever taken. For the breaker: time passes,
calls return, and sessions keep calling, which is why an open breaker is tried.
For the components: weak fairness of the component's own goroutines only (the
stage's sender and receiver, the handler's two loops, the caller inside
SendAudio); the orchestrator, the provider, the client and the caller owe
nothing. Where a loop waits in a `select` between its context and a channel
that never runs dry, leaving it is strongly fair, since Go picks at random among
the ready cases (`EventsEnd`, `OutputEnds`). `CancelEndsStage` needs no such
assumption because the provider's results are bounded by `MaxResults`.

**Only model-checked:**

- the liveness properties `PeriodsEnd`, `StopTerminates`,
  `UninterruptedUtteranceEnds`, `StoppedRunEnds`, `SendAudioReturns`,
  `CancelEndsStage` and `StopEndsGoroutines`: they need ENABLED and fairness,
  which the prover does not reason about (of the engine's two, the part that is
  safety, `SomebodyGoesOn`, is proved);
- `TypesOK` as a whole, whose conjuncts are each proved of their component;
- the seven properties that the code does not have (section 5).

## 4. The proofs

All theorems hold for every value of the constants that satisfies the ASSUME of
the module: thresholds and capacities at least 1, bounds natural numbers, any
set of callers, sessions or chunk sizes. Each proof has the same three steps: the
initial states satisfy an inductive invariant, every action keeps it (one lemma
or step per action), and it implies the property. `PROJECT.json`, "theorems",
lists the results.

### Breaker, FSM, engine

- **`CircuitBreakerProofs`**: types, then `StepByEffect`, which says what a step
  does to state and counters whoever takes it: nothing, half-open, record a
  failure or a success, or Reset. The invariant `CountersFitState` goes by these
  five cases: a half-open breaker has counted no failure and less than its quota
  of successes, because half-opening resets both counters and each result either
  decides or stays below the limit; a closed one has counted fewer failures than
  the threshold and none outside the streak. `HalfOpenAlwaysAdmits` and
  `ClosedCounts` are its two halves; `OpensAfterRun` and
  `OpenClosesThroughTrials` take from `StepByEffect` which step it can be.
- **`SessionFSMProofs`**: `FSMNeverRejects` is the agreement of the two tables,
  by cases over states and events. `FSMClientCatchesUp` needs `HeldByItsState`:
  while the mutex is held for a state still to be sent, that state is the
  session's, so that it is the last one when it gets through. Two lemmas say
  what a send and a read do to the last state of a sink (`LastAfterAppend`,
  `LastAfterRead`).
- **`EngineProofs`**: types go together with `Phases`: an utterance's goroutines
  run only while the loop waits for them, without which a step of `proc` could
  index no utterance. `EngineStateHasItsCause` and the two theorems about cancel
  functions and the synthesis entry are inductive on top of that.
  `EngineTurnIsOfCurrentUtterance` needs `Accounted`: the text in the turn, the
  token being appended and those in the channel and in hand are at most what the
  generation has produced.
- `EngineSomebodyGoesOn`: a ring of waiting needs each goroutine to wait for the
  next, so the invariant, `Waiting`, says what a goroutine that waits knows of
  the one it waits for: an utterance in progress has a generation; audio that has
  ended means a synthesis that has; a synthesis that has ended means its whole
  text was read, or it was cancelled, and only an interruption cancels it alone.
  With the types (an empty channel is not full) the proof follows the chain from
  the token processor to whoever can go on (`UtteranceGoesOn`); for a cancelled
  session outside an utterance it needs the theorems about cancel functions and
  the synthesis entry too (`CancelledGoesOn`). So the findings aside, no choice of
  capacities, tokens and interruptions deadlocks an utterance.
- `EngineNeverCancelsGenerations` and `EngineRemembersOnlyUsers` are the
  findings 1 and 3 as theorems: no interruption ever cancels a generation, and
  the history is the users' messages and nothing else, whatever the bounds.
- **`EngineLifecycleProofs`**: the registry's entry is a run past `StoreContext`
  and before its return; inductive because only those three steps set it.

### Conversation

- `ConversationSpokenOnly` is strengthened by bounds on the current turn (text
  at most what was generated, cursor at most what was played), the same for the
  text HandleInterruption holds between its two appends, and by the fact that
  the turn being streamed to is the utterance's own. It rests on
  `CharsMonotone`: more bytes never stand for fewer characters, for any rate.
- `CommitForgetsNothingPlayed` (an action property) needs `KeptInv`: a turn not
  interrupted has its cursor where its playout is (`CursorInv`), the cursor of an
  interrupted one is not behind the position read of it, and a turn starts with
  nothing played of it (`FreshInv`), or what an earlier turn played would count.
- `TrimsLikeOnce` is inductive as it stands (`TrimmedInv`): the history is what
  one trim makes of the log. Its step is the lemma `LimitTwice`, that trimming a
  trimmed list with one more message is trimming the whole. The lemma reasons
  about what SelectSeq keeps, by induction over sequences: `OnlyAppend`,
  `OnlyConcat`, `LastOfLast`.
- `PromptsShowNewest` adds `LimitIsNewest`: the two limits select the system
  messages and the newest others, in their order. The messages kept are counted
  by bijections between positions and ranks (`PickIsRanked`, `CountBetween`).
- `ConversationTyped` needs `BoundsInv`, the bounds of every counter, and that
  trimming keeps a list of messages one (`LimitTyped`).
- `ConversationImplementsTranscript` joins these invariants: what is heard of a
  reply is the lesser of what was generated and what was played (`Heard`), which
  only grows (`HeardGrows`); a commit appends no more than that, of a turn that
  was said (`RememberStep`, from `FreshInv`: nothing is played of a turn before
  it starts); and what trimming leaves is the newest of the log (`RecordStep`).
  Reading the position, marking, assembling prompts and resetting the turn are
  stutters of the transcript.

### Components around the engine (`ServicesProofs`)

- *Bridge.* `InterruptsKept`: `CallsCounted` says that an interrupt being sent is
  within the bound, without which the count of accepted ones could leave its
  type. `BridgeImplementsDropOldest` maps each step of SendAudio, the reader's
  and the closing ones to a step or a stutter of `DropOldestQueue`.
- *Session handler.* `HandlerStateExplained`: no goroutine owns the state, so
  `StateExplained` says which place of the connection's goroutine or of the event
  loop explains each value, and `PositionFollows` that only the frame between
  SendFrame and AdvancePosition separates position and output.
- *Connection.* `NothingLeftBehind`: `HeldByLoop` has what each place of the read
  loop implies of what is held; above all, a session in the bridge is that of a
  running handler, so that stopping the handler removes it.
- *Transport.* `WireIsWhatWasAccepted`: wire, pump and queue together are the
  numbers of the accepted messages (`NothingLost`), and the wire starts with
  them in order (`WireInOrder`), until the pump ends.
- *ASR stage.* `ChannelsClosedOnce`: each channel is closed exactly when its one
  sender has ended (`ClosedBySender`), so that none is closed twice or sent on
  afterwards. The steps close a channel without looking, so this is what keeps
  the process alive.
- *Store.* `RecordStaysGone`: only an update that was under way when the record
  went can find none as it writes back (`NoUpdateUnseen`).
- *Registry.* `ResolvedFromItsTime`: what is resolved after each step is the
  result of configurations in force during the call (`FromSettingsInForce`),
  two of them, since the code reads twice.
- *Gateway.* `CancelReachesItsStream`: a record is that of a live stream of its
  session, and only streams whose record another one took have none
  (`RecordIsOfLiveStream`); a name's streams share the cached instance.

### Audio (`AudioProofs`)

- `ReaderIsWoken` is inductive with the types. `PositionFollowsPlayout` needs
  `TrackerFollows`, which counts the frame whose read is under way, on the
  tracker's side and on the reader's.
- `ChunksLeaveInOrder`: what has been emitted lies below the expected number
  (`EmittedBelowExpected`), and the run taken from the buffer continues it.
- `SpeechFollowsFrames`: each counter is the run of frames it stands for, in the
  states that use it and in no other (`CountersAreRuns`).
- `BufferImplementsDropOldest`: the write position follows from the read position
  and the count, modulo the size. A write is a loop over its bytes and the
  abstract queue's step is one, so the loop is described by induction over the
  bytes written: after each, the contents are the newest of all so far.
- `ChunkerCutsTheStream`: the frames and the rest are those of the stream cut at
  once. The loop of Write is described by induction over the frames it cuts.
- `NormalizingKeepsSound` follows Normalize step by step, with the types. A code
  of a larger segment is further out (`UlawFar`, `AlawFar`). The mean of a left
  and a right sample lies between them (`MonoBetween`), which needs the sum over
  the channels, a recursive function, only for two (`SumOfTwo`). A resampled
  value lies on the line between its neighbours (`OnTheLine`), which exist
  (`BeforeIsThere`), and the duration follows from division with its rest.

**Induction.** The library's induction theorems take a predicate, which the
provers cannot instantiate. `Induction` states induction with a *set* of numbers,
or of sequences, instead, and proves it from the existence of a least element
(`WFMin` for < over the naturals). A proof cites it with the set of numbers its
claim holds of; this is how the facts about loops and lists above are proved.

## 5. Findings

Shown by runs whose property TLC finds violated:

1. **An interruption does not cancel the generation** (`engine_cancel`).
   `engine.go:259` gives the turn a new generation ID, while Generate registered
   its cancel function under another (`llm_stage.go:70`): the lookup of
   `LLMStage.Cancel` finds nothing.
2. **An interruption can leave the session deaf** (`engine_hang`). Cancelled, the
   incremental synthesis returns without draining its input; the token processor
   blocks on `ttsTokenCh` in a `select` that watches only the session's context,
   and ProcessUserUtterance never returns. `SomebodyGoesOn` says that this is the
   only way an utterance can get stuck.
3. **Nothing the assistant says enters the history** (`engine_history`). Nobody
   advances the turn manager's playout cursor, and only text behind the cursor
   is committed.
4. **Once playout is reported, an interrupted reply enters the history twice**
   (`conversation_twice`): CommitTurn appends it, and HandleInterruption appends
   what CommitTurn returned (`engine.go:421`).
5. **A session.start over the channel bridge never succeeds** (`session_start`).
   The session handler subscribes to the bridge's events (`websocket.go:348`,
   `session_handler.go:129`) before the session is started there
   (`websocket.go:363`), and ReceiveEvents refuses an unknown session
   (`orchestrator_bridge.go:208`).
6. **An interruption need not cancel the synthesis** (`engine_synthesis`). The
   incremental synthesis and each of its segments register their cancel functions
   under the same key: a segment's replaces that of the whole (`tts_stage.go:61`)
   and its end or its refusal deletes the entry (`:94`, `:83`). The interruption
   then cuts one segment, or finds nothing, and the rest of the reply is spoken.
7. **A run that ends late unregisters its successor** (`engine_active`). The
   deferred delete of `engine.go:151` goes by session ID: the next run of the
   session goes on, and can be neither interrupted nor stopped. The run that the
   trace starts with was missed by a StopSession that came before it had
   registered; a run that was stopped in time does the same.

Seen while modelling, in the model as the code has it, without a run of their own:

- `HalfOpenMaxCalls` limits calls that have finished in half-open, not calls
  admitted (`circuit_breaker.go:113`): any number may be in flight at once.
- The session FSM stays "idle" while an utterance is processed, since the table
  has no transition from idle for `asr_final`; it first leaves idle through an
  interruption's `speech_start`.
- The engine's turn events carry the names of FSM events (`engine.go:487`) and of
  states (`fsm.go:152`), never the "started", "completed" and "cancelled" of
  `docs/websocket-api.md:371`; the media edge stops showing the bot as speaking
  on "completed" only (`session_handler.go:384`).
- A StopSession that looks for the session's entry before a starting run has
  stored it (`engine.go:444`, `:150`) deletes it afterwards without having
  cancelled the run.
- A session restarted without its turn manager having been removed commits to
  the history of the earlier run (`turn_manager.go:241`).
- The user's utterance is in the prompt twice (`engine.go:236` and `:242`).
- With as many system messages as `maxContextMessages` the prompt loses the
  utterance itself (`prompt.go`, applyContextLimit).

*Media edge*

- handleInterruption uses the active turn without a check
  (`session_handler.go:299`), and nothing in the media edge ever gives the
  session one: without it the process dies.
- An event handled after Stop can set the state to something other than idle.
- Speech recognised as an interruption does not silence what follows: chunks of
  the interrupted turn that arrive late are played.
- The handler's chunker has no frame callback (`session_handler.go:77`), so the
  frames it cuts are lost (`:215`).
- UpdateConfig passes the model's name as the system prompt (`:499`).
- A send after the check of the closed flag panics if the channel was closed in
  between, in `ChannelBridge` (`orchestrator_bridge.go:158`) and in the
  transport (`transport.go:104`).
- StartSession holds the bridge's lock while it announces the session on a
  channel that nothing in the repository drains; an announcement that fails
  leaves the session registered.
- The connection's WebSocketTransport never has its write pump started
  (`websocket.go:335`): what the session handler sends stays in the queue.
- The connection's context comes from the request, which net/http cancels when
  ServeHTTP returns.
- `session.ended` is queued just before the context is cancelled, and the pump
  may see the cancellation first. Shutdown waits for no connection.

*Audio*

- Two readers blocked in one jitter buffer can lose a wake-up, since it has one
  token; the model has one reader, as the code does.
- PlayoutTracker.Stats takes its read lock twice, which a waiting writer blocks.
  Its completion callback runs on every Advance past the total. A pause does not
  stop the controller's reads.
- After the reassembler has overflowed over a lost chunk, chunks in order may
  remain buffered, and its buffer can hold more than `maxBufferSize`.
- NewChunker accepts a frame size of 0, with which Write does not end.
- A burst shorter than the minimum gives a speech_start without a speech_end.
- An odd number of bytes of PCM16 is an error of Normalize only when it has to be
  resampled, and the handler then goes on with the original bytes.

*Providers and stores*

- ProcessAudioStream leaves its results open while the input is, if the provider
  closes its own first.
- ResolveForSession reads the configuration without the lock (`registry.go:180`)
  and never checks the VAD's name.
- UpdateTurn of the Redis store writes back the whole record: it loses a
  concurrent update, and restores a session deleted while it ran.
- StoreGenerationID may leave a key that never expires, if Expire fails.
- A gateway stream refused because its provider does not exist runs into the
  same clean-up, and deletes the record of another stream of its session.
- The gateway cancels by session ID, while its providers look for identifiers of
  their own making: the cancel changes nothing a stream reads, and the set of
  cancelled identifiers grows.

## 6. Not modelled, and plan

| Part | Why |
|---|---|
| Configuration, tenant overrides (`pkg/config`) | parsing and validation; no state afterwards |
| Python providers, Python VAD | wrappers of third-party models and mocks; free in `ProviderGateway`; the detector is used by no service |
| gRPC clients and bridge, Postgres stores | stubs that return "not implemented" |
| Entry points, middleware, benchmarks | wiring and measurement; what `main` does to a connection at shutdown is in `Connection` |
| Events, contracts, observability | message types, metrics, logging |
| G.711 encoders, sinc resampler, levels in dB | called by nothing |
| Getters, lists, statistics | change no state |

What could come next: an abstract pipeline that `Engine` implements, once the
engine is told what has been played and `Engine` and `Conversation` can be
composed.
