# A verification development for コタエーAI (KOTAE AI)

The repository is a voice tutor: a browser client records a person's spoken
answer, a Go server (`cmd/api`, `internal/`) transcribes it, decides how to help,
and speaks back while the person still holds the floor. This directory holds
TLA+ models of its concurrent and stateful parts, the TLC instances that check
them, and proofs for TLAPS. `PROJECT.json` lists the components, runs, mutants,
the source lines each definition models, the hazards and the theorems.

## 1. Inventory

For each part: the state it keeps, its operations, and what makes it correct.

**Native voice turn (the live path).** A browser WebSocket is served by
`internal/httpapi/voice_live.go`; `internal/nativeflow` runs the turn over a
provider session of `internal/nativevoice`.

| part | state | operations | hard behaviour | correct when |
|---|---|---|---|---|
| `nativevoice/session.go` provider session | ready/held event queues, commit and discard flags, caption flags, terminal error, input token, writer goroutine | Open, StartActivity, SendPCM20ms, EndActivity, CommitOutput, DiscardOutput, Receive, Close | four goroutines, callers that give up, a raw write that never returns | no model output is readable before the commit; order; exact byte count; no lost wake-up; every call returns |
| `nativeflow` provider pool | map of prepared and active sessions per (handler, uid), cap 8, TTL timers | PrepareLive, CancelPreparedLive, acquire, release, expiry, Close | a connect that finishes after its caller left; expiry against a claim | cap includes prepared sessions; one turn per session; every opened session is closed |
| `nativeflow` turn loop | caption text, risk verdict, taint, fallback route | processLive | commit only after deterministic checks; late captions | output of a rejected turn is discarded, nothing is spoken twice |
| `voice_live.go` handler and pipeline | capture state, control gate, pipeline goroutine | start, audio, commit, cancel frames | deadlines, join after cancel | wire order: committed ack, coach checkpoint, PCM, one final |
| `voice_live_writer.go` | audio lane, control lane, shutdown flag | enqueue, write, shutdown | bounded lanes, priority, deadline per item | nil means written; order inside a lane; nothing left behind at shutdown |
| `guard/voice_live_lease.go`, `rate_limit.go` | lease per uid with holder token and expiry; minute/day windows | Acquire, Release, Allow | lease expiry while the holder lives; clock steps back | one live turn per uid; windows never exceed their limit |

**Streaming turn.** `internal/voiceflow` overlaps transcription, inference and
synthesis. It keeps a speculation over an interim transcript, a speculative audio
buffer (write, release, discard), a prepared synthesis connection, the caption
handoff and the committed candidate. Correct when speculative audio reaches the
person only after the final transcript confirmed it, at most once, in order and
complete.

**Speech I/O.** `internal/speechio`: cloud recognition and synthesis, the shared
synthesis flight (one provider stream replayed to several subscribers), the PCM
cache and the latched direct-PCM circuit.

**Conversation and respondent.** `internal/conversation` (agent, coach
continuity, sealed state tokens, session memory, guest-trial binding) and
`internal/respondent` (answer gate, coach, QARC, belief controller) decide one turn
from its words and from state the client carries in a sealed token: tokens come back
late, twice, from a lost turn or from another revision. One turn makes up to seven
model calls against one deadline, with an audit running beside the planner. Correct
when what is shown as the person's own answer is, no exercise asks again without
bound, and no words of a model are spoken that were not audited.
`internal/answercontract`, `asrrisk`, `asreval`, `evaluation`, `research`,
`privacyguard`, `initiativebench` and `latencytrace` are pure evaluators.

**Accounts and memory.** `internal/passkey` (ceremonies used once, credentials
with versions, recovery codes, account deletion), `internal/longmemory` (consent
generations, encrypted record, one-use capabilities, background save dispatcher),
`internal/guesttrial` (a four-step trial record changed by compare-and-set while a
verifier runs), `internal/identity`, `internal/store`.

**Authorities.** `internal/initiativescheduler` (publication authority: prepare,
commit, abort) and `internal/securityflow` (one-use execution leases; `shadowcut`
checks proofs). `internal/semanticshadow` sends content-free graphs in the
background.

**Client.** `apps/client` (Dioxus/WASM in `src`, policies and worklets in `web`),
`crates/pcm_ring`, `crates/audio_core`, `crates/audio_vault`, `crates/answer_print`.
The ring between the audio worklet and the socket, the turn reference window, the
interrupt state machine and the session policies carry state.

**Not part of the running program.** `experiments`, `services/semantica-shadow`
(a Python service behind an HTTP boundary), `scripts`, `config`, `docs`.


## 2. Plan

**Order.** The modules follow what a person can hear or lose, most important
first, then what decides for them.

| stage | modules | composes | proof module |
|---|---|---|---|
| 1 provider session | `NativeSession` | | `NativeSessionProofs` |
| 2 speculative speech | `AudioRelease` (abstract), `SpeculativeAudio`, `PreparedStream` | `SpeculativeAudio` implements `AudioRelease` | `VoiceProofs` |
| 3 streaming turn | `LiveTurn`, `CaptionHandoff` | both see a synthesis through its `AudioRelease` gate | `LiveProofs`, `VoiceProofs` |
| 4 native turn | `TurnVoice` (abstract), `NativeTurn`, `ProviderPool` | `NativeTurn` implements `TurnVoice`; the pool sees a session as open, ended or closed | `VoiceProofs`, `SharedProofs` |
| 5 socket | `LiveWire` (abstract), `VoiceLive`, `LiveAdmission`, `OutboundWriter` | `VoiceLive` implements `LiveWire` | `LiveProofs`, `StoreProofs` (the lease) |
| 6 stores | `GuestTrial`, `LongMemory`, `RateLimit`, `Passkey`, `ExecutionLease` | | `StoreProofs`, `PasskeyProofs` |
| 7 shared work | `SynthesisFlight`, `PcmCache`, `SemanticShadow` | | `SharedProofs`, `VoiceProofs` |
| 8 decisions of a turn | `AnswerSupport`, `AnswerVerifiers`, `Qarc`, `Shadowcut`, `AnswerAudit` | `AnswerVerifiers` and `Qarc` extend `AnswerSupport` | `AnswerProofs` (the calls, prompts, repairs) |
| 9 a conversation | `CoachFrame`, `Coaching` | extend `Qarc`: the coach's turn uses the policies above | `CoachProofs` |
| 10 *left* | `pcm_ring`, the client's interrupt and session policies, the selection of `initiativescheduler`, the paired recognition of `speechio` | | |

**Proofs.** Every invariant and action property of a passing run is proved, but for
the three of section 4, whose claim is what a fold or a recursive function computes.

**Form.** One module per component, its bounds as CONSTANTS; MC modules
instantiate them for TLC, and take those bounds as CONSTANTS again, so that a proof
module can extend an MC module and prove its properties for every value. No module
is recursive, so every module can be proved about. What TLC has to explore is kept
to what the properties distinguish: an event, a reply, a caption or a chunk is a
number, a model value or a class.

**Runs.** Components that do not touch each other's state are checked side by side
in one run: the MC module has a variable `part`, chosen in the initial state, and
the other parts stay in their initial states. The state space is the disjoint
union of the parts', so nothing is lost or gained; a property speaks of one part.
Under fairness the MC module restates the part's own `Fairness` with `part = ...`
in every conjunct. Each part was also run alone with its own specification: every
action of every module fires.

| run | parts | distinct states | questions |
|---|---|---|---|
| `native_gate`, `native_end` | `NativeSession`, without and with fairness | 873 k, 122 k | the output gate; the wire and the end |
| `voice` | `SpeculativeAudio`, `CaptionHandoff`, `NativeTurn`, `PcmCache`, `LongMemory` | 121 k | one voice, heard once, after its checkpoint; calls return; no cue is lost |
| `live` | `LiveTurn`, `VoiceLive` | 471 k | what is heard was decided and released; turn and handler end |
| `stores` | `LiveAdmission`, `GuestTrial`, `ExecutionLease`, `LongMemory` | 1.1 M | leases, verdicts, lookups, consent |
| `shared` | `ProviderPool`, `SynthesisFlight`, `SemanticShadow` | 2.1 M | nothing leaks, nothing is cut, nothing stays |
| `passkey` | `Passkey` | 0.9 M | the relation of accounts and credentials |
| `coaching` | `Coaching` | 0.27 M | what is proved of a person |
| `decisions` | `AnswerVerifiers`, `AnswerSupport`, `Qarc`, `Shadowcut`, `AnswerAudit` | 0.5 M | sound decisions, audited words |
| `passkey_deletion`, `coaching_expansion`, `answer_audit` | one module each | | statements of the documents that do not hold (section 5) |

## 3. The modules

### NativeSession - the provider session (`nativevoice/session.go`, `input_lock.go`)

*State.* The provider's events are numbered as they are decoded; the code's
two slices are the sets `ready` and `held` of numbers still queued. `committed`,
`discarded`, `capFinal`, `capDelivered` are the output gate; `inputActive`,
`activityStarted`, `activityEnded`, `frames` the input state; `terminal` is
`terminalErr # nil` and `ctxDone` the session context, two facts because
`terminate` sets them apart. `token` is the `inputLock`, `op[c]` the program
counter of a caller inside StartActivity/SendPCM20ms/EndActivity/CommitOutput,
`writer` the writer goroutine with the request it owns (`live` = its operation
has not ended), `receiver` the goroutine in Receive. `wire`, `taken` and `mark`
are histories.

*Actions.* `Call, AcquireToken, GiveUpToken, RefuseInput, InputLimit, BeginInput`
are the input operations up to the send; `HandOver, ExpireSend, SendSucceeds,
SendSeesSessionEnd` are `sendProvider`; `WriterStops/Skips/Sends/Sent/Fails` are
`writerLoop`; `CommitOutput`, `DiscardOutput`, `Take`, `Park`, `LeaveReceive` are the
operations of the same name (`Take/Park/LeaveReceive` = Receive);
`ProviderMessage` is one iteration of `receiverLoop` with the whole of
`enqueueEvents`; `SessionExpires`, `CancelSession`, `WatchSession`, `KillExpired`,
`Close` end the session.

*Abstraction.* An event is its kind; the size limit on pending bytes is left to
the event limit; what `decodeMessage` refuses is `Close`.

*Fairness* (`FairSpec`): code that runs to its end is weakly fair, the token is
handed to its waiters in turn (Go channels are FIFO), watcher goroutines run.
The writer gets none: `raw.SendRealtimeInput` may never return, which is the
point of `SessionEnds`. The provider gets none.

| run | instance | shows |
|---|---|---|
| `native_gate` | 1 caller, 4 events, 1 frame, 3 pending, 2 writes; stops one step after the session begins to end | `GateClosed`, `OutputInOrder`: the gate and the order under every interleaving of the four goroutines. Four events are enough for caption, output, interruption and end in every order, and overflow the limit of three |
| `native_end` | 1 caller that may leave a request behind and call again, 1 event, 0 frames, 3 writes, fairness | `WireOrder`, `CommittedInputReachedProvider`, `SessionEnds` (`OpsReturn` and `EndTerminates`): sessions that end in every way, with a write that may never return |

The first run is cut at the end of a session (`SessionGoesOn`), the second goes
on; together they reach every action.

*Proved* (`NativeSessionProofs`, for any number of callers, events and frames).
`GateClosed` is not inductive: it needs that `committed` implies everything
`CommitOutput` tested, which needs that no `start` can be in flight after the
first one, which needs that the token serialises operations. `IInv` is that
chain (`TokenHeld`, `SendsGuarded`, `WriterOwns`, `CommitRests`, `QueuesSettled`);
`StepIInv` goes through the actions once per conjunct. `HeldUntilCommit`,
`NoLostWakeup` and `TerminalScrubs` are part of it and theorems of their own.

`WireOrder` and `CommittedInputReachedProvider` need `WireInv` beside it: an operation
that reports success has been written, also where its caller gave up and left the
request in the writer's hands (`WritesRest`); while nothing has begun to end the
session the wire tells what the activity flags tell (`ActivityRests`); and an end of
activity without a write was reported only once the context had ended, on which no
commit rests (`EndRests`). `OutputInOrder` needs `OrderInv`: output still queued was
decoded after all output that was read (`QueuedAfterTaken`), and what was read of it
came behind the final caption (`CaptionTaken`, `OutputBehindCaption`); `CaptionFirst` follows from it too. Liveness
is model-checked only.

### SpeculativeAudio, AudioRelease - speech before the turn is certain (`voiceflow/voiceflow.go`)

*State.* `state`, `chunks`, `rel`, `peaked`, `full` are the fields of the commit
buffer; `asleep` is a writer in `cond.Wait`, `delivering` a release that is inside
the transport's callback with the lock dropped. `prov` is the synthesis goroutine,
`turn` the goroutine that adopts or drops the reply, `watching` the context
watcher. PCM is numbered, a wiped unit is 0, `out` is what the listener got.

*Actions.* The write (`Write`, its wait, claim and delivery), release, discard
and watcher steps are those of the code's `speculativeAudioCommitBuffer`; `Adopt`,
`DropSpeculation`, `CancelSynthesis`, the boundary and the retry those of the
turn. The lock is held for one action; a callback splits a release in two.

*Abstract.* `AudioRelease` is the promise to the listener: nothing while the gate
is sealed, then the units in order and once, and after a discard at most the
chunk already handed out. `ReleaseKept` is that promise as a refinement.

*Run* `voice`, part speculation: capacity 3, at most 6 units in chunks of up to 2, so a
buffer fills with a rest, a release meets a full buffer and a writer asleep, and
chunks end on and across the limit. *Fairness*: goroutines run, callbacks return,
a cancelled stream ends; a provider that is left alone may fall silent, and
`TurnEnds` (in `CallsReturn`) holds nevertheless.
`HeardOnce` is `SpokenWhole` (what is heard is the reply, whole or cut at a chunk,
never two runs mixed) and `NoSecondVoice`.

*Proved* (`VoiceProofs`) for any capacity, any number of units and any chunks:
`ReleaseAlwaysKept`, that every step is a step of `AudioRelease` or a stutter, and
`HeardOnceAlways`. The invariant `SpeechInv` says where the units of the reply are:
heard, being released, buffered and on their way from the provider, in this order and
without a gap (`Places`), where turn, buffer and synthesis can be at the same time
(`Stages`), and what the result of the synthesis means (`Results`). Wiped units are the difficulty: a discarded buffer holds zeros, and
they must be seen to be in no place that is still played.

### PreparedStream - the connection opened ahead (`voiceflow/voiceflow.go`)

The handshake goroutine, the syntheses that may take the connection and the turn
that reclaims it. `conn` and `owner` say where it is, `cancelHeld` who may cancel
it. The module has no run: it is small enough to be proved outright
(`VoiceProofs`, from `PreparedStreamAssumption`). `Ownership` shows that `Inv` is inductive for any set of syntheses, and
`UndisturbedAlways` that no reclaim ends the stream that took the connection,
though both hold the same context. That it is closed in the end (`Reclaimed`) is
stated and not proved (liveness).

### LiveTurn - one streaming turn (`Pipeline.processLive`)

*State.* What recognition has said (`finals`, `interim`, `endpoint`, `tracked`),
the sender, the processing budget, the speculation with the goroutine that runs
it, four syntheses as `AudioRelease` gates, the decided `reply` and what was
`heard`. *Actions.* One per recognition event, per end of a goroutine, and per
step of `processLive` between two waits. Transcripts are sequences of words,
replies model values.

*Run* `live`, part turn: one word, one final fragment and one interim (so an interim
agrees with, extends or contradicts the final text), two replies (the agent may
decide otherwise than the speculation). *Fairness*: the turn's own steps and
timers; recogniser, agent and provider return only once their context has ended,
which is what the Go APIs promise. `TurnReturns` is the interesting consequence.
Left out: strict minimisation, which never speculates, and the buffered path.

*Proved* (`LiveProofs`) for any words, replies and number of fragments: `OneVoice` and
`HeardIsDecided`. The invariant `TurnInv` says which of the four syntheses the turn
has in hand at each of its points (`InHand`), that only that one is open or heard
(`OneInHand`), and that it says the reply that was decided (`SaidAsDecided`). It is
needed because a speculation that was adopted is the turn's voice and one that was
dropped may still be running.

### CaptionHandoff - a staged reply (`caption_handoff.go`, `committed_candidate.go`)

*State.* The caption and its revisions, the speculation and private candidate, the
decision, the publication authority (unused, prepared, committed, aborted), the two
mutexes `terminalMu` and `publicationMu`, each delivery and each `Cancel`.
*Actions* split `Observe`, `Commit`, `authorizeOutput`, `deliverAudio`, `Cancel`
and `finishCommitted` where they drop a lock or call out.

*Run* `voice`, part handoff: two captions (one revision), two concurrent cancels, three
voices. The run's `CheckpointFirst` is the module's, the order of
checkpoint, authority and speech, and `SilentAfterReturn`, the contract of `Cancel`;
`CancelReturns` (in `CallsReturn`) says that the two locks
cannot hold each other up. *Fairness*: who holds a lock goes on, and the
transport's callback returns because its write has a deadline.
`HeardForFinalCaption` and `OneVoice` are stated in the module without a run.

*Proved* (`VoiceProofs`) for any captions and any number of concurrent cancels:
`CheckpointFirst`. `HandoffInv` says what the authority, the checkpoint and the
decision must have become before a voice is granted (`Granting`, `OpenedCleared`), who
holds each of the two mutexes (`Locks`), and what is no longer possible for each
`Cancel` that drains or has returned (`Silent`).

### ProviderPool - prepared and active sessions (`nativeflow.go`)

*State.* `slots` is the map of the service, `entry` the pooled session of each
process, `conn` its connection (none, opening, open, ended, closed), `retired` the
entries taken out and still to be closed, `service` the shutdown. A *process* is a
preparation or a turn and names the entry it makes. *Actions.* `PrepareLive` is
`Reserve, OpenReturns, Abandon/PassCheck, Install`: the lock is dropped during
Open and between the check and the installation. `acquire` is `Acquire, RunHook,
AbandonOwn/PassOwn, InstallOwn`; expiry, retirement on close, cancellation and the
shutdown (`CancelService`, `Sweep`) come at any point.

*Run* `shared`, part pool: one preparation and two turns of one user and a turn of
another, a pool of one entry instead of eight: every limit and every race for one
entry is met with four processes, and a larger pool only makes rooms free. `PoolHolds` is `OneTurnPerSession`,
`HeldStaysPooled` and `NoLeak`.
`CapHolds`, `PreparedExpires` and `ShutdownDrains` are stated in the module
without a run.

*Proved* (`SharedProofs`) for any number of preparations, turns, users and places:
`PoolHolds` and `CapHolds`. An entry enters the map once, at the start of its call, and
leaves it before it is closed (`EnteredOnce`); an active turn holds its own entry or
one whose preparation is over and which nobody else can claim or retire
(`HoldsClaimed`), and two turns hold two entries (`HeldApart`).

### NativeTurn, TurnVoice - the turn over a session (`nativeflow.processLive`)

*State.* The kind of request, the caption so far as the code's three questions
about it (asks for coaching, refuses proxy answers, is eligible: eight classes),
the input, sender, gate, taint (`asked`), handoff, checkpoint, result. *Actions.*
One per received event and per step of the turn; the deferred cleanup is part of
the action that returns. The module has no bounds: its state space is finite.

*Abstract.* `TurnVoice`: a turn decides once between the provider's voice, the
staged voice and silence, only that voice is heard, and nothing after the end.
*Run* `voice`, part native, checks it as a refinement together with
`FallbackIsReplayable` (the browser is asked to replay only what nobody heard)
and `RefusalGivesNoCheckpoint`, which `FallbackIsReplayable` of the run includes. `HandoffSettled`, `GateOpensOnOrdinary` and
`TurnReturns` are stated in the module without a run.

*Proved* (`VoiceProofs`): `RefinesTurnVoice` and `FallbackIsReplayable`. `NativeInv`
says that whoever is heard was decided for (`HeardAsDecided`), where the turn may be
once it has decided (`DecidedPlaces`), and that it asks for a fallback only before it
decides and after the input is closed (`InputFirst`).

### VoiceLive, LiveWire - the socket handler (`voice_live.go`, `strict_audio_buffer.go`)

*State.* The handler, the reader goroutine with the one item it may hold, the
pipeline goroutine with its two callbacks, the control gate and its mutex, the
strict buffer, the outcome, and the frames sent. *Actions.* Handler steps between
two waits; a callback is entered, takes the mutex, writes and leaves. The pipeline
is the environment: it may do what its callbacks let it do, publishes a
checkpoint only once its input is closed, and has no callback running when it
returns. These two assumptions are what `LiveTurn`, `NativeTurn` and
`CaptionHandoff` (`SilentAfterReturn`) are about.

*Abstract.* `LiveWire` is the order of frames a browser may rely on. *Run*
`live`, part handler: two input frames and two PCM frames, the limits of the code made
small so that both are reached; every start frame. `HandlerEnds` needs fairness
of handler, timers and socket writes (which have deadlines) and of nobody else:
browser and pipeline may never move again. `AcknowledgedFirst` and
`LeaseCoversPipeline` are stated without a run.

*Proved* (`LiveProofs`) for any number of frames: `SpeechIsReleased` and
`RefinesLiveWire`. `LiveInv` relates the handler, the pipeline and its two callbacks:
who holds the gate's mutex (`GateHeld`), in which phases of the handler the pipeline
runs and a callback may be under way (`Phases`, `Callbacks`), and what the frames
already sent say of commit, outcome and checkpoint (`Told`).

### LiveAdmission - handshake gate, lease, preparation (`voice_live_lease.go`, `voice_live.go`)

*State.* A clock in minutes, the lease document (holder, expiry), per connection
where its handler stands, when its context started and when it asked for the
lease; releases the store may still apply; pipelines left behind.
*Actions.* Acquire and Release are one transaction each, whose answer may be lost
and which may commit late; a connection may crash at any point.

*Run* `stores`, part admission: three connections, two slots, a connection timeout of
two minutes and the clock up to four: a lease expires while its holder's clean-up is
still going on, and a third connection comes after the second. *Proved*
(`StoreProofs`) for any number of connections and any timeout:
`LeaseIsHolders`, `OverlapOnlyPastTTL` and `PreparedIsOwn`. The first two rest on the order of two clocks:
the connection's context starts before it asks for the lease, and the lease
outlives the connection's timeout by a minute. `LeaseInv` says that whoever is
leased has an expiry later than its own deadline, and that a pipeline left behind
is covered until its TTL. The third adds that at most one connection is between its
lease and its release, so the cleanup of another cannot find a prepared session that
is not its own.

### OutboundWriter - the writer of the socket (`voice_live_writer.go`)

*State.* Per frame where its `submit` stands, the bytes the request owns (none,
intact, cleared) and its answer; the two lanes as the set `queued` with a
`ticket` per frame (a Go channel is FIFO); the goroutine, the frame in `hand`, the
control set aside (`pending`). *Actions.* `submit` is `Enter, Enqueue |
NotAdmitted, Await`; `run` is `Top, Select, Recheck, Drop | StartWrite, EndWrite`;
`shutdown` is `Close` (the done channel) and `Drain` (under the exclusive lock).

*Proved* (`LiveProofs`) for any frames and capacities:
`BytesIntactWhileWritten`, `NothingKept`, `WrittenInTurn`, `ControlYields`. The
invariant `WriterInv` says that a frame is in one place only (`InOnePlace`), that bytes exist
exactly while a caller is entering with them or the writer holds the frame
(`Bytes`), and that tickets increase from what was written over hand and set-aside
to the lanes (`InTurn`). The module has no run, and its liveness (a caller on a
full lane is released by the shutdown, which closes `done` before it asks for the
lock) is not claimed.

### RateLimit - request quotas (`guard/rate_limit.go`, `httpapi.go`)

*State.* Per key (users and the application) the counter document, per request the
time it arrived with and the state of its two transactions. *Actions.* `Arrive`
starts both, `Charge` and `Refuse` are one transaction (its answer may be lost),
`Decide` joins them. *Proved* (`StoreProofs`, instance `Quota`) for any number of requests, users
and limits, from `Deployment` (the application is not a user; limits are natural
numbers): `WindowLimit`, `ServedIsCounted`, `LimitedIsFull`. A document remembers
one minute and one day only; `Mirror` says that it counts those exactly because
`advance` turns away a request of an earlier window. The module has no run.

### GuestTrial - the guest ledger (`guesttrial`, `httpapi/guest_trial.go`)

*State.* The store (record per key, or none), the clock, what each caller is doing
with which snapshot, and every record a caller was `told`. *Actions.* `Begin`,
`Read`, `Update` (help, stop), `Evaluate` with the verifier outside the
transaction; a commit whose reply is lost, a rollback, expiry. *Run*
`stores`, part trial: two callers and two trials over a store for one record, TTL one
and a clock up to two. `ToldStands` relates what was told to what
is stored later. *Proved* (`StoreProofs`) for any number of callers, trials and any
lifetime. It is not inductive as it stands: a transaction that creates a record has to
know that no caller was told of one under that key before. `ToldInv` adds the types of
the ledger and `Unheard`, that a key about to be created is in nobody's hands.

### LongMemory - consent, record, capabilities, background saves (`longmemory`)

*State.* Consent with its generation, the stored record, issued and consumed
capabilities, session contexts handed out, the dispatcher's queue, its workers and
its shutdown. *Actions.* Each store operation is one transaction; a worker's
`ReadStatus`, `MakeCandidate` and `Save` are three steps with consent changes between them.
*Run* `stores`, part memory: two workers, one sender, a queue of one, one capability,
three consent changes (on, off, on again, the shortest history in which a stale
generation looks current): `RecordOfConsent`, `SingleUse`. *Run* `voice`, part memory:
the same with two consent changes and fairness of the workers: `CloseEnds`, which a
third change does not touch. *Proved* (`StoreProofs`) for any number of senders, workers,
capabilities and changes: `RecordOfConsent`, which is inductive; `SingleUse`, from
`ContextInv`, that the capability of a session handed out has left its tombstone; and
`Drained`, which has no run, for at least one worker.

### SynthesisFlight - one provider call for several callers (`streaming_synthesis_flight.go`)

*State.* The registry's flight, each flight's buffer and flags under its own lock,
its producer and expiry, and per caller what it has replayed. A caller holds the
registry's lock while the flight's lock is free for a moment (`admit`), which is
where the interesting orders are. *Run* `shared`, part flight: two callers, two
flights, an asset of two chunks; `FlightServes` is `OneWholeCall`, `NothingKept` and
`SuccessIsWhole`. *Proved* (`SharedProofs`): `FlightServes` for any callers, flights
and length of the asset. `FlightInv` counts the callers of each flight exactly
(`CountsCallers`), says that a flight begins clean (`BeginsClean`), that only the flight
of the registry has a call that was not given up (`CallsApart`), that a flight with
callers has kept all that was sent and one without keeps nothing (`KeptWhole`), and
that a caller has heard the chunks in order from the first (`HeardFromStart`).
`OneLiveCall` and `SubscriberReturns` are stated without a run. A warm asset that is cached stays cached, which `PcmCache` checks, so
the cache is a flag.

### PcmCache - the cache of speech and the direct route (`streaming_pcm_cache.go`, `adaptive_tts_circuit.go`, `cloud.go`)

*State.* The protected keys, the entries, their order of use and the count of bytes;
the circuit's two flags; the phase of the instance with the cues its warming has
given out and heard; and per call where it is between two locks. *Actions.* The
warming protects all cues or none, its workers synthesize each once, and traffic is
taken only if each was heard and is still cached. A call looks into the cache, again
as the owner of a flight if its text is a cue, then takes the direct route if the
text is short and nobody is on it, else a stream, and stores what it has whole. `put`
evicts the oldest that are not protected, or nothing. A direct call may be cancelled,
succeed, or fail and close the route; a listener, the provider or the context may end
any call.

*Run* `voice`, part cache: two calls at once, two cues and two replies (one of each
too long for the direct route), three entries and four bytes, renderings of one to
three with at most two in an entry: both budgets bind, and a rendering may be too
large. `CacheHolds` is `CacheSound` (`Accounted`, `CuesResident`, `StoredWhole`,
`OneProbe`) and, of every step, `LostOnlyToStored`. Copies of PCM and their clearing
are left out, so an alias between a delivered chunk and a cached one is not checked.

The list of keys is modelled as its linear order, a relation: appending, removing and
taking the oldest that are not protected are then sets, and that no key is listed twice
is its antisymmetry. The bytes of some texts are the set of their numbered bytes, whose
cardinality the code counts.

*Proved* (`VoiceProofs`) for any texts, sizes, budgets and calls at once: `CacheHolds`
and the type invariant. `CacheInv` adds to `CacheSound` that the cues are all protected
before anybody is served (so no cue is ever evictable), that what a call puts was heard
whole, and that the circuit probes exactly when a call is on the direct route. `PutKeeps`
is the heart: the evicted texts, the replaced one and the rest share the bytes counted,
so the counter after a `put` is again the bytes kept.


### Passkey - accounts, credentials, recovery, deletion (`passkey`, `httpapi/passkeys.go`)

*State.* Ceremonies, accounts with their credentials, the credential documents, the
reserved handles, recovery codes with their index, deletion markers, forgotten
long-term memory, and per request what it has read so far; `added` and `proved` are
histories of created credentials and minted tokens. `backend` is the store the
server was started with: `FirestoreStore` and `MemoryStore` differ in what they
validate first. *Actions.* A ceremony is begun; a request consumes it, loads the
account, and commits in one transaction with the clock it sampled before; revocation
and reissue read, then commit; a deletion is three steps (memory, account data with
its marker, Firebase Auth), each of which may be the last. A request may fail at any
step; a ceremony, a code and a marker expire.

*Run* `passkey`: two requests, one account, three credentials (two at most in the
account), two codes, three ceremonies, every lifetime one unit of a clock of one.
Two requests are enough for every race of the relation, and the third credential
meets the limit; they are numbered as they are made. `RelationWhole` is the invariant each transaction validates;
`SpentOnce` says that ceremonies, codes and versions are used once. *Proved*
(`PasskeyProofs`), both, for any requests, accounts, credentials, codes and lifetimes,
for either store, from the module's `Assumption` (a recovery code is
neither a ceremony nor a user: the names drawn of each kind are disjoint). `AccountInv`
holds what a transaction relies on when it commits after a read: accounts and codes are
whole, and an unexpired code names the record of its account (`AccountsWhole`,
`CodesWhole`); what a request carries is an account, a credential, a ceremony (`Read`);
an identifier is in its ceremony, in one request, or used up (`InOnePlace`); a code that
was spent is gone (`CodesSpent`); and the version an assertion was accepted for is behind
the document's (`VersionsPass`).

### ExecutionLease - one lookup per grant (`securityflow/securityflow.go`)

*State.* The guard's three tables (issued, grants, leases), the calls under way, the
tokens given out and the lookups executed. Signatures are unforgeable: what a caller
presents is something the guard gave out, with any scope and proposal beside it.
*Actions.* Each call samples the clock and checks what needs no table; the rest
happens under the mutex. *Run* `stores`, part lease: two callers, two queries, three
nonces, a clock of two units. `OneLookupPerGrant` relates each lookup to its grant:
scope, query and time, and says that no other lookup came from it. *Proved*
(`StoreProofs`) for any callers, queries, nonces and lifetimes: `GrantInv` says that
no two tokens have one nonce (`NoncesDiffer`), that a grant has at most one lease, which
stays within it, and can then not be exchanged again (`GivenOnce`), that a lookup
consumed such a lease (`SpentOnce`), and that what a call takes into the mutex was
checked when it read the clock (`Pending`).

### SemanticShadow - the shadow dispatcher (`semanticshadow/dispatcher.go`, `graph.go`)

*State.* Where the Observe of each turn is, the queue, `done`, the worker with the item
in its hand, Close between its steps, the counters. *Actions.* Observe takes the
admission lock for reading and looks at the closed channel (`ObserveEnter`), sends or
drops (`ObserveSend`), and counts what it sent (`ObserveCount`): the channel send and
`accepted.Add(1)` are two steps, and the worker may take, build, export and count an
observation between them. Close takes the lock (`Locks`) when no Observe holds it.
Likewise the call of Export (`RunTimed`) and its counter (`RunExport`) are two steps.
*Run* `shared`, part shadow: three observations, a queue of one.
`NothingHeldAfterClose`: once Close has returned the queue is empty; what was sent
(counted as accepted, or by an Observe still to count it) is queued, in the worker's
hands or counted as exported, failed or invalid, all of it until Close cancels and never
more afterwards; every call of Export is counted once, as done or as failed, except the
one under way; and nothing is counted as dropped by the close before the close began.
The counters alone do not keep that order: `exported` may be ahead of `accepted` while
an Observe is between its two steps. *Proved* (`SharedProofs`) for any observations and
any capacity: `ShadowInv` says that the turn of a queued, held or exported observation
has been sent and is in one of these places, once (`EachOnce`), how the counters stand
to these places (`Accounted`), and that no Observe is under way once Close has the lock
(`Closing`). `WorkerStops` is stated without a run. The offline comparison of
graphs (`evaluation.go`) keeps no state and is left out.

### AnswerSupport, AnswerVerifiers, Qarc - what the coach decides with (`respondent`, `answercontract`)

Pure operators, as the code's functions. `AnswerVerifiers` is the gate
(`Gate`) and the evaluation of the critic's contract over texts of words and commas;
`AnswerSupport` projects their issues to signals, combines them, updates the stored
belief in integers and bounds what may be done; `Qarc` is the interval belief, the
greedy bounds of an expectation, minimax regret and the certificate. The utilities of
`AnswerSupport` hold an entropy, so its choice is left open among the allowed actions:
`NeverPressed` holds whichever is taken.

*Run* `decisions`. Inputs are enumerated by a step from a seed, so that TLC does not
build them at once: texts of up to three words, repairs of three clauses, every
combination of observations with up to four updates of a belief, every observation of
QARC. `AnswerIsPersons`: whatever a plan and a critic claim, what is completed as a
first answer begins with the person's own words, and an accepted repair moves the
commitment only. `BoundsHold`: prompts are bounded, no sequence of updates makes the
stored belief invalid, and the greedy bound equals the optimum over the interval
simplex, computed by a definition of its own as the least bound a price for the free
mass gives (the dual). *Proved* (`AnswerProofs`): `PromptedOnce`, that `NeverPressed`
holds of every observation; `BeliefKept`, that `BeliefSurvives` holds of every mass and
evidence at every scale (the units left over after rounding down are fewer than the
states with a remainder, and the ranks of the remainders are a bijection onto 0..4, so
each unit goes to a state that is owed part of one and the masses sum to the scale
again); and `RepairMoves`, that
`RepairMovesOnly` holds of every contract and text whose clauses are a sequence (that
`Clauses` returns one is an induction over the text, left to TLC).

### Shadowcut - enforcement points (`securityflow/shadowcut`)

Validation of traces, the search over the 256 masks with its four-fold objective, the
verifier's separate traversal, the normal form and the fingerprint of a trace. *Run*
`decisions`: all traces of up to four nodes, those of five with a grant beside a chain
that its sink is given, and corpora of one attack and two benign traces. A sink is
plain, or needs a grant; the latter is of integrity "untrusted", as in the
repository's tests (`privilegedAttack`), or "system". An untrusted one may be reached
by untrusted text, so that only its grant, uncut from its issue to its consumption,
decides whether it runs, which the search and the verifier each write in their own way.
The corpora have chains of every guarding, plain and with a grant; among them is the
attack that only the grant's own boundaries can stop
(`TestPrivilegedSinkRequiresUncutGrantAndConsume`) and the one nothing stops.
`CutIsSound` (`TraversalsAgree`, `CutIsEarned`): the traversals agree on
every mask and trace, a certificate that is given verifies, its mask blocks each
attack, and no mask of the 256 that does is better. `CutIsSound` and the rest of
`AnswerIsPersons` and `BoundsHold` are model-checked only: they say what folds over
texts, intervals and traces compute, an induction over data.

### AnswerAudit - the model calls of a turn (`conversation/agent.go`, `process`)

*State.* The plan, the route, where `process` is and until when its call may run, the
early audit with its goroutine, what was judged and what was said. Time is what is
left until the deadline; it passes only in calls. *Actions.* The planner and its
retry, the stream that shows a reply early and starts an audit of it
(`startSpeculativeAudit`), recovery, replanning, precision, research, the three ways
to an assessment (ready, awaited, asked), one retry, and what is spoken.
*Run* `decisions`, part calls: a deadline of six units or of the reserve alone, the
planner and the critic two, the others one, the reserve two: every budget test comes
out either way, and a critic may end inside the reserve. `SpokenIsAudited`
relates the words spoken to the words judged across attempts; `ReserveKept` says that
the end of the turn still has its time, and that no audit is forgotten. *Proved*
(`AnswerProofs`), both, for any deadline, reserve and call budgets. `AuditInv` adds which
audits may exist at each stage, that a call is given no time of the reserve, and that
an early audit that may still be used had all of a critic's time: one that had less is
cancelled before anybody asks for its verdict (`AuditsKnown`, `InReserve`, `Assessed`).

### CoachFrame, Coaching - a conversation over several turns (`conversation`)

*State.* The flags of the revision that serves (`agent`), the token the client holds,
the reply under way, and `heard`, a history of what was asked and said.
`CoachFrame` is the token: the pending frame, support, checkpoints, what a revision
writes and accepts. *Actions.* `Answer` is `process` from token to reply: local
controls, the frame and its bindings, the plan, the assessments, support and proofs,
the seal; `Deliver` and `Lose` are the client's; `Deploy` changes the revision;
`NativeExchange` is a turn the agent does not see. Words are a record: at most one
control phrase, a question, clauses and whose they are. How Japanese is read is an
input.

*Run* `coaching`: three turns of a conversation, three revisions (all flags, the
proofs only, none), four kinds of turn, eleven sayings, four tokens of older revisions.
Two questions and two answers are enough for every mismatch of a tag.
`ProofsHold` (`ProofIsPersons`, `TransitionIsMove`), `ReaskedOnce`,
`SealsWhatItReads` and the action property `ScopeStays`. `ReaskedOnce` and
`ScopeStays` hold through losses, repetitions, handoffs and changes of revision.

*Proved* (`CoachProofs`), all four, for any flags of the revisions, turns, sayings,
plans and older tokens, and a conversation of any length. A turn is one step of nested
decisions, so the proof has two halves. The first follows `process`: for each way to a
reply (a local control, an opened question, a pause, a plan ruled on, a conversation) a
lemma says that the reply is `Sound` for the frame the turn entered with: what it
proves is what was said, the frame it writes has the scope of the one it read and does
not forget a prompt, and its token passes the codec. The second is the inductive
invariant `CoachInv`: the token is one the codec may have sealed (`GoodState`), a scope
in which a prompt was spoken has it counted (`AskedOnce`), evidence in a token is of an
answer that was heard (`HeardLate`), and the reply under way is sound for the token
the client still holds (`Underway`). None of the properties is inductive alone:
`ReaskedOnce` needs the count in the token, which another revision writes, and a
`ProofsHold` of this turn needs what the token claims of the last.
Two assumptions enter, both evaluated by TLC: `CoachingAssumption` (a revision
that `Load` accepts, and older tokens that are valid, of the token's shape, and written before
the evidence of a late answer existed), and `OnceAsked`, one value of QARC's
integers: who was asked once and speaks is not asked again. That value is a sum over
fixed tables, which the provers do not compute.

## 4. What is proved, what is model-checked

| theorem module | about | theorems |
|---|---|---|
| `NativeSessionProofs` | `NativeSession` | `TypeCorrect`, `Invariance`, `GateSafety`, `NothingLeftBehind`, `ReceiverAwake`, `Scrubbed`, `WireOrderAlways`, `CommittedWasSent`, `OutputOrdered`, `CaptionFirst` |
| `VoiceProofs` | `SpeculativeAudio`, `NativeTurn`, `CaptionHandoff`, `PreparedStream`, `PcmCache` | `ReleaseAlwaysKept`, `HeardOnceAlways`, `TurnVoiceRefined`, `FallbackIsReplayableAlways`, `CheckpointFirstAlways`, `Ownership`, `UndisturbedAlways`, `CacheAlwaysHolds`, `CacheTypedAlways` |
| `LiveProofs` | `VoiceLive`, `LiveTurn`, `OutboundWriter` | `SpeechIsReleasedAlways`, `LiveWireRefined`, `OneVoiceAlways`, `HeardIsDecidedAlways`, `BytesIntactAlways`, `NothingKeptByWriterAlways`, `InTurnAlways`, `ControlYieldsAlways` |
| `StoreProofs` | `LiveAdmission`, `LongMemory`, `ExecutionLease`, `GuestTrial`, `RateLimit` | `LeaseAlways`, `LeaseIsHoldersAlways`, `OverlapOnlyPastTTLAlways`, `PreparedIsOwnAlways`, `RecordOfConsentAlways`, `SingleUseAlways`, `DrainedAlways`, `OneLookupPerGrantAlways`, `ToldStandsAlways`, `WindowLimitAlways`, `ServedIsCountedAlways`, `LimitedIsFullAlways` |
| `SharedProofs` | `ProviderPool`, `SemanticShadow`, `SynthesisFlight` | `PoolHoldsAlways`, `CapHoldsAlways`, `NothingHeldAfterCloseAlways`, `FlightServesAlways` |
| `PasskeyProofs` | `Passkey` | `AccountAlways`, `RelationWholeAlways`, `SpentOnceAlways` |
| `AnswerProofs` | `AnswerAudit`, `AnswerSupport`, `AnswerVerifiers` | `SpokenIsAuditedAlways`, `ReserveKeptAlways`, `PromptedOnce`, `BeliefKept`, `RepairMoves` |
| `CoachProofs` | `Coaching`, `CoachFrame` | `ProofsAreTheirs`, `AskedAtMostOnce`, `SealedIsRead`, `ScopeIsKept` |

Each follows the same path: type correctness, an inductive invariant that is a
conjunction of named parts, one lemma per group of actions that preserve it, and a
temporal step. A theorem module extends the module whose run checks the property, where
that can be done, so that the theorem and the run speak of one definition; each
component is there an instance with variables of its own, and a theorem's
specification is that component's `Spec`. Assumptions are the named ASSUMEs of the
modules and of the MC modules, which repeat those of the modules they instantiate
and which TLC evaluates on the runs, or, where no run covers the module, a definition
the theorem names as hypothesis (`Deployment` of `RateLimit`). None of them bounds
the size of an instance, beyond that sets that are counted are finite.

The refinements `ReleaseKept` (the released speech is a prefix that is kept),
`RefinesTurnVoice` and `RefinesLiveWire` are proved and checked: the initial states map to
initial states, and each step to a step of the abstract specification or to a stutter.

Only model-checked:

* liveness under fairness and ENABLED, which the prover cannot do;
* `AnswerIsPersons`, `BoundsHold` and `CutIsSound`, where the claim is what
  a fold or a recursive function over sequences computes, and induction over data is
  out of the prover's reach (of `BoundsHold` the parts `NeverPressed` and
  `BeliefSurvives` are proved, and of `AnswerIsPersons` the part `RepairMovesOnly`,
  from the type of `Clauses`).

A bound in a guard is named in the CONSTANTS of its module (`MaxStream`, `MaxWire`,
`MaxUnits`, `MaxTime`, `MaxGeneration`, `MaxFlights`, `MaxFragments`). Deadlock is not
checked anywhere: every component is a turn, a session, a call or a shutdown that
ends, and its end has no successor; that none stops early is what the liveness
properties say.

## 5. Where documents and code disagree

Three statements are checked, and TLC finds each violated.

* `passkey_deletion` (`DeletedStaysDeleted`). `docs/passkey-credential-lifecycle.md:49`
  says that a deletion is retried "without recreating or trusting deleted credential
  state". `createCredential` never reads the deletion marker
  (`firestore_store.go:534`; `ReplaceRecoveryCode` does): an addition that loaded its
  account before the deletion recreates it, and the retried deletion leaves it there.
* `coaching_expansion` (`ExpansionAnswered`). `docs/pdf-alignment.md:36` promises the
  one further question to a person who asks for it. `answerTransitionEvidenceForLateTurn`
  does not look at the opt-in and `normalizePendingAnswer` (`contracts.go:491`) refuses
  a frame with both, so the reply to a late answer cannot be sealed.
* `answer_audit` (`SpeaksOnlyAudited`). `docs/architecture.md:114` and `:117` say that
  the final draft is audited and that no unaudited draft is spoken. In a respondent's
  restructure stage the critic is given the person's words (`agent.go:4608`); when that
  plan is urgent as well, the model's own reply is spoken (`:1867`).

Others are kept as a definition beside the module, or noted here, and no run
asserts them.

* `nativevoice/session.go:280` says of `EndActivity` that a nil return means the
  write has completed. The session context may end inside `sendProvider` before the
  watcher has run `terminate`; `currentTerminalError` (`:495`) is then nil and
  `EndActivity` returns nil with nothing written (`EndMeansSent`). No turn is
  committed on it: `CommittedInputReachedProvider` holds.
* `docs/account-deletion-memory-boundary.md:12` says that a background save that comes
  late cannot be stored under its old generation and does not revive what was deleted.
  The job carries no generation (`longmemory/dispatcher.go:217` reads the consent when
  the worker starts): if consent was withdrawn and given again meanwhile, what was said
  before is saved under the new consent (`ForgottenStaysForgotten`). Nothing is stored
  under a consent that is withdrawn: `RecordOfConsent` holds.
* `nativeflow.go:585` says that a tainted provider's later output is never released.
  The taint is not looked at once the input gate has passed (`TaintedIsSilent`).
* `streaming_synthesis_flight.go:17` says that late subscribers replay from index zero.
  A caller that joins in the moment after the last one left (`:56`) finds the buffer
  cleared (`LateSubscribersReplayFromZero`); it is told of a failure and not of a
  success (`SuccessIsWhole` for callers counted before that moment).
* `docs/architecture.md:114`, `docs/kotae-reflex.md:278` and
  `docs/audio-security.md:178` describe a recovery of a twice failed audit with the
  precision model, and one short question after that. `process` audits with the fast
  model only, retries a transient failure once, and ends with a fixed notice.

## 6. What is not modelled

Every part is listed in `PROJECT.json` with its reason. In short: the cloud clients
and stores behind interfaces are environments; reading Japanese (whose clause, which
question, which control phrase) is a function of open text, and `Coaching`,
`AnswerAudit` and the live turns take its verdict as an input; prompts, schemas,
statistics, encryption, metrics, logging and timings have no property here. `pcm_ring`,
the initiative selection and the browser's policies are left in the plan. Some effects inside modelled parts are left out: the
byte limit of pending provider events (the event limit stands for it), strict
minimisation and the buffered path of a turn, document validation and key hashing of
the stores, WebAuthn's own checks, the entropy of a contract's hypotheses.
