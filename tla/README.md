# A TLA+ development of sttd

`sttd` is a dictation daemon: a client (`sttctl`) asks it to record, it pauses
whatever media players are playing, captures audio, has the audio transcribed,
and types or copies the transcript. This directory holds TLA+ modules that model
its control, TLC configurations that check them on small instances, and TLAPS
proofs of what holds for every configuration.

Paths below are relative to `src/crates/sttd/src/` unless they start with `src/`.

## 1. Inventory

| Component | State | Operations | Talks to |
|---|---|---|---|
| State machine, `state.rs` | dictation state, recording session and its id counter, two start instants, pending push-to-talk capture, cooldown, request window, spend, retained transcript, two error codes | press, release, toggle, status (user); open gate, take pending, finish, enforce limit, request gate, spend, cooldown, error codes (worker); transcript calls (worker and replay) | shared behind one mutex by the server and the worker |
| IPC server, `ipc/server.rs` | the socket file and its listener, the connection being served, a transcript being replayed | one command per connection, one connection at a time | locks the state machine, sends `RuntimeCommand`s, answers the client |
| Runtime worker, `main.rs` | push-to-talk buffer, VAD segmenter, audio handle, the locals of the call it is in | `select!` of shutdown, command, 250 ms tick | locks the state machine, drives playback, audio and the pipeline |
| Pipeline, `runtime_pipeline.rs` | none | request gate, transcribe, spend, inject, retain on failure, cooldown on a retryable failure | provider, injector, playback, state machine |
| Playback coordinator, `playback.rs` | owning session, players paused for it | on_recording_started, on_recording_stopped, on_shutdown | one `playerctl` process per player |
| Main and signals, `main.rs` | shutdown broadcast, task handles | start, signal, join, resume | all |
| VAD segmenter, `audio/capture.rs` | samples of the utterance, speech and silence counters | push_frame, flush | called by the worker |
| Audio capture, `audio/capture.rs`, `audio/format.rs` | device name | open, capture | cpal |
| Providers, `provider/` | remembered fallback; a count and temporary files of the local one | transcribe_utterance | network, whisper |
| Injection, `injection/` | none but the clipboard | inject: a sequence of commands | wl-copy, wtype; called by worker and server |
| Debug WAV, `debug_wav.rs` | files on disk | maybe_write, cleanup | file system |
| Configuration and protocol, `src/crates/common/src/` | none | load, validate; envelopes | files, environment |
| Client, `src/crates/sttctl/src/main.rs` | none | one request | the server's socket |

**What is hard.** Two tasks share the state machine and give up its lock at
every await. The worker spends most of its time in slow calls (playerctl,
capture, provider, injector) while the server goes on changing the state under
it; commands wait in an unbounded channel meanwhile, and `select!` polls its
ready arms in random order, so a tick may overtake a queued command. The
worker itself ends recordings (duration limit, provider cooldown) that a queued
command is about. Players fail or answer late, the audio device goes and comes
back, a client goes away, and a shutdown can arrive at any point. Outside the
process there is more that nobody orders: whisper processes that outlive their
call, two writers of one clipboard, a second daemon on the same socket path,
systemd restarting what failed, a wall clock set back, and a user editing three
sources of configuration.

**What makes each part correct.**

* State machine: state and session never disagree; a pending capture belongs to
  the newest recording; nothing is recorded during a cooldown; no recording ends
  without its ending being handed to a caller; the rate limit is exact.
* Playback: only players paused for a recording are resumed, at its end, once.
* Worker: no capture before the pause is complete and none after the resume
  began; audio of one recording is not sent for another; a cancelled utterance
  is never captured; whatever ends a recording resumes its players.
* Pipeline: Processing is always left; spend and rate limits hold; a newer
  retained transcript is not lost to an older one.
* Shutdown: leads to the exit and to the resume of the tracked players.
* Providers: every call returns, and what it returns is of its own utterance.
* Injection: a transcript is kept until it is delivered, and then not sent again.
* Debug WAV: the directory stays within age and size.
* Service: what a client is told is true; the service comes back after a failure.
* Configuration: precedence holds for every source; what is accepted suffices.

`PROJECT.json` lists every component and every hazard with its source line.

## 2. Modules

| Module | Models | Notes |
|---|---|---|
| `StateMachine` | `state.rs` | one operator per method |
| `RecordingLifecycle` | what the recordings of a run promise | abstract, implemented by `StateMachine` |
| `StateMachineProofs` | | TLAPS: its invariants, the lifecycle, stops announced, the rate limit |
| `PlaybackCoordinator` | `playback.rs` | |
| `PlaybackCoordinatorProofs` | | TLAPS: only own pauses are resumed |
| `Daemon` | `ipc/server.rs`, `main.rs`, `runtime_pipeline.rs` | extends `StateMachine`, instantiates `PlaybackCoordinator` |
| `DaemonProofs` | | TLAPS: the inductive invariant of all tasks together, and every safety property of `daemon` |
| `VadSegmenter` | `VadSegmenter` of `audio/capture.rs` | |
| `Segmentation` | what cutting a stream into utterances promises | abstract, implemented by `VadSegmenter` |
| `RemoteProvider` | `transcribe_utterance` of `provider/openai_compatible.rs` and `provider/whisper_server.rs` | |
| `LocalWhisper` | `transcribe_utterance` of `provider/whisper_local.rs` | |
| `ProviderProofs` | | TLAPS: both kinds of provider, and the one the daemon built |
| `Output` | `injection/` and its two callers | |
| `OutputProofs` | | TLAPS: kept until delivered, inserted as it is |
| `DebugWav` | `debug_wav.rs` | |
| `AudioProofs` | | TLAPS: the segmenter, its refinement of `Segmentation`, and the recorder |
| `IpcService` | the life of `ipc/server.rs` and `main.rs` as `ipc/mod.rs`, sttctl and systemd see it | |
| `IpcServiceProofs` | | TLAPS: answers are true, a lone instance serves |
| `Config` | `src/crates/common/src/config.rs` and `build_provider` | |
| `ConfigProofs` | | TLAPS: precedence, and what is accepted is enough |
| `MCStateMachine`, `MCPlaybackCoordinator`, `MCDaemon`, `MCVadSegmenter`, `MCRemoteProvider` | | history variables and the properties that need them |
| `MCProviders` | `build_provider` and the one provider it made | composes `MCRemoteProvider` and `LocalWhisper` |
| `MCIpcService`, `MCConfig` | | constants |

### StateMachine

The variables are the fields of the Rust struct. A method is an operator over
the variables and their primed values; a method that returns a value has a
parameter `out`, the variable its caller keeps the result in. The module's own
`SMSpec` calls any method at any time and keeps the result in `reply`; `Daemon`
calls the same operators from its program counters.

*Time.* The code stores `Instant`s and only ever compares them with now. The
model stores the distance to now: `cooldown` counts down, the two recording ages
and the ages of requests count up, and `Elapse` moves them all. Ages stop just
past the largest value the code distinguishes, which loses nothing and keeps the
state finite however long the daemon runs. `CooldownTicks` may be 0, as
in the configuration. `requests_last_minute` is a count of requests for each
age instead of a deque of instants, and `RequestCount` the number of its entries.

*Absence.* `Option<RecordingSession>` and the like use a record with id 0,
`Option<Instant>` the integer `Unset`.

*Bounds of the model.* `MaxSessions` recordings are begun at most; `SpendCap`
saturates the spend. Both are named in the module.

### RecordingLifecycle

Each id goes unused, requested, open, ended (or requested, ended); ids are used
in order, one recording at a time. `StateMachine!ImplementsLifecycle`
is this specification under the mapping `LifecyclePhase`.

### PlaybackCoordinator

A call of the coordinator holds its mutex across all its playerctl processes.
The module splits it in: begin (the snapshot of playing players and the
coordinator's bookkeeping), one `PlayerCommandEnds` per player in any order, and
end. A command may succeed, fail without effect, or fail after its effect (a
timeout). A status query may fail, so the snapshot is any subset of
the playing players. The user may work the players at any time.

### Daemon

Two program counters, `s_pc` for the server and the tail of `main`, `w_pc` for
the worker, and `job` for the worker's locals. A step runs from one await to the
next, so every locked section, playback call, capture, provider request and
injection is a step of its own and every other task's step can come between.
The segmenter is touched by the worker only. The audio handle has a lock of its own:
`capture_audio` stores or drops it in one section (`ReopenDevice`, `LoseDevice`) and sets
the error code in another (`ReportRecovery`, `CaptureFails`). `device` is "reopened" or
"lost" between the two, where a status can be served that says the opposite of what the
worker holds; `AudioErrorIsCurrent` says that this is the only time.

Audio is reduced to its origin: `[id, late]`, the recording a sample was captured
for and whether the key was already released when its capture began.
Transcripts are numbers, in the order the provider returned them.

The segmenter appears in `Daemon` by its outcomes only: a frame is dropped
while nothing is held, is added to what is held, or ends the utterance. These
are the steps of `Segmentation`, which `VadSegmenter` implements. A provider
call appears as success, retryable error or permanent error, which are the
results a call of `RemoteProvider` ends with.

### VadSegmenter and Segmentation

The variables are the fields of the struct; `pushed` and `emitted` are the argument
and result of the last call. A sample is reduced to whether its frame reaches the
threshold, a frame to one to `FrameSamples` such samples, because the last frame
of a chunk may be short while the counters add a whole `frame_ms` for it. The counters
saturate and the cast of the length to milliseconds wraps at `U32Max`, which the
configurations set so low that saturation happens. The ring of recent levels is not
read anywhere and is left out; `push_frame` of an empty frame cannot be reached,
since `chunks` yields none.

In `Segmentation` an utterance may be cut anywhere, but an audible frame is never
dropped and what is held leaves whole, in order and once.

### RemoteProvider

One step is one reply, or the end of a backoff. `Init` chooses which provider was
built. A reply is a status and one of the bodies the code tells apart; `OutcomeOf`
is the conversion to a text or an error that the code makes of it. Texts are a
transcript or one of the two kinds of chatter the hosted provider recognises, as
the marker lists of the code sort them. `pc` says which request a call awaits:
transcription, chat, or chat with the reinforced prompt. The provider's flag
`prefer_chat_completions` survives the call, the call's own `prefer` does not.
`MCRemoteProvider` counts uploads and remembers that a server disowned its endpoint.

### LocalWhisper and MCProviders

Each file is known by whose audio it holds or was made of, each whisper process by
the call that started it. A process is the environment: once started it reads its
audio, may write its transcript and exits, whenever it will, also after its call
timed out, because dropping the future of `output()` does not kill it. The call is
one step per await. `cleanup` ignores every error of a removal, so a removal that fails
leaves the file and the call goes on; `stuck` is history, the files that were left so. `MCProviders` chooses the provider at the start and lets the
worker call only that one.

### Output

`stage` says which command each of the two callers of `inject` awaits. A command may
do its work and report success, or report failure with its work done or not. The
worker's callers are `process_samples` and `record_output_failure`, the server's
`handle_replay_command`; what they do with `last_transcript` is here as in `Daemon`,
which sees only the result of `inject`. `alone` is history: whether another call overlapped
the last one of a caller.

### DebugWav

A file is its name, size and modification time. `CleansUp` is the one pass of
`cleanup`, over the files it found: what is expired goes, then the loop over the entries by age, whose removals
are the shortest beginning of some such order that reaches the cap. Failures leave
what they leave in the code: a partial file, an unfinished pass, files that
cannot be removed and are counted as if they had been.

### IpcService

`phase` walks through `main` and `server::run`: load, prepare, remove, bind, chmod, accept,
read, execute, write, close, drain. `PathRefused` is any error of the directory, the file
or the listener, `ConnectionBreaks` one of `accept` or of reading; either ends `run`, as a
failed write does. A request is decoded and its version tested first (`Reads`), and the
response is decided there or by `execute_command`; `executed` counts what was carried
out and is read by nothing but the properties. Only one connection is handled at a time; `backlog` is
the queue of the listener, which dies with it. A client may be killed before or
after it has sent its request, or be suspended before; an instance may be
signalled or die. `Ends` is what the operating system does to the connections of
an instance. `Service` is the instance systemd restarts (`Restart=on-failure`, at most
`StartLimitBurst` lives, of which the model has two); the other is started by hand. What a command
does is left to `Daemon`.

### Config

`sources` is what is written, by setting and level. `Levels` is the order in which
`pick_env_value` and `resolve_hosted_api_key` look, and `Picked` takes the `First` that is written;
the API key skips blank ones. The contents of a setting are the classes that parsing, `validate`, a
provider's constructor (`Builds`) or the part of `validate_model_capability` that needs no
server, command or file (`Capable`) tells apart. A step edits one entry.

`OverriddenIsInert` is stated over the precedence of `src/README.md` and
`src/docs/data-models-sttd.md`, as the relation `Outranks` between levels and not as the
sequence the code looks through. It speaks of what is configured and of whether it is
accepted, with the one exception the code has: a TOML entry of the wrong type refuses the
file even where the environment overrides it. `AcceptedIsEnough` names the five values that
`validate` lets pass and start-up refuses.

## 3. Runs

| Run | Question | Bounds |
|---|---|---|
| `state_machine` | does the state machine keep its fields consistent under any caller, and implement the lifecycle? | 3 recordings, 2-tick cooldown, 1-tick duration limit, 2-tick rate window of 2 requests, hold clamp 1..2, spend limit 1 |
| `playback` | does the coordinator resume only what it paused, once, under any serial caller? | 2 players, 3 recordings |
| `daemon` | do the tasks together keep capture behind the gate, waits owned, audio apart, transcripts and error codes right, and can only a cooldown leave players paused? | 3 recordings, 2 transcripts, 1 player, 2 frames a chunk, spend limit 2 |
| `daemon_live` | does everything that must end, end? | 2 recordings, 1 transcript, 1 frame |
| `segmenter` | does the segmenter cut where it should, lose nothing, and end every utterance? | 2 samples a frame, duration limit 6 ms, payload limit 13 samples |
| `providers` | do retry, fallback and reinforced prompt stay within their promises, is a transcript that of its utterance, and does the call return, whatever servers and processes do? | 2 retries, 11 statuses, 7 kinds of body; 3 local calls |
| `output` | is a transcript kept until delivered, and inserted as it is? | 3 transcripts, every mode and set of installed commands |
| `debug_wav` | does the directory keep its limits? | 4 files, 4 readings of the clock, 3 sizes |
| `service` | are answers true, does a daemon told to stop stay down, and do clients, service and signals get where they should? | the service lives twice, another instance once, 2 calls |
| `config` | does precedence hold, and is what is accepted enough? | 2 edits of any entry, from no file or one of two TOML files |
| `orphaned_pause` | does every end of a recording resume its players? (no) | 2 recordings |
| `utterance_dropped` | does a released utterance keep its audio? (no) | 2 recordings |

Why these bounds are enough. Three recordings are what the longest chain needs:
one that leaves something behind (speech in the segmenter, a stale pause), one
that is ended early, and one that meets the remains. One player suffices in
`daemon` because players are independent and the coordinator tells them apart
only by membership; `playback` has two so that one can fail while the other does
not. Clocks are at their smallest value that has both sides: a limit of 0 ticks is
exceeded one tick after the gate opened. `SpendCap` lies above the limit plus one
request, so that an overshoot is visible.

Both limits of the segmenter are functions of the length; the duration limit is the
lower one, and `U32Max` is so low that the duration of a longer utterance would wrap and only the payload limit
stop it. Two retries give a first, a middle and a last round. Three local calls give a
process two calls old beside one that is current. Three transcripts are a
retained one, a newer one that fails and a replay between them. Two lives of the service and one of
another instance give every overlap of a start with an end. Two edits give an entry
and one that overrides it, or one that is moved.

Every property has a mutant, an operator next to the one it replaces
(`KeepPausedPlayers` before `TakeOwnership`), written as the bug the property is
there for; TLC finds each property violated under its mutant.

### What the failing runs show

* **orphaned_pause.** While the worker is in the pipeline with an utterance of a
  stopped continuous recording, the user requests a new recording. The provider
  fails with a retryable error; the cooldown stops the new recording, and
  `on_recording_stopped` does nothing because its pause has not happened. Then
  the worker takes the queued Start command, pauses the players, is refused the
  gate, and nobody will resume them: acceptance criterion 4 of the playback
  specification promises the resume. `PauseLeftBehindOnlyByCooldown`, in
  `daemon`,
  shows that this needs a provider cooldown.
* **utterance_dropped.** Push-to-talk audio is in the buffer, the key is
  released, and the worker's tick is polled before the channel: it clears the
  buffer. The Stop command then finds it empty and records for as long as the
  key was held, after the release.

Two more disagreements met while modelling are listed in `PROJECT.json` without a run,
because each is one step of a model that the code shows as plainly:

* A replay is under way, the worker retains a newer transcript with its code, the
  replay succeeds and clears the code (`Daemon!ReplayDone`).
* A whisper server answers `{"text": ""}`. The JSON branch of `post_inference` finds no
  text and falls through to the branch for plain-text answers, which returns the
  JSON itself (`RemoteProvider!ParseJsonOrPlain`). The hosted provider calls the
  same answer `MissingTranscript`.

## 4. Fairness

`Daemon!Fairness` assumes weak fairness for what a task does between two selects:
playerctl and the provider have timeouts, a capture has a fixed length, and
`wl-copy` and `wtype` are assumed to end (the code has no timeout for them).
Strong fairness for the worker's three arms and for the server's shutdown arm:
`tokio::select!` polls in random order, so an arm that is ready again and again
is taken. Time passes. Clients are not fair: no command need ever come; but a
client that connected is assumed to finish its request (`read_to_end` has no
timeout). `ProcessingEnds`, `RequestIsServed` and `LimitIsEnforced` allow the
worker's shutdown as an end.

Where actions of one task exclude each other (the steps of a connection and
of a replay, those of the shutdown) they share one fairness condition.

`MCVadSegmenter!MCSpec` assumes that frames keep coming, as they do while a recording
goes on; when it ends, the worker flushes. `MCProviders!ProviderSpec` assumes that a
request is answered or times out (the HTTP client is built with a timeout), that a
sleep and an operation on a file end, and that the timer of a whisper process
fires; of the process itself it assumes nothing. `IpcService!FairService` assumes that an instance
which can go on does, that systemd restarts what it should, and that a client which
is neither killed nor suspended sends its request. `Output`, `DebugWav` and `Config` are
checked for safety only and state no fairness.

## 5. Proofs

Every safety property that a passing run checks, invariant or action property, is
proved too, for every value of the constants that meets the assumptions. These are the
types of the configured values (a `u32` is at most `U32Max`, a limit is positive where
`validate` wants it positive), and that the model's bounds are numbers.

### The state machine

`Inductive` (`StateMachineProofs`): `IInv` is an invariant of every sequence of calls. It is
the type invariant with `SessionMatchesState`, `PendingIsNewest`,
`NoRecordingDuringCooldown` and `TimersFollowGate`. They need each other: a release
leaves Processing without a session because the two agreed before; a recording begins
only from Idle, where there is no session to lose and nothing pending; a cooldown ends
the recording, and stopping "no recording" leaves no clock running only because clocks
follow the gate. `TypeCorrect` and `RecordingConsistent` are the parts a reader asks for.

There is one lemma per method that touches the recording fields, over two lemmas for the
beginning and the end of a recording, and frame lemmas for the rest. A method's lemma
takes the result as a parameter, so it holds for any caller, the daemon's tasks too.

For the refinement the steps are sorted, from `IInv`, into four kinds: the recording is
`Kept`, `Begun`, `Opened` or `Ended`. Under the mapping `LifecyclePhase` the first is a
stutter and the others are `Request`, `Open` and `End` of `RecordingLifecycle`; each of the
three lemmas shows that the mapped function changes at one id. `Implementation` is the
refinement, `EveryStopAnnounced` the action property that whoever ends a recording is
handed it.

`RateLimitIsExact`: the deque, pruned or not, holds at each age within the window what
was accepted that long ago, so that pruning it counts the accepted requests; a step of
time moves both.

### The daemon

`DaemonInductive` (`DaemonProofs`): `DaemonInv` is an invariant of the server, the worker,
the signals and the players in any order of their steps. Its parts:

* `JobOK` and `StorageOK`: what the worker's locals and the shared buffers hold at each of
  its steps.
* `PassOK`: one call of the coordinator at a time, the worker's, or that of `main` once the
  worker is joined.
* `CommandsOK`: ids are never used twice and the channel keeps its order, so of the commands
  still to be handled the newest is the one the state machine waits for; while a gate is
  open there is none.
* `WantedOK`: while audio of a recording is wanted, its gate being open or its utterance
  still to be collected, the coordinator owns the pause of that recording, the worker is
  at none of the steps that end a pause, and what is buffered is of that recording.
* `ProcessingOK`, `TranscriptOK`, `SpendOK`: whose Processing is, that the worker's transcript is
  the newest, and that a request is made below the limit.
* `PttUtteranceIsOwn`, and `AudioErrorIsCurrent`: nothing but `capture_audio` touches the
  handle or the code, and every way out of it settles the two.

`CaptureBehindGate` is what `WantedOK` and `PassOK` say of the worker's captures.
`EveryWaitHasAnOwner` follows from `CommandsOK` and `ProcessingOK`. `CommandsOK` is the
part without which nothing else is inductive: a Start that was handled for a recording
already ended, or a Stop that found a newer utterance, would break `WantedOK`.

With the history variables of `MCDaemon` two more invariants ride on `DaemonInv`. `OpenedOK`:
what is wanted, being captured or held is of a recording whose gate was opened
(`CancelledNeverCaptured`). `OwnerOK`: apart from cooldowns, whoever owns a pause is the
recording that is on, or has its Stop on the way, or is what the worker is about to
resume; and every Start is followed by its Stop (`NothingLeftPaused`). A cooldown of the
provider is the one step that breaks `OwnerOK`, as the run `orphaned_pause` shows.

`DaemonImplementation`: the daemon as a whole, and not its state machine alone, implements
`RecordingLifecycle`.

### The other components

`PlaybackCoordinatorProofs` strengthens `PausedOnlyUnderOwner` by `TrackedObeyed`:
every tracked player, and every player whose pause was counted as obeyed in the
running pass, did obey a pause for the owner, and nothing resumed it since. That is
what `ResumesOnlyOwn` needs when a resume pass begins.

`AudioProofs`, segmenter: `ActiveHolds` (the segmenter is active if and only if it holds
samples) with the types and `HeldBelowLimits` is inductive; every call is then a step
of `Segmentation` (`Segments`). `HeldBelowLimits` follows from the tests of
`push_frame` on extension, and from the length of a single frame at the beginning.
`FramesInv` relates the code's counters to the frames of the utterance: speech milliseconds
are the speech frames, silence milliseconds the frames since the last of them, both as
far as a `u32` counts. `EndsInSilence` and `CutsWhenDue` say of the frames what `push_frame`
tests of the counters; the second needs that both thresholds are themselves a `u32`.

`AudioProofs`, recorder: the only invariant needed is that the sizes of a directory can be
added up. `LimitsHold` then is that fewer files have no more bytes; `ReportedFileIsThere`
that a loop which removes the newest file removed all others before, so that it alone
was above the cap.

`ProviderProofs`, remote: the uploads are counted by what the call awaits (`UploadsInv`),
because a round costs one, two or three of them depending on whether the call already
prefers chat; and `ChatInv` says that a call in progress prefers chat once the endpoint is
known to be gone, which gives `Sticks`. `NoChatter` and `GivesUpLast` are action properties
over the same invariant. Local: `LocalInv` says what every file can hold. A prefix
belongs to one call, so the audio under it is nothing or the call's own, hence what a
process heard and wrote is nothing or its own, whatever the order of calls and processes;
that is `OwnTranscript`. For `LeftBehind` it adds that only a call at its first or last
steps, or one that timed out or could not remove a file, may leave a file or a process. `ProviderIsEither` carries
both over to the provider the daemon built, and `ProviderKeepsPromises` collects them
under the specification of the run.

`OutputProofs`: a transcript that was not delivered is in flight with one caller, or
retained, or older than one that failed; the invariant adds that the two callers never
hold the same one, that the worker's is the newest, and that the clipboard holds the
text of a lone caller between its copy and its keys.

`IpcServiceProofs`: `ClientsInv` says where each client is. An instance holds it at most
once, in its backlog or in the connection being handled (`PlaceOK`, `BacklogOK`), and has
executed the command of none but the one it is about to answer (`ExecutedOK`); hence
`AnswersMeanDone`. `ResponseOK`
adds that the response in hand agrees with what was carried out. `StopInv` says that an
instance told by a client to stop is about to, has stopped, or has failed with that client
unanswered. `SocketInv` says that an instance which is alone finds at the path what
it left there itself: something to remove where it removes, nothing where it binds
(`LoneInstancesServe`). Both are for any number of clients and lives.

`ConfigProofs`: of the levels of a setting at which something that counts is written, one
is looked at first (`FirstIsUnique`), and what is picked depends on nothing else
(`PickedFromOwn`). `OutranksIsBefore` is where the documents meet the code: what has the
higher precedence is looked at earlier, level by level. `OverriddenHasNoEffect` is then
that an entry after one that counts does not move the first, and that all but a mistyped
TOML entry is parsed only if it is picked. `AcceptedSuffices` goes through the three kinds
of provider, and shows that without the API keys every other setting is what it was.

### What is only model-checked

Liveness is out of the prover's reach: `ProcessingEnds`, `RequestIsServed`, `LimitIsEnforced`,
`ShutdownCompletes`, `UtteranceEnds`, `CallReturns`, and what `IpcService` says of waiting and
returning. The two failing runs are counterexamples and need no proof. That the daemon's
view of the segmenter, of a provider call and of an injection is what `Segmentation`,
`ProviderProofs` and `Output` allow is argued in section 2 and not proved.

## 6. Not modelled

What `validate_model_capability` asks of servers, commands and model files before the daemon
serves (it changes nothing; `IpcService` has its two outcomes), the syntax of the env file
and how `env_file_path` chooses it, path templates, sample conversion and the capture streams of cpal,
the texts a client prints, logging. The empty-utterance branch of
`process_samples` is unreachable from the daemon: a capture without samples is an
error, and the buffer and the segmenter hand over nothing empty. The wrap of the
held time after 49 days and the saturation of session ids at 2^64 are out of the
model's bounds.

## 7. Plan

1. A refinement of `Daemon`'s inject and replay steps by `Output`, and of its playback steps by
   the serial caller of `MCPlaybackCoordinator`, so that `InsertedIsOwn` and
   `OnlyOwnPausesResumed` are theorems of the composition.
2. The safety half of the liveness properties: measures that every step of a wait decreases,
   as action properties.
