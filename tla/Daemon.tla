------------------------------- MODULE Daemon -------------------------------
(***************************************************************************)
(* The daemon: the IPC server task (ipc/server.rs), the runtime worker     *)
(* task (main.rs, runtime_pipeline.rs), the command channel between them,  *)
(* the state machine they share behind a mutex, and the playback           *)
(* coordinator the worker drives.                                          *)
(*                                                                         *)
(* A step of a task runs from one await to the next: one locked section,   *)
(* one external call, or one operation on the channel.  Work that touches  *)
(* only the task's own locals is part of the step before or after it.      *)
(***************************************************************************)
EXTENDS StateMachine, Sequences

CONSTANTS
    Players, PlaybackEnabled,
    ChunkFrames,        \* frames the VAD is fed per captured chunk
    MaxTranscripts      \* bound of the model: transcripts told apart

ASSUME TranscriptAssumption ==
    MaxTranscripts \in Nat \ {0} /\ Transcripts = 1 .. MaxTranscripts
ASSUME FramesAssumption == ChunkFrames \in Nat \ {0}

VARIABLES
    queue,              \* runtime_tx -> runtime_rx, unbounded FIFO
    shutdown_sent,      \* the broadcast channel has a message for every subscriber
    s_pc,               \* server task, then the tail of main
    s_transcript,       \* transcript being replayed
    w_pc,               \* runtime worker task
    job,                \* the worker's local variables
    ptt_buffer,
    vad,                \* current_samples of the VadSegmenter
    device,             \* audio_capture: "open" or "absent"; "reopened" or "lost" while
                        \* the state machine has still to be told of the change
    produced,           \* transcripts returned by the provider so far
    player, active_session_id, paused_players, pass   \* PlaybackCoordinator

Playback == INSTANCE PlaybackCoordinator

playbackVars == <<player, active_session_id, paused_players, pass>>
serverVars == <<s_pc, s_transcript, reply>>
workerVars == <<w_pc, job, ptt_buffer, vad, device, produced>>
vars == <<smvars, playbackVars, queue, shutdown_sent, serverVars, workerVars>>

(* Audio is abstracted to its origin: the recording it was captured for, and  *)
(* whether the user had already released the key when its capture began.     *)
Audio == [id: SessionId, late: BOOLEAN]
Live(id) == [id |-> id, late |-> FALSE]
Late(id) == [id |-> id, late |-> TRUE]

RuntimeCommand == [kind: {"Start", "Stop"}, id: SessionId, mode: RecordingMode]

\* Locals of the worker: the recording it works for, the frames of the chunk still
\* to be pushed and their origin, the samples and UtteranceSource of process_samples,
\* the transcript, and where to go on after a playback call.
NoJob == [session |-> 0, frames |-> 0, chunk |-> 0, audio |-> {},
          source |-> "None", transcript |-> 0, next |-> "select"]

-----------------------------------------------------------------------------
(* IPC server: one connection at a time *)

serverRest == <<playbackVars, workerVars>>

\* A command of the user runs on the state machine; its reply is still to be acted on.
UserCommand ==
    /\ s_pc = "accept"
    /\ PttPress(reply') \/ PttRelease(reply') \/ ToggleContinuous(reply')
    /\ s_pc' = "notify"
    /\ UNCHANGED <<s_transcript, queue, shutdown_sent, serverRest>>

NotifyOpenGateOnly(t) ==
    (IF StartRequested(t)
     THEN <<[kind |-> "Start", id |-> t.current.id, mode |-> t.current.mode]>> ELSE <<>>)
    \o
    (IF t.stop_reason = "UserStop"
     THEN <<[kind |-> "Stop", id |-> t.previous.id, mode |-> t.previous.mode]>> ELSE <<>>)

NotifyStopOnly(t) ==
    IF StoppedRecording(t)
    THEN <<[kind |-> "Stop", id |-> t.previous.id, mode |-> t.previous.mode]>> ELSE <<>>

\* notify_runtime; once the worker has stopped receiving, nothing handles the queue.
Notifications(t) ==
    (IF StartRequested(t)
     THEN <<[kind |-> "Start", id |-> t.current.id, mode |-> t.current.mode]>> ELSE <<>>)
    \o
    (IF StoppedRecording(t)
     THEN <<[kind |-> "Stop", id |-> t.previous.id, mode |-> t.previous.mode]>> ELSE <<>>)

\* Notify the worker, then answer; a client that cannot be answered ends the server.
NotifyAndRespond ==
    /\ s_pc = "notify"
    /\ queue' = queue \o Notifications(reply.transition)
    /\ reply' = None
    /\ s_pc' \in {"accept", "closing"}
    /\ UNCHANGED <<smvars, s_transcript, shutdown_sent, serverRest>>

ReplayStart ==
    /\ s_pc = "accept"
    /\ state = "Idle"
    /\ last_transcript # None
    /\ TakeLastTranscript(s_transcript')
    /\ s_pc' = "replaying"
    /\ UNCHANGED <<reply, queue, shutdown_sent, serverRest>>

ReplayDone ==
    /\ s_pc = "replaying"
    /\ \/ SetLastOutputErrorCode(None)
       \/ \E code \in OutputErrors :
             /\ last_transcript' = RestoredTranscript(s_transcript)
             /\ last_output_error_code' = code
             /\ UNCHANGED <<recordingVars, guardrailVars, last_audio_error_code>>
    /\ s_transcript' = None
    /\ s_pc' \in {"accept", "closing"}
    /\ UNCHANGED <<reply, queue, shutdown_sent, serverRest>>

\* The Status command: the reply is written at once.
StatusQuery ==
    /\ s_pc = "accept"
    /\ Status(StatusReply)
    /\ s_pc' \in {"accept", "closing"}
    /\ UNCHANGED <<s_transcript, reply, queue, shutdown_sent, serverRest>>

\* The Shutdown command, and the shutdown arm of the accept loop.
StopServing ==
    /\ s_pc = "accept"
    /\ s_pc' = "closing"
    /\ UNCHANGED <<smvars, s_transcript, reply, queue, shutdown_sent, serverRest>>

-----------------------------------------------------------------------------
(* main: after the server; and the signal task *)

SendShutdown ==
    /\ s_pc = "closing"
    /\ shutdown_sent' = TRUE
    /\ s_pc' = "joining"
    /\ UNCHANGED <<smvars, s_transcript, reply, queue, serverRest>>

ExitWithoutResume ==
    /\ s_pc = "joining" /\ w_pc = "done"
    /\ s_pc' = "exited"
    /\ UNCHANGED <<smvars, s_transcript, reply, queue, shutdown_sent, serverRest>>

OnShutdown ==
    /\ s_pc = "joining" /\ w_pc = "done"
    /\ Playback!BeginShutdownPass
    /\ s_pc' = "resuming"
    /\ UNCHANGED <<smvars, s_transcript, reply, queue, shutdown_sent, workerVars>>

Exit ==
    /\ s_pc = "resuming"
    /\ Playback!EndResumePass
    /\ s_pc' = "exited"
    /\ UNCHANGED <<smvars, s_transcript, reply, queue, shutdown_sent, workerVars>>

Signal ==
    /\ s_pc \in {"accept", "notify", "replaying"}
    /\ ~shutdown_sent
    /\ shutdown_sent' = TRUE
    /\ UNCHANGED <<smvars, serverVars, queue, serverRest>>

-----------------------------------------------------------------------------
(* Worker: the arms of its select, and going from one step to the next *)

othersVars == <<serverVars, shutdown_sent>>

\* The locals are dead once the worker is back at its select.
Continue(pc, j) ==
    /\ w_pc' = pc
    /\ job' = IF pc = "select" THEN NoJob ELSE j

WorkerShutdown ==
    /\ w_pc = "select" /\ shutdown_sent
    /\ w_pc' = "done"
    /\ UNCHANGED <<smvars, playbackVars, queue, job, ptt_buffer, vad, device,
                   produced, othersVars>>

Received(kind, mode) ==
    /\ w_pc = "select"
    /\ queue # <<>>
    /\ Head(queue).kind = kind /\ Head(queue).mode \in mode
    /\ queue' = Tail(queue)

\* on_recording_stopped(id), after which the worker goes on at `next'.
ResumeCall(id, next, j) ==
    \/ /\ Playback!NotOwner(id)
       /\ Continue(next, j)
       /\ UNCHANGED playbackVars
    \/ /\ Playback!BeginResumePass(id)
       /\ Continue("resuming", [j EXCEPT !.next = next])

PlaybackCommandEnds(p) ==
    /\ Playback!PlayerCommandEnds(p)
    /\ UNCHANGED <<smvars, queue, workerVars, othersVars>>

ResumeReturns ==
    /\ w_pc = "resuming"
    /\ Playback!EndResumePass
    /\ Continue(job.next, job)
    /\ UNCHANGED <<smvars, queue, ptt_buffer, vad, device, produced, othersVars>>

-----------------------------------------------------------------------------
(* handle_runtime_command *)

OnStartRequested ==
    /\ Received("Start", RecordingMode)
    /\ LET j == [NoJob EXCEPT !.session = Head(queue).id]
       IN  \/ /\ Playback!AlreadyStarted(j.session)
              /\ Continue("open_gate", j)
              /\ UNCHANGED playbackVars
           \/ /\ Playback!BeginPausePass(j.session)
              /\ Continue("pausing", j)
    /\ UNCHANGED <<smvars, ptt_buffer, vad, device, produced, othersVars>>

PauseReturns ==
    /\ w_pc = "pausing"
    /\ Playback!EndPausePass
    /\ Continue("open_gate", job)
    /\ UNCHANGED <<smvars, queue, ptt_buffer, vad, device, produced, othersVars>>

OpenGate ==
    /\ w_pc = "open_gate"
    /\ \E out \in {Unchanged, [Unchanged EXCEPT !.current.phase = "Active"]} :
          MarkCapturePermitted(job.session, out)
    /\ Continue("select", job)
    /\ UNCHANGED <<playbackVars, queue, ptt_buffer, vad, device, produced,
                   othersVars>>

OnContinuousStopRequested ==
    /\ Received("Stop", {"Continuous"})
    /\ ResumeCall(Head(queue).id, "select", NoJob)
    /\ UNCHANGED <<smvars, ptt_buffer, vad, device, produced, othersVars>>

ResumeBeforeFallback(id, j) == ResumeCall(id, "capture_fallback", j)

\* With nothing buffered the audio is captured now, before the players are resumed.
CollectByFallback(id, j) == Continue("capture_fallback", j) /\ UNCHANGED playbackVars

\* handle_push_to_talk_stop: what it does depends on what the release left for it.
OnPushToTalkStopRequested ==
    /\ Received("Stop", {"PushToTalk"})
    /\ LET id == Head(queue).id
           j  == [NoJob EXCEPT !.session = id, !.source = "PushToTalk"]
       IN  \E out \in {pending_ptt_capture, NoPending} :
              /\ TakePendingPttCapture(id, out)
              /\ \/ /\ out = NoPending
                    /\ Continue("select", NoJob)
                    /\ UNCHANGED <<playbackVars, ptt_buffer>>
                 \/ /\ out.kind = "Cancelled"
                    /\ ResumeCall(id, "finish", j)
                    /\ UNCHANGED ptt_buffer
                 \/ /\ out.kind = "Capture" /\ ptt_buffer # {}
                    /\ ResumeCall(id, "rate_gate", [j EXCEPT !.audio = ptt_buffer])
                    /\ ptt_buffer' = {}
                 \/ /\ out.kind = "Capture" /\ ptt_buffer = {}
                    /\ CollectByFallback(id, j)
                    /\ UNCHANGED ptt_buffer
    /\ UNCHANGED <<vad, device, produced, othersVars>>

FinishesProcessing ==
    /\ w_pc = "finish"
    /\ FinishProcessing
    /\ Continue("select", job)
    /\ UNCHANGED <<playbackVars, queue, ptt_buffer, vad, device, produced,
                   othersVars>>

-----------------------------------------------------------------------------
(* capture_audio: a lost handle is reopened first.  The handle is behind a    *)
(* lock of its own: it is stored or dropped in one section and the error code *)
(* of the status payload set in another, and the server may run between.      *)

Capturing == w_pc \in {"capture_ptt", "capture_continuous", "capture_fallback"}
captureRest == <<playbackVars, queue, w_pc, job, ptt_buffer, vad, produced, othersVars>>

ReopenIsNotReported ==
    /\ Capturing /\ device = "absent"
    /\ device' = "open"
    /\ UNCHANGED <<smvars, captureRest>>

ReopenDevice ==
    /\ Capturing /\ device = "absent"
    /\ device' = "reopened"
    /\ UNCHANGED <<smvars, captureRest>>

ReportRecovery ==
    /\ Capturing /\ device = "reopened"
    /\ device' = "open"
    /\ SetLastAudioErrorCode(None)
    /\ UNCHANGED captureRest

\* A recoverable input failure: the handle is dropped before the error code is set.
LoseDevice ==
    /\ Capturing /\ device = "open"
    /\ device' = "lost"
    /\ UNCHANGED <<smvars, captureRest>>

CaptureSucceeds == device = "open" /\ UNCHANGED device /\ SetLastAudioErrorCode(None)

\* The handle cannot be reopened or was dropped; or an error reopening cannot help.
CaptureFails ==
    \/ /\ device \in {"absent", "lost"} /\ device' = "absent"
       /\ \E code \in AudioErrors : SetLastAudioErrorCode(code)
    \/ device \in {"absent", "open"} /\ UNCHANGED <<smvars, device>>

FallbackCapture ==
    /\ w_pc = "capture_fallback"
    /\ \/ /\ CaptureSucceeds
          /\ ResumeCall(job.session, "rate_gate", [job EXCEPT !.audio = {Late(job.session)}])
       \/ CaptureFails /\ ResumeCall(job.session, "finish", job)
    /\ UNCHANGED <<queue, ptt_buffer, vad, produced, othersVars>>

PushToTalkCapture ==
    /\ w_pc = "capture_ptt"
    /\ \/ CaptureSucceeds /\ ptt_buffer' = ptt_buffer \cup {Live(job.session)}
       \/ CaptureFails /\ UNCHANGED ptt_buffer
    /\ Continue("select", job)
    /\ UNCHANGED <<playbackVars, queue, vad, produced, othersVars>>

ContinuousCapture ==
    /\ w_pc = "capture_continuous"
    /\ \/ /\ CaptureSucceeds
          /\ Continue("frames", [job EXCEPT !.chunk = job.session, !.frames = ChunkFrames])
       \/ CaptureFails /\ Continue("select", job)
    /\ UNCHANGED <<playbackVars, queue, ptt_buffer, vad, produced, othersVars>>

-----------------------------------------------------------------------------
(* run_runtime_tick *)

RecordingIn(st) == state = st /\ IsRecordingActive

TickWithoutLimit ==
    /\ w_pc = "select"
    /\ \/ RecordingIn("PushToTalkActive") /\ Continue("recheck_ptt", NoJob)
       \/ RecordingIn("ContinuousActive") /\ Continue("recheck_continuous", NoJob)
    /\ UNCHANGED <<smvars, playbackVars, queue, ptt_buffer, vad, device,
                   produced, othersVars>>

TickWhileRecording ==
    /\ w_pc = "select"
    /\ \/ RecordingIn("PushToTalkActive") /\ Continue("recheck_ptt", NoJob)
       \/ RecordingIn("ContinuousActive") /\ Continue("enforce", NoJob)
    /\ UNCHANGED <<smvars, playbackVars, queue, ptt_buffer, vad, device,
                   produced, othersVars>>

TickKeepsBuffer ==
    /\ w_pc = "select"
    /\ ~RecordingIn("PushToTalkActive") /\ ~RecordingIn("ContinuousActive")
    /\ vad' = {}
    /\ IF vad = {} THEN Continue("select", NoJob)
       ELSE Continue("rate_gate", [NoJob EXCEPT !.audio = vad, !.source = "Continuous"])
    /\ UNCHANGED <<smvars, playbackVars, queue, ptt_buffer, device, produced, othersVars>>

\* With no open gate the tick drops buffered push-to-talk audio and flushes the VAD.
TickWhileNotRecording ==
    /\ w_pc = "select"
    /\ ~RecordingIn("PushToTalkActive") /\ ~RecordingIn("ContinuousActive")
    /\ ptt_buffer' = {}
    /\ vad' = {}
    /\ IF vad = {} THEN Continue("select", NoJob)
       ELSE Continue("rate_gate", [NoJob EXCEPT !.audio = vad, !.source = "Continuous"])
    /\ UNCHANGED <<smvars, playbackVars, queue, device, produced, othersVars>>

\* The lock was released since the tick looked: look again before capturing.
Recheck ==
    /\ \/ /\ w_pc = "recheck_ptt"
          /\ IF RecordingIn("PushToTalkActive")
             THEN Continue("capture_ptt", [NoJob EXCEPT !.session = recording_session.id])
             ELSE Continue("select", NoJob)
       \/ /\ w_pc = "recheck_continuous"
          /\ IF RecordingIn("ContinuousActive")
             THEN Continue("capture_continuous",
                           [NoJob EXCEPT !.session = recording_session.id])
             ELSE Continue("select", NoJob)
    /\ UNCHANGED <<smvars, playbackVars, queue, ptt_buffer, vad, device,
                   produced, othersVars>>

LimitStop == [session |-> recording_session, reason |-> "ContinuousLimitExceeded"]

EnforceLimit ==
    /\ w_pc = "enforce"
    /\ \E out \in {NotStopped, LimitStop} :
          /\ EnforceContinuousLimit(out)
          /\ IF out = NotStopped THEN Continue("recheck_continuous", NoJob)
             ELSE Continue("limit_stopped", [NoJob EXCEPT !.session = out.session.id])
    /\ UNCHANGED <<playbackVars, queue, ptt_buffer, vad, device, produced,
                   othersVars>>

LimitStoppedStaysPaused ==
    /\ w_pc = "limit_stopped"
    /\ Continue("select", NoJob)
    /\ UNCHANGED <<smvars, playbackVars, queue, ptt_buffer, vad, device, produced,
                   othersVars>>

LimitStopped ==
    /\ w_pc = "limit_stopped"
    /\ ResumeCall(job.session, "select", NoJob)
    /\ UNCHANGED <<smvars, queue, ptt_buffer, vad, device, produced, othersVars>>

-----------------------------------------------------------------------------
(* VadSegmenter::push_frame on the next frame of the chunk *)

NextFrameOffByOne(emitted, j) ==
    IF emitted # {} THEN Continue("rate_gate", [j EXCEPT !.audio = emitted,
                                                         !.source = "Continuous"])
    ELSE Continue(IF j.frames < 0 THEN "select" ELSE "frames", j)

NextFrame(emitted, j) ==
    IF emitted # {} THEN Continue("rate_gate", [j EXCEPT !.audio = emitted,
                                                         !.source = "Continuous"])
    ELSE Continue(IF j.frames = 0 THEN "select" ELSE "frames", j)

PushFrame ==
    /\ w_pc = "frames"
    /\ LET rest == [job EXCEPT !.frames = @ - 1]
       IN  \/ vad = {} /\ vad' = {} /\ NextFrame({}, rest)                \* silence
          \/ /\ vad' = vad \cup {Live(job.chunk)}                      \* speech begins or goes on
             /\ NextFrame({}, rest)
          \/ /\ vad # {} /\ vad' = {}                                   \* the utterance ends
             /\ NextFrame(vad \cup {Live(job.chunk)}, rest)
    /\ UNCHANGED <<smvars, playbackVars, queue, ptt_buffer, device, produced,
                   othersVars>>

-----------------------------------------------------------------------------
(* runtime_pipeline::process_samples *)

pipelineRest == <<queue, ptt_buffer, vad, device, othersVars>>

AfterUtteranceUnfinished == IF job.frames = 0 THEN "select" ELSE "frames"

\* A push-to-talk utterance ends with finish_processing, on every path; a continuous
\* one returns to the frames of its chunk.
AfterUtterance ==
    IF job.source = "PushToTalk" THEN "finish"
    ELSE IF job.frames = 0 THEN "select" ELSE "frames"

RateGate ==
    /\ w_pc = "rate_gate"
    /\ \/ /\ MarkTranscriptionRequest("Accepted")
          /\ Continue("provider", job)
       \/ /\ \E e \in {"CooldownActive", "RateLimitExceeded", "SoftSpendLimitReached"} :
                MarkTranscriptionRequest(e)
          /\ Continue(AfterUtterance, [job EXCEPT !.audio = {}])
    /\ UNCHANGED <<playbackVars, produced, pipelineRest>>

ProviderSucceeds ==
    /\ w_pc = "provider"
    /\ AddSoftSpend
    /\ produced' = Capped(produced + 1, MaxTranscripts)
    /\ Continue("inject", [job EXCEPT !.audio = {}, !.transcript = produced'])
    /\ UNCHANGED <<playbackVars, pipelineRest>>

ProviderFails ==
    /\ w_pc = "provider"
    /\ \E retryable \in BOOLEAN :
          Continue(IF retryable THEN "cooldown" ELSE AfterUtterance,
                   [job EXCEPT !.audio = {}])
    /\ UNCHANGED <<smvars, playbackVars, produced, pipelineRest>>

CooldownStop == [session |-> recording_session, reason |-> "ProviderCooldown"]

ProviderCooldown ==
    /\ w_pc = "cooldown"
    /\ \E out \in {NotStopped, CooldownStop} :
          /\ SetProviderErrorCooldown(out)
          /\ Continue("cooled_down", [job EXCEPT !.session = out.session.id])
    /\ UNCHANGED <<playbackVars, produced, pipelineRest>>

\* The pause is undone for the recording the cooldown stopped, if it stopped one.
CooledDown ==
    /\ w_pc = "cooled_down"
    /\ IF job.session = 0
       THEN Continue(AfterUtterance, job) /\ UNCHANGED playbackVars
       ELSE ResumeCall(job.session, AfterUtterance, job)
    /\ UNCHANGED <<smvars, produced, pipelineRest>>

Inject ==
    /\ w_pc = "inject"
    /\ \/ UNCHANGED smvars
       \/ \E code \in OutputErrors : SetLastTranscriptWithError(job.transcript, code)
    /\ Continue(AfterUtterance, [job EXCEPT !.transcript = 0])
    /\ UNCHANGED <<playbackVars, produced, pipelineRest>>

-----------------------------------------------------------------------------
TimePasses ==
    /\ Elapse
    /\ UNCHANGED <<playbackVars, queue, shutdown_sent, serverVars, workerVars>>

Terminated == s_pc = "exited" /\ UNCHANGED vars

Init ==
    /\ SMInit
    /\ Playback!PlaybackInit
    /\ queue = <<>> /\ shutdown_sent = FALSE
    /\ s_pc = "accept" /\ s_transcript = None
    /\ w_pc = "select" /\ job = NoJob
    /\ ptt_buffer = {} /\ vad = {}
    /\ device = IF last_audio_error_code = None THEN "open" ELSE "absent"
    /\ produced = 0

ServerStep == UserCommand \/ NotifyAndRespond \/ StatusQuery
              \/ ReplayStart \/ ReplayDone \/ StopServing
MainStep   == SendShutdown \/ OnShutdown \/ Exit \/ Signal

ReceiveCommand == OnStartRequested \/ OnContinuousStopRequested \/ OnPushToTalkStopRequested
Tick           == TickWhileRecording \/ TickWhileNotRecording
DeviceChange   == ReopenDevice \/ ReportRecovery \/ LoseDevice
Pipeline       == RateGate \/ ProviderSucceeds \/ ProviderFails \/ ProviderCooldown
                  \/ CooledDown \/ Inject
\* What the worker does between two selects.
WorkerRun == PauseReturns \/ OpenGate \/ ResumeReturns \/ FinishesProcessing
             \/ DeviceChange \/ FallbackCapture \/ PushToTalkCapture \/ ContinuousCapture
             \/ Recheck \/ EnforceLimit \/ LimitStopped \/ PushFrame \/ Pipeline
WorkerStep == WorkerShutdown \/ ReceiveCommand \/ Tick \/ WorkerRun

Next == ServerStep \/ MainStep \/ WorkerStep
        \/ (\E p \in Players : PlaybackCommandEnds(p))
        \/ TimePasses \/ Terminated

SafeSpec == Init /\ [][Next]_vars

(* Fairness.  Both select! loops poll their ready arms in random order, so an  *)
(* arm that is ready again and again is taken (SF).  Between two selects a task *)
(* runs on: playerctl and the provider have timeouts, capture is for a fixed    *)
(* time, and wl-copy and wtype are assumed to end (WF).  Clients are not fair:  *)
(* no command needs ever come.                                                  *)
Fairness ==
    /\ WF_vars(NotifyAndRespond \/ ReplayDone)
    /\ SF_vars(StopServing /\ shutdown_sent)
    /\ WF_vars(SendShutdown \/ OnShutdown \/ Exit)
    /\ SF_vars(WorkerShutdown) /\ SF_vars(ReceiveCommand) /\ SF_vars(Tick)
    /\ WF_vars(WorkerRun)
    /\ WF_vars(\E p \in Players : PlaybackCommandEnds(p))
    /\ WF_vars(TimePasses)

Spec == SafeSpec /\ Fairness

-----------------------------------------------------------------------------
(* Properties *)

\* The worker's program counter, its locals and the queue hold what the code can.
DaemonTypeOK ==
    /\ TypeOK /\ Playback!PlaybackTypeOK
    /\ queue \in Seq(RuntimeCommand) /\ shutdown_sent \in BOOLEAN
    /\ s_pc \in {"accept", "notify", "replaying", "closing", "joining", "resuming", "exited"}
    /\ s_transcript \in Transcripts \cup {None}
    /\ w_pc \in {"select", "done", "pausing", "open_gate", "resuming", "finish",
                "capture_fallback", "capture_ptt", "capture_continuous", "recheck_ptt",
                "recheck_continuous", "enforce", "limit_stopped", "frames", "rate_gate",
                "provider", "cooldown", "cooled_down", "inject"}
    /\ job.session \in 0 .. MaxSessions /\ job.chunk \in 0 .. MaxSessions
    /\ job.frames \in 0 .. ChunkFrames /\ job.audio \subseteq Audio
    /\ job.transcript \in 0 .. MaxTranscripts
    /\ ptt_buffer \subseteq Audio /\ vad \subseteq Audio
    /\ device \in {"open", "absent", "reopened", "lost"} /\ produced \in 0 .. MaxTranscripts

\* Whenever the microphone is on, the pause pass of that very recording is complete
\* and has not begun to be undone: no capture before the gate (AC 1), no resume
\* before the capture is complete (AC 2).  And while a gate is open the coordinator
\* owns the pause of that recording and of no other, up to the shutdown pass.
CaptureBehindGate ==
    /\ Capturing => active_session_id = job.session /\ pass = Playback!NoPass
    /\ IsRecordingActive /\ s_pc \notin {"resuming", "exited"} =>
          active_session_id = recording_session.id

\* A push-to-talk utterance holds audio of its own recording only.
PttUtteranceIsOwn ==
    job.source = "PushToTalk" /\ w_pc \in {"resuming", "rate_gate", "provider"} =>
        \A a \in job.audio : a.id = job.session

InFlight(kind, id) ==
    \/ \E i \in DOMAIN queue : queue[i].kind = kind /\ queue[i].id = id
    \/ /\ s_pc = "notify"
       /\ \E i \in DOMAIN Notifications(reply.transition) :
             /\ Notifications(reply.transition)[i].kind = kind
             /\ Notifications(reply.transition)[i].id = id

\* Every wait has somebody who will end it: a requested recording has its Start
\* command on the way or in the worker's hands, and Processing has either the Stop
\* command of the pending utterance on the way or a push-to-talk job in the worker.
EveryWaitHasAnOwner ==
    /\ recording_session.phase = "StartPending" =>
          \/ InFlight("Start", recording_session.id)
          \/ w_pc \in {"pausing", "open_gate"} /\ job.session = recording_session.id
    /\ state = "Processing" =>
          \/ pending_ptt_capture # NoPending /\ InFlight("Stop", pending_ptt_capture.session_id)
          \/ job.source = "PushToTalk"

HasHandle == device \in {"open", "reopened"}

\* The status payload reports an audio error exactly while the worker has no handle,
\* but for one window: a status served inside the capture that changed the handle,
\* before that capture takes the state's lock to say so.  No capture ends in the
\* window, so what it leaves behind is never stale.
AudioErrorIsCurrent ==
    \/ HasHandle <=> last_audio_error_code = None
    \/ Capturing /\ device \in {"reopened", "lost"}

\* The soft limit is checked before a request and its cost added after it; one worker
\* makes all requests, so the limit is overshot by less than one request.
SpendOvershootBounded ==
    SpendLimit # Unset /\ ~AllowOverLimit => monthly_spend < SpendLimit + RequestCost

\* A retained transcript is never replaced by an older one: a replay that fails puts
\* its transcript back only if the worker has not retained a newer one meanwhile.
NewestTranscriptKept ==
    [][last_transcript # None /\ last_transcript' # None =>
          last_transcript' >= last_transcript]_vars

Quiescent == s_pc = "accept" /\ w_pc = "select" /\ queue = <<>>

\* tech-spec AC 4, integration-architecture item 7: once no recording is on and no
\* command is left to handle, sttd holds no player paused.
NoPauseLeftBehind ==
    Quiescent /\ recording_session = NoSession => paused_players = {}

\* state.rs:235, "utterance queued": audio captured for a push-to-talk recording is
\* still in the buffer when the worker gets to the released utterance.
QueuedUtteranceKept ==
    [][\A id \in SessionId :
          pending_ptt_capture.session_id = id /\ Live(id) \in ptt_buffer =>
             Live(id) \in ptt_buffer' \/ pending_ptt_capture' = NoPending]_vars

\* A released utterance is not left in Processing for ever.
ProcessingEnds == state = "Processing" ~> (state # "Processing" \/ w_pc = "done")

\* A requested recording gets its gate, is ended, or the daemon stops.  (One request is
\* never replaced by the next without a state between them.)
RequestIsServed ==
    recording_session.phase = "StartPending"
        ~> (recording_session.phase # "StartPending" \/ w_pc = "done")

\* A continuous recording over its time limit is stopped.
LimitIsEnforced == ContinuousLimitExceeded ~> (~ContinuousLimitExceeded \/ w_pc = "done")

\* A shutdown request or signal leads to the exit, with every tracked player's resume
\* tried (AC 8).
ShutdownCompletes ==
    (shutdown_sent \/ s_pc = "closing") ~> (s_pc = "exited" /\ paused_players = {})
=============================================================================
