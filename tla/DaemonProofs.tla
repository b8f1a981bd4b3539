---------------------------- MODULE DaemonProofs ----------------------------
(***************************************************************************)
(* Proofs about the daemon: its server, its worker and the playback of     *)
(* any number of players, over any number of recordings.                   *)
(*                                                                         *)
(* The invariant DaemonInv is a conjunction of parts that need each other. *)
(* JobOK says what the worker's locals are at each of its steps, PassOK    *)
(* who is calling the coordinator.  CommandsOK says where the command is   *)
(* that each state of the state machine waits for; it holds because ids    *)
(* are never used twice and the channel keeps its order.  From these,      *)
(* WantedOK: while audio of a recording is wanted, the coordinator owns    *)
(* the pause of that recording.                                            *)
(***************************************************************************)
EXTENDS MCDaemon, StateMachineProofs, SequenceTheorems

-----------------------------------------------------------------------------
(* The inductive invariant, part by part.                                   *)

\* The locals of the worker, and the steps it and the server can be at.
Jobs == [session: 0 .. MaxSessions, frames: 0 .. ChunkFrames, chunk: 0 .. MaxSessions,
         audio: SUBSET Audio, source: {"None", "PushToTalk", "Continuous"},
         transcript: 0 .. MaxTranscripts, next: {"select", "finish", "rate_gate", "frames"}]

ServerPcs == {"accept", "notify", "replaying", "closing", "joining", "resuming", "exited"}

WorkerPcs == {"select", "done", "pausing", "open_gate", "resuming", "finish",
              "capture_fallback", "capture_ptt", "capture_continuous", "recheck_ptt",
              "recheck_continuous", "enforce", "limit_stopped", "frames", "rate_gate",
              "provider", "cooldown", "cooled_down", "inject"}

PipelinePcs == {"rate_gate", "provider", "cooldown", "cooled_down", "inject"}

\* Where the worker is says what its locals hold: what it works for, where it goes on.
JobOK ==
    /\ job \in Jobs /\ w_pc \in WorkerPcs
    /\ w_pc \in {"select", "done"} => job = NoJob
    /\ w_pc \in {"pausing", "open_gate"} =>
          job.session # 0 /\ job = [NoJob EXCEPT !.session = job.session]
    /\ w_pc \in {"limit_stopped", "capture_ptt", "capture_continuous", "capture_fallback"} =>
          job.session # 0
    /\ w_pc \in {"finish", "capture_fallback"} => job.source = "PushToTalk"
    /\ w_pc \in PipelinePcs => job.source # "None"
    /\ job.source = "PushToTalk" =>
          /\ w_pc \in PipelinePcs \cup {"resuming", "finish", "capture_fallback"}
          /\ job.frames = 0
    /\ w_pc = "resuming" =>
          \/ job.source = "PushToTalk" /\ job.next = "rate_gate"
          \/ job.source = "PushToTalk" /\ job.next = "finish" /\ job.audio = {}
          \/ job.source # "PushToTalk" /\ job.next = "select" /\ job.audio = {}
          \/ job.source # "PushToTalk" /\ job.next = "frames" /\ job.audio = {}
             /\ job.frames > 0
    /\ w_pc = "frames" => job.frames > 0
    /\ job.frames > 0 => job.chunk # 0
    /\ w_pc \notin {"rate_gate", "provider", "resuming"} => job.audio = {}

DeviceStates == {"open", "absent", "reopened", "lost"}

\* Outside the worker's locals: the queue, the buffers, what a replay has taken.
StorageOK ==
    /\ queue \in Seq(RuntimeCommand) /\ shutdown_sent \in BOOLEAN
    /\ s_pc \in ServerPcs
    /\ s_pc = "notify" => Notifications(reply.transition) \in Seq(RuntimeCommand)
    /\ s_transcript \in IF s_pc = "replaying" THEN Transcripts ELSE {None}
    /\ ptt_buffer \subseteq Audio /\ vad \subseteq Audio
    /\ device \in DeviceStates /\ produced \in 0 .. MaxTranscripts

\* One call to the coordinator at a time: the worker's, or main's once the worker is done.
PassOK ==
    /\ Playback!PlaybackTypeOK
    /\ pass # Playback!NoPass =>
          w_pc \in {"pausing", "resuming"} \/ s_pc = "resuming"
    /\ w_pc = "pausing" => pass.action = "pause" /\ pass.session = job.session
    /\ w_pc = "resuming" \/ s_pc = "resuming" => pass.action = "play"
    /\ s_pc \in {"resuming", "exited"} => w_pc = "done"
    /\ w_pc = "open_gate" => active_session_id = job.session
    /\ Playback!PausedOnlyUnderOwner
    /\ pass.action = "pause" => paused_players = {}

\* The worker works on the newest transcript; what is kept or replayed is no newer.
TranscriptOK ==
    /\ last_transcript # None => last_transcript <= produced
    /\ s_transcript # None => s_transcript <= produced
    /\ w_pc = "inject" => job.transcript = produced /\ produced > 0

\* The daemon's commands to the worker: handled next are those in the queue, then
\* those of the reply the server is about to send.
Commands == IF s_pc = "notify" THEN queue \o Notifications(reply.transition) ELSE queue

Sent(kind, id) ==
    \E i \in 1 .. Len(Commands) : Commands[i].kind = kind /\ Commands[i].id = id

Newest == Commands[Len(Commands)]

NewestIs(kind, id) == Commands # <<>> /\ Newest.kind = kind /\ Newest.id = id

\* The worker is between a Start command and the gate.
Starting == w_pc \in {"pausing", "open_gate"}

\* An utterance whose gate was open when the key was released.
Held == pending_ptt_capture.kind = "Capture"

\* Every command is sent once, and what the state machine waits for was sent last: the
\* Start of a requested recording (or the worker has just received it), the Stop of an
\* utterance in Processing.  While a gate is open there is nothing left to handle.
CommandsOK ==
    /\ \A i \in 1 .. Len(Commands) : Commands[i].id < next_recording_session_id
    /\ \A i, j \in 1 .. Len(Commands) :
          Commands[i].kind = Commands[j].kind /\ Commands[i].id = Commands[j].id => i = j
    /\ Starting => job.session < next_recording_session_id /\ ~Sent("Start", job.session)
    /\ recording_session # NoSession => ~Sent("Stop", recording_session.id)
    /\ recording_session.phase = "StartPending" =>
          \/ NewestIs("Start", recording_session.id)
          \/ Starting /\ job.session = recording_session.id /\ Commands = <<>>
    /\ IsRecordingActive => Commands = <<>>
    /\ pending_ptt_capture # NoPending =>
          NewestIs("Stop", pending_ptt_capture.session_id) /\ Newest.mode = "PushToTalk"
    /\ Held => Len(Commands) = 1

\* Audio of a recording is wanted: the gate is open, or the utterance is held.
Wanted == IsRecordingActive \/ Held

WantedId == IF IsRecordingActive THEN recording_session.id ELSE pending_ptt_capture.session_id

PushToTalkWanted == Held \/ (IsRecordingActive /\ recording_session.mode = "PushToTalk")

\* The server has joined the worker.
ShutDown == s_pc \in {"resuming", "exited"}

\* As long as audio of a recording is wanted, its gate being open or its utterance still
\* to be collected, the coordinator owns the pause of that recording, the worker is about
\* nothing that ends a pause, and what is buffered is audio of that recording.
WantedOK ==
    /\ Wanted =>
          /\ w_pc \notin {"pausing", "open_gate", "limit_stopped", "cooled_down",
                          "capture_fallback", "resuming"}
          /\ job.source # "PushToTalk"
          /\ ~ShutDown => active_session_id = WantedId
    /\ Capturing => active_session_id = job.session
    /\ w_pc = "capture_ptt" => PushToTalkWanted /\ WantedId = job.session
    /\ ptt_buffer # {} =>
          /\ w_pc \in {"select", "done", "recheck_ptt", "capture_ptt"}
          /\ PushToTalkWanted
          /\ \A a \in ptt_buffer : a = Live(WantedId)

\* A released utterance is pending, or the worker has it.
ProcessingOK == state = "Processing" => \/ pending_ptt_capture # NoPending
                                        \/ job.source = "PushToTalk"

\* With a limit that holds, a request is made below it.
SpendOK == SpendLimit # Unset /\ ~AllowOverLimit =>
    /\ monthly_spend < SpendLimit + RequestCost
    /\ w_pc = "provider" => monthly_spend < SpendLimit

\* What holds in every state of the daemon.
DaemonInv ==
    /\ IInv /\ StorageOK /\ JobOK /\ PassOK
    /\ CommandsOK /\ WantedOK /\ ProcessingOK
    /\ PttUtteranceIsOwn /\ AudioErrorIsCurrent /\ TranscriptOK /\ SpendOK

\* What is wanted, being captured or pushed frame by frame is of recordings whose gate was
\* opened, and so is all the audio there is.
OpenedOK ==
    /\ Wanted => WantedId \in opened
    /\ Capturing => job.session \in opened
    /\ job.frames > 0 => job.chunk \in opened
    /\ CancelledIsNeverCaptured

\* Who will undo the pause of a recording: the recording that is on, which ends with a
\* Stop command, or that command on its way.
Remembered(id) == recording_session.id = id \/ Sent("Stop", id)

\* The worker is about to undo the pause of the recording it works for.
StopsOwner == w_pc \in {"limit_stopped", "capture_fallback"}

\* Apart from cooldowns, the owner of a pause is remembered until the worker is about to
\* undo it, and so is every recording the worker may yet pause for: its Stop comes after
\* its Start.  The Stop of a push-to-talk recording finds its utterance pending.
OwnerOK ==
    /\ active_session_id # 0 =>
          Remembered(active_session_id) \/ (StopsOwner /\ job.session = active_session_id)
    /\ \A id \in SessionId : Sent("Start", id) => Remembered(id)
    /\ Starting => Remembered(job.session)
    /\ \A i \in 1 .. Len(Commands) :
          Commands[i].kind = "Stop" /\ Commands[i].mode = "PushToTalk" =>
             Commands[i].id = pending_ptt_capture.session_id
    /\ job.source = "PushToTalk" => pending_ptt_capture = NoPending /\ state = "Processing"
    /\ \A i, j \in 1 .. Len(Commands) :
          Commands[i].kind = "Start" /\ Commands[j].kind = "Stop"
             /\ Commands[i].id = Commands[j].id => i < j

-----------------------------------------------------------------------------
(* What a step leaves alone.                                                *)

\* Whoever is not the worker.
OthersStep == ServerStep \/ MainStep \/ TimePasses \/ Terminated
              \/ \E p \in Players : PlaybackCommandEnds(p)

\* The worker's locals, its buffers and the handle are its own.
LEMMA OthersLeaveWorker ==
  ASSUME OthersStep
  PROVE  UNCHANGED workerVars
BY DEF OthersStep, ServerStep, MainStep, UserCommand, NotifyAndRespond, StatusQuery,
       ReplayStart, ReplayDone, StopServing, SendShutdown, OnShutdown, Exit, Signal,
       TimePasses, Terminated, PlaybackCommandEnds, serverRest, vars

\* Inside capture_audio the handle changes first; then the state machine hears of it.
LEMMA DeviceChangeLeaves ==
  DeviceChange =>
      /\ Capturing /\ device' \in DeviceStates
      /\ UNCHANGED <<recordingVars, guardrailVars, last_transcript, last_output_error_code>>
      /\ last_audio_error_code' \in {last_audio_error_code, None}
      /\ UNCHANGED <<playbackVars, queue, w_pc, job, ptt_buffer, vad, produced, othersVars>>
BY DEF DeviceChange, ReopenDevice, ReportRecovery, LoseDevice, captureRest, DeviceStates,
       SetLastAudioErrorCode, smvars, outputVars

\* The steps that may call the state machine, or have time pass for it.
LEMMA StateMachineCalls ==
  ASSUME Next
  PROVE  \/ UNCHANGED smvars
         \/ UserCommand \/ StatusQuery \/ ReplayStart \/ ReplayDone \/ TimePasses
         \/ DeviceChange \/ FallbackCapture \/ PushToTalkCapture \/ ContinuousCapture
         \/ OpenGate \/ OnPushToTalkStopRequested \/ FinishesProcessing \/ EnforceLimit
         \/ RateGate \/ ProviderSucceeds \/ ProviderCooldown \/ Inject
<1>1. CASE NotifyAndRespond \/ StopServing \/ MainStep \/ Terminated
           \/ \E p \in Players : PlaybackCommandEnds(p)
  BY <1>1 DEF NotifyAndRespond, StopServing, MainStep, SendShutdown, OnShutdown, Exit,
       Signal, Terminated, PlaybackCommandEnds, vars
<1>2. CASE WorkerShutdown \/ Tick \/ PauseReturns \/ ResumeReturns \/ OnStartRequested
           \/ OnContinuousStopRequested \/ Recheck \/ LimitStopped \/ PushFrame
           \/ ProviderFails \/ CooledDown
  BY <1>2 DEF WorkerShutdown, Tick, TickWhileRecording, TickWhileNotRecording, PauseReturns,
       ResumeReturns, OnStartRequested, OnContinuousStopRequested, Recheck, LimitStopped,
       PushFrame, ProviderFails, CooledDown
<1> QED
  BY <1>1, <1>2
     DEF Next, ServerStep, WorkerStep, WorkerRun, ReceiveCommand, Pipeline

-----------------------------------------------------------------------------

\* The locals of a worker that begins an utterance.
LEMMA JobBegins ==
  ASSUME NEW j \in Jobs, NEW n \in 0 .. MaxSessions,
         NEW src \in {"None", "PushToTalk", "Continuous"}
  PROVE  LET k == [j EXCEPT !.session = n, !.source = src]
         IN  /\ k \in Jobs /\ k.session = n /\ k.source = src
             /\ k.frames = j.frames /\ k.chunk = j.chunk /\ k.audio = j.audio
BY DEF Jobs

\* The locals at the select.
LEMMA NoJobOK ==
  /\ NoJob \in Jobs
  /\ NoJob = [session |-> 0, frames |-> 0, chunk |-> 0, audio |-> {},
              source |-> "None", transcript |-> 0, next |-> "select"]
BY BoundAssumption, FramesAssumption, TranscriptAssumption DEF NoJob, Jobs

\* Where the worker goes on when an utterance is done with.
LEMMA AfterUtteranceOK ==
  ASSUME JobOK, w_pc \in PipelinePcs
  PROVE  \/ job.source = "PushToTalk" /\ AfterUtterance = "finish"
         \/ job.source = "Continuous" /\ AfterUtterance = "select" /\ job.frames = 0
         \/ job.source = "Continuous" /\ AfterUtterance = "frames" /\ job.frames > 0
BY FramesAssumption DEF JobOK, Jobs, AfterUtterance

\* The recording a step reads its id from has one of the ids, or none.
SessionIdType == recording_session.id \in 0 .. MaxSessions

\* The types of the state machine give it.
LEMMA SessionIdTyped ==
  ASSUME IInv
  PROVE  SessionIdType
BY BoundAssumption DEF IInv, TypeOK, RecordingTypeOK, RecordingSession, NoSession, SessionId,
                       SessionIdType

\* The command the worker receives is one the server sent.
LEMMA HeadTyped ==
  ASSUME queue \in Seq(RuntimeCommand), queue # <<>>
  PROVE  Head(queue) \in RuntimeCommand /\ Head(queue).id \in SessionId
<1>1. Head(queue) \in RuntimeCommand
  OBVIOUS
<1> QED
  BY <1>1 DEF RuntimeCommand

\* Every step of the worker leaves its locals as the next one needs them.
LEMMA JobStep ==
  ASSUME JobOK, IInv, queue \in Seq(RuntimeCommand), ptt_buffer \subseteq Audio,
         vad \subseteq Audio, produced \in 0 .. MaxTranscripts, Next
  PROVE  JobOK'
<1> USE BoundAssumption, FramesAssumption, TranscriptAssumption
<1>1. /\ job \in Jobs /\ NoJob \in Jobs
      /\ NoJob = [session |-> 0, frames |-> 0, chunk |-> 0, audio |-> {},
                  source |-> "None", transcript |-> 0, next |-> "select"]
  BY NoJobOK DEF JobOK
<1>2. queue # <<>> => Head(queue).id \in SessionId
  BY HeadTyped
<1>3. SessionIdType
  BY SessionIdTyped
<1>4. CASE UNCHANGED <<w_pc, job>>
  BY <1>4 DEF JobOK
<1> USE DEF JobOK, Jobs, WorkerPcs, PipelinePcs, SessionId
<1>5. CASE WorkerShutdown
  BY <1>5 DEF WorkerShutdown
<1>6. CASE OnStartRequested
  <2>1. job' = [NoJob EXCEPT !.session = Head(queue).id]
        /\ w_pc' \in {"open_gate", "pausing"}
    BY <1>6 DEF OnStartRequested, Continue
  <2> QED
    BY <1>1, <1>2, <1>6, <2>1 DEF OnStartRequested, Received
<1>7. CASE OnContinuousStopRequested
  <2>1. \/ w_pc' = "select" /\ job' = NoJob
        \/ w_pc' = "resuming" /\ job' = [NoJob EXCEPT !.next = "select"]
    BY <1>7 DEF OnContinuousStopRequested, ResumeCall, Continue
  <2> QED
    BY <1>1, <2>1
<1>8. CASE OnPushToTalkStopRequested
  <2> DEFINE j == [NoJob EXCEPT !.session = Head(queue).id, !.source = "PushToTalk"]
             k == [j EXCEPT !.audio = ptt_buffer]
  <2>1. /\ Head(queue).id \in SessionId
        /\ \/ w_pc' = "select" /\ job' = NoJob
           \/ w_pc' = "finish" /\ job' = j
           \/ w_pc' = "resuming" /\ job' = [j EXCEPT !.next = "finish"]
           \/ w_pc' = "rate_gate" /\ job' = k
           \/ w_pc' = "resuming" /\ job' = [k EXCEPT !.next = "rate_gate"]
           \/ w_pc' = "capture_fallback" /\ job' = j
    BY <1>2, <1>8 DEF OnPushToTalkStopRequested, Received, ResumeCall, Continue, CollectByFallback
  <2>2. CASE w_pc' = "select" /\ job' = NoJob
    BY <1>1, <2>2
  <2>3. CASE w_pc' # "select"
    <3>1. /\ j \in Jobs /\ j.source = "PushToTalk" /\ j.frames = 0 /\ j.audio = {}
          /\ j.session # 0
      <4>1. Head(queue).id \in 0 .. MaxSessions /\ Head(queue).id # 0
        BY <2>1
      <4> HIDE DEF Jobs
      <4> QED
        BY <1>1, <4>1, JobBegins
    <3>2. /\ k \in Jobs /\ k.source = "PushToTalk" /\ k.frames = 0
      BY <3>1
    <3> HIDE DEF j, k
    <3>3. /\ job' \in Jobs /\ job'.source = "PushToTalk" /\ job'.frames = 0
          /\ w_pc' \in {"finish", "capture_fallback"} => job'.audio = {} /\ job'.session # 0
          /\ w_pc' = "resuming" => \/ job'.next = "finish" /\ job'.audio = {}
                                  \/ job'.next = "rate_gate"
          /\ w_pc' \in {"finish", "capture_fallback", "resuming", "rate_gate"}
      BY <2>1, <2>3, <3>1, <3>2
    <3> QED
      BY <3>3
  <2> QED
    BY <2>1, <2>2, <2>3
<1>9. CASE Tick
  <2>1. \/ w_pc' \in {"recheck_ptt", "enforce", "select"} /\ job' = NoJob
        \/ w_pc' = "rate_gate"
           /\ job' = [NoJob EXCEPT !.audio = vad, !.source = "Continuous"]
    BY <1>9 DEF Tick, TickWhileRecording, TickWhileNotRecording, Continue
  <2>2. CASE w_pc' # "rate_gate"
    BY <1>1, <2>1, <2>2
  <2>3. CASE w_pc' = "rate_gate"
    <3>1. /\ job' \in Jobs /\ job'.source = "Continuous" /\ job'.frames = 0
      BY <1>1, <2>1, <2>3
    <3> QED
      BY <2>3, <3>1
  <2> QED
    BY <2>2, <2>3
<1>10. CASE PauseReturns
  BY <1>10 DEF PauseReturns, Continue
<1>11. CASE OpenGate \/ FinishesProcessing \/ LimitStopped
  <2>1. \/ w_pc' = "select" /\ job' = NoJob
        \/ w_pc' = "resuming" /\ job' = [NoJob EXCEPT !.next = "select"]
    BY <1>11 DEF OpenGate, FinishesProcessing, LimitStopped, ResumeCall, Continue
  <2> QED
    BY <1>1, <2>1
<1>12. CASE ResumeReturns
  <2>1. w_pc = "resuming" /\ w_pc' = job.next
        /\ job' = IF job.next = "select" THEN NoJob ELSE job
    BY <1>12 DEF ResumeReturns, Continue
  <2>2. CASE job.next = "select"
    BY <1>1, <2>1, <2>2
  <2>3. CASE job.next # "select"
    <3>1. UNCHANGED job /\ w_pc' = job.next
      BY <2>1, <2>3
    <3>2. CASE job.source = "PushToTalk"
      <4>1. /\ \/ job.next = "finish" /\ job.audio = {}
               \/ job.next = "rate_gate"
            /\ job.frames = 0
        BY <2>1, <3>2
      <4> QED
        BY <1>1, <3>1, <3>2, <4>1
    <3>3. CASE job.source # "PushToTalk"
      BY <2>1, <2>3, <3>1, <3>3
    <3> QED
      BY <3>2, <3>3
  <2> QED
    BY <2>2, <2>3
<1>13. CASE FallbackCapture
  <2> DEFINE k == [job EXCEPT !.audio = {Late(job.session)}]
  <2>1. /\ w_pc = "capture_fallback"
        /\ \/ w_pc' = "finish" /\ job' = job
           \/ w_pc' = "resuming" /\ job' = [job EXCEPT !.next = "finish"]
           \/ w_pc' = "rate_gate" /\ job' = k
           \/ w_pc' = "resuming" /\ job' = [k EXCEPT !.next = "rate_gate"]
    BY <1>13 DEF FallbackCapture, ResumeCall, Continue
  <2>2. /\ Late(job.session) \in Audio
        /\ job.source = "PushToTalk" /\ job.frames = 0 /\ job.audio = {}
    BY <1>1, <2>1 DEF Late, Audio
  <2>3. /\ k \in Jobs /\ k.source = "PushToTalk" /\ k.frames = 0
    BY <1>1, <2>2
  <2> HIDE DEF k
  <2>4. /\ job' \in Jobs /\ job'.source = "PushToTalk" /\ job'.frames = 0
        /\ w_pc' = "finish" => job'.audio = {}
        /\ w_pc' = "resuming" => \/ job'.next = "finish" /\ job'.audio = {}
                                \/ job'.next = "rate_gate"
        /\ w_pc' \in {"finish", "resuming", "rate_gate"}
    BY <1>1, <2>1, <2>2, <2>3
  <2> QED
    BY <2>4
<1>14. CASE PushToTalkCapture
  BY <1>1, <1>14 DEF PushToTalkCapture, Continue
<1>15. CASE ContinuousCapture
  <2>1. \/ w_pc' = "select" /\ job' = NoJob
        \/ /\ w_pc = "capture_continuous" /\ w_pc' = "frames"
           /\ job' = [job EXCEPT !.chunk = job.session, !.frames = ChunkFrames]
    BY <1>15 DEF ContinuousCapture, Continue
  <2>2. CASE w_pc' = "select" /\ job' = NoJob
    BY <1>1, <2>2
  <2>3. CASE w_pc' # "select"
    <3>1. job.session \in 0 .. MaxSessions /\ ChunkFrames \in 0 .. ChunkFrames
          /\ job.session # 0 /\ job.audio = {} /\ job.source # "PushToTalk"
      BY <1>1, <2>1, <2>3
    <3>2. /\ job' \in Jobs /\ job'.frames > 0 /\ job'.chunk # 0
          /\ job'.source # "PushToTalk" /\ job'.audio = {} /\ w_pc' = "frames"
      <4> DEFINE n == job.session
                 k == [job EXCEPT !.chunk = n, !.frames = ChunkFrames]
      <4>1. job \in Jobs /\ n \in 0 .. MaxSessions /\ ChunkFrames \in 0 .. ChunkFrames
        BY <1>1, <3>1
      <4>2. job' = k /\ w_pc' = "frames"
        BY <2>1, <2>3
      <4>3. ChunkFrames > 0 /\ n # 0
        BY <3>1
      <4> HIDE DEF n, Jobs
      <4>4. k \in Jobs /\ k.chunk = n /\ k.frames = ChunkFrames
            /\ k.source = job.source /\ k.audio = job.audio
        BY <4>1 DEF Jobs
      <4> QED
        BY <3>1, <4>2, <4>3, <4>4
    <3> QED
      BY <3>2
  <2> QED
    BY <2>1, <2>2, <2>3
<1>16. CASE Recheck
  <2>1. \/ w_pc' = "select" /\ job' = NoJob
        \/ /\ w_pc' \in {"capture_ptt", "capture_continuous"} /\ IsRecordingActive
           /\ job' = [NoJob EXCEPT !.session = recording_session.id]
    BY <1>16 DEF Recheck, Continue, RecordingIn
  <2>2. IsRecordingActive => recording_session.id # 0
    BY DEF IInv, TypeOK, RecordingTypeOK, IsRecordingActive, RecordingSession, NoSession
  <2> QED
    BY <1>1, <1>3, <2>1, <2>2 DEF SessionIdType
<1>17. CASE EnforceLimit
  <2>1. \/ w_pc' = "recheck_continuous" /\ job' = NoJob
        \/ /\ w_pc' = "limit_stopped" /\ recording_session # NoSession
           /\ job' = [NoJob EXCEPT !.session = recording_session.id]
    BY <1>17 DEF EnforceLimit, EnforceContinuousLimit, StopCurrentRecording, Continue,
                 NotStopped, LimitStop
  <2>2. recording_session # NoSession => recording_session.id # 0
    BY DEF IInv, TypeOK, RecordingTypeOK, RecordingSession, NoSession
  <2> QED
    BY <1>1, <1>3, <2>1, <2>2 DEF SessionIdType
<1>18. CASE PushFrame
  <2> DEFINE j == [job EXCEPT !.frames = @ - 1]
  <2>1. /\ w_pc = "frames"
        /\ \/ w_pc' = "select" /\ job' = NoJob
           \/ w_pc' = "frames" /\ job' = j /\ j.frames # 0
           \/ /\ w_pc' = "rate_gate"
              /\ job' = [j EXCEPT !.audio = vad \cup {Live(job.chunk)}, !.source = "Continuous"]
    BY <1>18 DEF PushFrame, NextFrame, Continue
  <2>2. /\ j \in Jobs /\ j.source # "PushToTalk" /\ j.audio = {} /\ j.chunk = job.chunk
        /\ Live(job.chunk) \in Audio
    BY <1>1, <2>1 DEF Live, Audio
  <2> HIDE DEF j
  <2>3. CASE w_pc' = "select" /\ job' = NoJob
    BY <1>1, <2>3
  <2>4. CASE w_pc' = "frames"
    BY <1>1, <2>1, <2>2, <2>4
  <2>5. CASE w_pc' = "rate_gate"
    <3>1. /\ job' \in Jobs /\ job'.source = "Continuous" /\ job'.chunk = job.chunk
          /\ job'.frames = j.frames
      <4> DEFINE A == vad \cup {Live(job.chunk)}
                 k == [j EXCEPT !.audio = A, !.source = "Continuous"]
      <4>1. A \in SUBSET Audio
        BY <2>2
      <4>2. job' = k
        BY <2>1, <2>5
      <4> HIDE DEF A, Jobs
      <4>3. k \in Jobs /\ k.source = "Continuous" /\ k.frames = j.frames
            /\ k.chunk = j.chunk
        BY <2>2, <4>1 DEF Jobs
      <4> QED
        BY <2>2, <4>2, <4>3
    <3>2. j.frames \in Nat /\ (j.frames > 0 => job.chunk # 0)
      BY <1>1, <2>1, <2>2 DEF j
    <3> QED
      BY <2>5, <3>1, <3>2
  <2> QED
    BY <2>1, <2>3, <2>4, <2>5
<1>19. CASE Pipeline
  <2>0. /\ job.source \in {"PushToTalk", "Continuous"}
        /\ w_pc \in PipelinePcs
    BY <1>1, <1>19 DEF Pipeline, RateGate, ProviderSucceeds, ProviderFails, ProviderCooldown,
                       CooledDown, Inject
  <2>1. \/ /\ job.source = "PushToTalk" /\ AfterUtterance = "finish"
        \/ job.source = "Continuous" /\ AfterUtterance = "select" /\ job.frames = 0
        \/ job.source = "Continuous" /\ AfterUtterance = "frames" /\ job.frames > 0
    BY <1>1, <2>0, AfterUtteranceOK
  <2>2. CASE RateGate \/ ProviderFails
    <3> DEFINE j == [job EXCEPT !.audio = {}]
    <3>1. \/ w_pc' = "provider" /\ job' = job
          \/ w_pc' = AfterUtterance /\ w_pc' = "select" /\ job' = NoJob
          \/ w_pc' = AfterUtterance /\ w_pc' # "select" /\ job' = j
          \/ w_pc' = "cooldown" /\ job' = j
      BY <2>2 DEF RateGate, ProviderFails, Continue
    <3>2. j \in Jobs /\ j.source = job.source /\ j.frames = job.frames /\ j.audio = {}
          /\ j.chunk = job.chunk
      BY <1>1
    <3> HIDE DEF j
    <3>3. CASE w_pc' = "select" /\ job' = NoJob
      BY <1>1, <3>3
    <3>4. CASE w_pc' # "select"
      BY <1>1, <2>0, <2>1, <3>1, <3>2, <3>4
    <3> QED
      BY <3>1, <3>3, <3>4
  <2>3. CASE ProviderSucceeds
    <3>1. /\ produced' \in 0 .. MaxTranscripts /\ w_pc' = "inject"
          /\ job' = [job EXCEPT !.audio = {}, !.transcript = produced']
      BY <2>3 DEF ProviderSucceeds, Continue, Capped
    <3>2. job' \in Jobs /\ job'.source = job.source /\ job'.frames = job.frames
          /\ job'.audio = {} /\ job'.chunk = job.chunk
      BY <1>1, <3>1
    <3> QED
      BY <2>0, <3>1, <3>2
  <2>4. CASE ProviderCooldown
    <3>1. PICK out \in {NotStopped, CooldownStop} :
             w_pc = "cooldown" /\ w_pc' = "cooled_down"
             /\ job' = [job EXCEPT !.session = out.session.id]
      BY <2>4 DEF ProviderCooldown, Continue
    <3>3. out.session.id \in 0 .. MaxSessions
      BY <1>3 DEF NotStopped, CooldownStop, SessionIdType, NoSession
    <3>2. job' \in Jobs /\ job'.source = job.source /\ job'.frames = job.frames
          /\ job'.audio = {} /\ job'.chunk = job.chunk
      BY <1>1, <3>1, <3>3
    <3> QED
      BY <2>0, <3>1, <3>2
  <2>5. CASE CooledDown
    <3>1. /\ w_pc = "cooled_down"
          /\ \/ w_pc' = "select" /\ job' = NoJob
             \/ w_pc' = AfterUtterance /\ w_pc' # "select" /\ job' = job
             \/ w_pc' = "resuming" /\ job' = [job EXCEPT !.next = AfterUtterance]
      BY <2>5 DEF CooledDown, ResumeCall, Continue
    <3>2. CASE w_pc' = "select" /\ job' = NoJob
      BY <1>1, <3>2
    <3>3. CASE w_pc' = AfterUtterance /\ w_pc' # "select" /\ job' = job
      BY <1>1, <2>0, <2>1, <3>1, <3>3
    <3>4. CASE w_pc' = "resuming" /\ job' = [job EXCEPT !.next = AfterUtterance]
      <4>1. job' \in Jobs /\ job'.source = job.source /\ job'.frames = job.frames
            /\ job'.audio = {} /\ job'.chunk = job.chunk /\ job'.next = AfterUtterance
        BY <1>1, <2>1, <3>1, <3>4
      <4> QED
        BY <2>0, <2>1, <3>1, <3>4, <4>1
    <3> QED
      BY <3>1, <3>2, <3>3, <3>4
  <2>6. CASE Inject
    <3>1. /\ w_pc = "inject" /\ w_pc' = AfterUtterance
          /\ job' = IF w_pc' = "select" THEN NoJob ELSE [job EXCEPT !.transcript = 0]
      BY <2>6 DEF Inject, Continue
    <3>2. CASE w_pc' = "select"
      BY <1>1, <3>1, <3>2
    <3>3. CASE w_pc' # "select"
      <4>1. job' \in Jobs /\ job'.source = job.source /\ job'.frames = job.frames
            /\ job'.audio = {} /\ job'.chunk = job.chunk
        BY <1>1, <3>1, <3>3
      <4> QED
        BY <2>0, <2>1, <3>1, <3>3, <4>1
    <3> QED
      BY <3>2, <3>3
  <2> QED
    BY <1>19, <2>2, <2>3, <2>4, <2>5, <2>6 DEF Pipeline
<1>20. CASE OthersStep \/ DeviceChange
  BY <1>4, <1>20, OthersLeaveWorker, DeviceChangeLeaves DEF workerVars
<1> QED
  BY <1>5, <1>6, <1>7, <1>8, <1>9, <1>10, <1>11, <1>12, <1>13, <1>14, <1>15, <1>16, <1>17,
     <1>18, <1>19, <1>20 DEF Next, OthersStep, WorkerStep, WorkerRun, ReceiveCommand

-----------------------------------------------------------------------------

\* A step that touches neither the coordinator nor where its callers are.
LEMMA PassUntouched ==
  ASSUME PassOK, UNCHANGED playbackVars,
         w_pc' = w_pc \/ w_pc' \notin {"pausing", "resuming", "open_gate"},
         s_pc' = s_pc \/ s_pc' \notin {"resuming", "exited"},
         w_pc \in {"pausing", "resuming"} => w_pc' = w_pc,
         w_pc' \in {"pausing", "open_gate"} => job' = job,
         w_pc = "done" => w_pc' = "done", s_pc = "resuming" => s_pc' = s_pc
  PROVE  PassOK'
BY DEF PassOK, playbackVars, Playback!PlaybackTypeOK, Playback!PausedOnlyUnderOwner,
       Playback!NoPass, Playback!Pass

\* What taking the ownership leaves behind, whoever takes it.
LEMMA TakeOwnershipPass ==
  ASSUME Playback!PlaybackTypeOK, Playback!TakeOwnership
  PROVE  /\ Playback!PlaybackTypeOK' /\ Playback!PausedOnlyUnderOwner'
         /\ pass'.action = "play"
<1> USE DEF Playback!TakeOwnership, Playback!PlaybackTypeOK, Playback!NoOwner
<1>1. pass' = [action |-> "play", session |-> active_session_id,
               waiting |-> IF PlaybackEnabled THEN paused_players ELSE {},
               succeeded |-> {}]
  OBVIOUS
<1>2. pass' \in Playback!Pass
  BY <1>1 DEF Playback!Pass
<1> QED
  BY <1>1, <1>2, BoundAssumption DEF Playback!PausedOnlyUnderOwner

\* Resuming players begins a pass, or the recording is not the owner's.
LEMMA ResumeCallPass ==
  ASSUME PassOK, NEW id, NEW next, NEW j, ResumeCall(id, next, j), UNCHANGED s_pc,
         w_pc \notin {"done", "pausing", "resuming"},
         next \notin {"pausing", "resuming", "open_gate", "done"}
  PROVE  PassOK'
<1>1. CASE Playback!NotOwner(id) /\ Continue(next, j) /\ UNCHANGED playbackVars
  BY <1>1, PassUntouched DEF Continue
<1>2. CASE Playback!BeginResumePass(id) /\ w_pc' = "resuming"
  BY <1>2, TakeOwnershipPass DEF PassOK, Playback!BeginResumePass
<1> QED
  BY <1>1, <1>2 DEF ResumeCall, Continue

\* The worker begins the pause pass of a recording.
LEMMA BeginPausePassPass ==
  ASSUME Playback!PlaybackTypeOK, NEW id \in SessionId, Playback!BeginPausePass(id)
  PROVE  /\ Playback!PlaybackTypeOK' /\ Playback!PausedOnlyUnderOwner'
         /\ pass'.action = "pause" /\ pass'.session = id /\ paused_players' = {}
<1> USE DEF Playback!BeginPausePass, Playback!PlaybackTypeOK, Playback!NoOwner
<1>1. PICK found \in Playback!FoundPlaying :
         pass' = [action |-> "pause", session |-> id, waiting |-> found, succeeded |-> {}]
  OBVIOUS
<1>2. found \subseteq Players
  BY DEF Playback!FoundPlaying
<1>3. pass' \in Playback!Pass
  BY <1>1, <1>2, BoundAssumption DEF Playback!Pass, SessionId
<1> QED
  BY <1>1, <1>3, BoundAssumption DEF Playback!PausedOnlyUnderOwner

\* A playerctl process that ends leaves the pass what it is, less one player.
LEMMA PlayerCommandPass ==
  ASSUME Playback!PlaybackTypeOK, NEW p \in Players, Playback!PlayerCommandEnds(p)
  PROVE  /\ Playback!PlaybackTypeOK' /\ UNCHANGED <<active_session_id, paused_players>>
         /\ pass # Playback!NoPass
         /\ pass'.action = pass.action /\ pass'.session = pass.session
<1> USE DEF Playback!PlayerCommandEnds, Playback!PlaybackTypeOK, Playback!coordinatorVars
<1>1. /\ p \in pass.waiting /\ UNCHANGED <<active_session_id, paused_players>>
      /\ player' \in [Players -> {"Playing", "Paused"}]
      /\ \/ pass' = [pass EXCEPT !.waiting = @ \ {p}, !.succeeded = @ \cup {p}]
         \/ pass' = [pass EXCEPT !.waiting = @ \ {p}]
  BY DEF Playback!Reached
<1>2. pass \in Playback!Pass
  BY <1>1 DEF Playback!NoPass
<1>3. pass' \in Playback!Pass /\ pass'.action = pass.action /\ pass'.session = pass.session
  <2>1. CASE pass' = [pass EXCEPT !.waiting = @ \ {p}]
    BY <1>2, <2>1 DEF Playback!Pass
  <2>2. CASE pass' = [pass EXCEPT !.waiting = @ \ {p}, !.succeeded = @ \cup {p}]
    <3>1. pass' = [action |-> pass.action, session |-> pass.session,
                   waiting |-> pass.waiting \ {p}, succeeded |-> pass.succeeded \cup {p}]
      BY <1>2, <2>2 DEF Playback!Pass
    <3> QED
      BY <1>1, <1>2, <3>1 DEF Playback!Pass
  <2> QED
    BY <1>1, <2>1, <2>2
<1> QED
  BY <1>1, <1>3 DEF Playback!NoPass

\* A pass that ends hands its successes to the recording it paused for.
LEMMA EndPassPass ==
  ASSUME Playback!PlaybackTypeOK, Playback!PausedOnlyUnderOwner,
         \/ Playback!EndPausePass /\ pass.session # 0
         \/ Playback!EndResumePass
  PROVE  /\ Playback!PlaybackTypeOK' /\ Playback!PausedOnlyUnderOwner'
         /\ pass' = Playback!NoPass
         /\ Playback!EndPausePass => active_session_id' = pass.session
<1>1. CASE Playback!EndPausePass /\ pass.session # 0
  <2>1. /\ pass \in Playback!Pass /\ pass.action = "pause" /\ pass' = Playback!NoPass
        /\ active_session_id' = pass.session /\ paused_players' = pass.succeeded
        /\ UNCHANGED player
    BY <1>1 DEF Playback!EndPausePass, Playback!PassDone, Playback!PlaybackTypeOK,
                Playback!NoPass
  <2> QED
    BY <1>1, <2>1 DEF Playback!PlaybackTypeOK, Playback!Pass, Playback!PausedOnlyUnderOwner,
                      Playback!NoOwner
<1>2. CASE Playback!EndResumePass
  BY <1>2 DEF Playback!EndResumePass, Playback!coordinatorVars, Playback!PlaybackTypeOK,
              Playback!PausedOnlyUnderOwner, Playback!EndPausePass, Playback!PassDone
<1> QED
  BY <1>1, <1>2

\* Every step leaves the coordinator to one caller, who knows what it is doing.
LEMMA PassStep ==
  ASSUME PassOK, JobOK, queue \in Seq(RuntimeCommand), s_pc \in ServerPcs, Next
  PROVE  PassOK'
<1> USE DEF JobOK
<1>1. CASE ServerStep \/ SendShutdown \/ Signal \/ TimePasses \/ Terminated
  BY <1>1, PassUntouched
     DEF ServerStep, UserCommand, NotifyAndRespond, StatusQuery, ReplayStart,
         ReplayDone, StopServing, SendShutdown, Signal, TimePasses,
         Terminated, serverRest, workerVars, serverVars, vars
<1>2. CASE OnShutdown
  BY <1>2, TakeOwnershipPass DEF PassOK, OnShutdown, Playback!BeginShutdownPass, workerVars
<1>3. CASE Exit
  BY <1>3, EndPassPass DEF PassOK, Exit, Playback!NoPass, workerVars
<1>4. CASE \E p \in Players : PlaybackCommandEnds(p)
  BY <1>4, PlayerCommandPass DEF PassOK, PlaybackCommandEnds, Playback!PausedOnlyUnderOwner,
                                 Playback!NoPass, workerVars, othersVars, serverVars
<1>5. CASE OnStartRequested
  <2>1. Head(queue).id \in SessionId
    BY <1>5, HeadTyped DEF OnStartRequested, Received
  <2> DEFINE id == Head(queue).id
             j == [NoJob EXCEPT !.session = id]
  <2>2. j.session = id
    BY DEF NoJob
  <2>3. /\ w_pc = "select" /\ job' = j /\ UNCHANGED s_pc
        /\ \/ /\ Playback!AlreadyStarted(id)
              /\ w_pc' = "open_gate"
              /\ UNCHANGED playbackVars
           \/ Playback!BeginPausePass(id) /\ w_pc' = "pausing"
    BY <1>5, <2>2 DEF OnStartRequested, Received, Continue, othersVars, serverVars
  <2> HIDE DEF j, id
  <2>4. id \in SessionId
    BY <2>1 DEF id
  <2>5. CASE Playback!AlreadyStarted(id) /\ w_pc' = "open_gate" /\ UNCHANGED playbackVars
    BY <2>2, <2>3, <2>5 DEF PassOK, Playback!AlreadyStarted, playbackVars,
         Playback!PlaybackTypeOK, Playback!PausedOnlyUnderOwner, Playback!NoPass
  <2>6. CASE Playback!BeginPausePass(id) /\ w_pc' = "pausing"
    BY <2>2, <2>3, <2>4, <2>6, BeginPausePassPass DEF PassOK, Playback!BeginPausePass,
         Playback!NoPass
  <2> QED
    BY <2>3, <2>5, <2>6
<1>6. CASE PauseReturns
  BY <1>6, EndPassPass DEF PassOK, PauseReturns, Continue, Playback!NoPass, othersVars,
       serverVars, Playback!EndPausePass
<1>7. CASE ResumeReturns
  BY <1>7, EndPassPass DEF PassOK, ResumeReturns, Continue, Playback!NoPass, othersVars,
       serverVars, Jobs
<1>8. CASE OnContinuousStopRequested \/ LimitStopped
  BY <1>8, ResumeCallPass DEF OnContinuousStopRequested, LimitStopped, Received, othersVars,
       serverVars
<1>9. CASE OnPushToTalkStopRequested
  <2>1. /\ w_pc = "select" /\ UNCHANGED s_pc
        /\ \/ w_pc' \in {"select", "capture_fallback"} /\ UNCHANGED playbackVars
           \/ \E id, j : ResumeCall(id, "finish", j)
           \/ \E id, j : ResumeCall(id, "rate_gate", j)
    BY <1>9 DEF OnPushToTalkStopRequested, Received, othersVars, serverVars, Continue,
                CollectByFallback
  <2>2. CASE w_pc' \in {"select", "capture_fallback"} /\ UNCHANGED playbackVars
    BY <2>1, <2>2, PassUntouched
  <2>3. CASE \E id, j : ResumeCall(id, "finish", j)
    BY <2>1, <2>3, ResumeCallPass
  <2>4. CASE \E id, j : ResumeCall(id, "rate_gate", j)
    BY <2>1, <2>4, ResumeCallPass
  <2> QED
    BY <2>1, <2>2, <2>3, <2>4
<1>10. CASE FallbackCapture
  <2>1. /\ w_pc = "capture_fallback" /\ UNCHANGED s_pc
        /\ \/ \E id, j : ResumeCall(id, "finish", j)
           \/ \E id, j : ResumeCall(id, "rate_gate", j)
    BY <1>10 DEF FallbackCapture, othersVars, serverVars
  <2>3. CASE \E id, j : ResumeCall(id, "finish", j)
    BY <2>1, <2>3, ResumeCallPass
  <2>4. CASE \E id, j : ResumeCall(id, "rate_gate", j)
    BY <2>1, <2>4, ResumeCallPass
  <2> QED
    BY <2>1, <2>3, <2>4
<1>11. CASE CooledDown
  <2>1. /\ w_pc = "cooled_down" /\ UNCHANGED s_pc
        /\ AfterUtterance \in {"finish", "select", "frames"}
        /\ \/ w_pc' = AfterUtterance /\ UNCHANGED playbackVars
           \/ ResumeCall(job.session, AfterUtterance, job)
    BY <1>11 DEF CooledDown, AfterUtterance, pipelineRest, othersVars, serverVars, Continue
  <2>2. CASE w_pc' = AfterUtterance /\ UNCHANGED playbackVars
    BY <2>1, <2>2, PassUntouched
  <2>3. CASE ResumeCall(job.session, AfterUtterance, job)
    BY <2>1, <2>3, ResumeCallPass
  <2> QED
    BY <2>1, <2>2, <2>3
<1>12. CASE WorkerShutdown \/ Tick \/ OpenGate \/ FinishesProcessing \/ DeviceChange
            \/ PushToTalkCapture \/ ContinuousCapture \/ Recheck \/ EnforceLimit \/ PushFrame
            \/ RateGate \/ ProviderSucceeds \/ ProviderFails \/ ProviderCooldown \/ Inject
  <2>1. /\ w_pc \notin {"pausing", "resuming", "done"} /\ UNCHANGED <<s_pc, playbackVars>>
        /\ \/ w_pc' = w_pc /\ w_pc # "open_gate"
           \/ w_pc' \notin {"pausing", "resuming", "open_gate"}
    BY <1>12, DeviceChangeLeaves DEF WorkerShutdown, Tick, TickWhileRecording,
         TickWhileNotRecording, OpenGate, FinishesProcessing, Capturing, PushToTalkCapture,
         ContinuousCapture, Recheck, EnforceLimit, PushFrame, NextFrame, RateGate,
         ProviderSucceeds, ProviderFails, ProviderCooldown, Inject, AfterUtterance, Continue,
         pipelineRest, othersVars, serverVars
  <2> QED
    BY <2>1, PassUntouched
<1> QED
  BY <1>1, <1>2, <1>3, <1>4, <1>5, <1>6, <1>7, <1>8, <1>9, <1>10, <1>11, <1>12
     DEF Next, MainStep, WorkerStep, WorkerRun, ReceiveCommand, Pipeline

\* Every step of the daemon is a call of the state machine, or none.
LEMMA StateMachineStep ==
  ASSUME IInv, JobOK, StorageOK, TranscriptOK, Next
  PROVE  IInv'
<1> USE DEF JobOK, StorageOK, othersVars, serverVars, pipelineRest
<1>1. CASE UNCHANGED smvars
  BY <1>1, NothingCalledInv
<1>2. CASE UserCommand
  BY <1>2, UserCallInv DEF UserCommand
<1>3. CASE StatusQuery \/ TimePasses
  BY <1>3, GuardrailCallInv DEF StatusQuery, TimePasses
<1>4. CASE ReplayStart \/ ReplayDone \/ DeviceChange \/ Inject
           \/ FallbackCapture \/ PushToTalkCapture \/ ContinuousCapture
  <2>1. \/ UNCHANGED smvars
        \/ UNCHANGED <<recordingVars, guardrailVars>> /\ OutputTypeOK'
    <3>1. OutputTypeOK
      BY DEF IInv, TypeOK
    <3>2. CASE ReplayStart \/ ReplayDone
      <4>1. s_pc = "replaying" => s_transcript \in Transcripts
        OBVIOUS
      <4> QED
        BY <3>1, <3>2, <4>1 DEF ReplayStart, ReplayDone, TakeLastTranscript,
             SetLastOutputErrorCode, RestoredTranscript, OutputTypeOK
    <3>3. CASE DeviceChange \/ FallbackCapture \/ PushToTalkCapture \/ ContinuousCapture
      BY <3>1, <3>3, DeviceChangeLeaves DEF FallbackCapture, PushToTalkCapture,
           ContinuousCapture, CaptureSucceeds, CaptureFails, SetLastAudioErrorCode, OutputTypeOK
    <3>4. CASE Inject
      <4>1. job.transcript \in Transcripts
        BY <3>4, TranscriptAssumption DEF TranscriptOK, Inject
      <4> QED
        BY <3>1, <3>4, <4>1 DEF Inject, SetLastTranscriptWithError, OutputTypeOK
    <3> QED
      BY <1>4, <3>2, <3>3, <3>4
  <2> QED
    BY <1>1, <2>1, OutputCallInv
<1>5. CASE OpenGate \/ OnPushToTalkStopRequested \/ FinishesProcessing \/ EnforceLimit
  <2>1. w_pc = "open_gate" => job.session \in SessionId
    BY DEF Jobs, SessionId
  <2>2. queue # <<>> => Head(queue).id \in SessionId
    BY HeadTyped
  <2> QED
    BY <1>5, <2>1, <2>2, RecordingCallInv
       DEF OpenGate, OnPushToTalkStopRequested, Received, FinishesProcessing, EnforceLimit
<1>6. CASE RateGate \/ ProviderSucceeds \/ ProviderCooldown
  BY <1>6, GuardrailCallInv DEF RateGate, ProviderSucceeds, ProviderCooldown
<1> QED
  BY <1>1, <1>2, <1>3, <1>4, <1>5, <1>6, StateMachineCalls

-----------------------------------------------------------------------------
(* What a command of the user does, and what it has the worker do.          *)

\* A call that changes nothing tells the worker nothing.
LEMMA NothingToNotify ==
  Notifications(Unchanged) = <<>>
<1>1. ~StartRequested(Unchanged) /\ ~StoppedRecording(Unchanged)
  BY DEF StartRequested, StoppedRecording, Unchanged, NoSession
<1> QED
  BY <1>1 DEF Notifications

\* The command that tells the worker about a recording.
Command(kind, session) == [kind |-> kind, id |-> session.id, mode |-> session.mode]

\* What a press or toggle may come to: nothing, the beginning of a recording, or the end
\* of the one there is.
UserDoesNothing(t) ==
    /\ UNCHANGED <<state, recording_session, next_recording_session_id, pending_ptt_capture>>
    /\ Notifications(t) = <<>>

UserBegins(t) ==
    /\ state = "Idle" /\ recording_session' \in RecordingSession
    /\ recording_session'.id = next_recording_session_id
    /\ next_recording_session_id' = next_recording_session_id + 1
    /\ recording_session'.phase = "StartPending"
    /\ pending_ptt_capture' = NoPending
    /\ state' # "Processing"
    /\ Notifications(t) = <<Command("Start", recording_session')>>

UserEnds(t) ==
    /\ recording_session \in RecordingSession /\ recording_session' = NoSession
    /\ UNCHANGED next_recording_session_id
    /\ pending_ptt_capture' = IF recording_session.mode = "PushToTalk" THEN PendingCapture
                              ELSE pending_ptt_capture
    /\ state' = IF recording_session.mode = "PushToTalk" THEN "Processing" ELSE "Idle"
    /\ Notifications(t) = <<Command("Stop", recording_session)>>

\* A press, release or toggle comes to one of these, and the worker is told which.
LEMMA UserCommandCases ==
  ASSUME IInv, UserCommand
  PROVE  LET t == reply'.transition IN UserDoesNothing(t) \/ UserBegins(t) \/ UserEnds(t)
<1> DEFINE t == reply'.transition
<1>1. /\ state \in DictationState
      /\ recording_session \in RecordingSession \cup {NoSession}
      /\ recording_session = NoSession => state \in {"Idle", "Processing"}
      /\ recording_session # NoSession =>
            state = IF recording_session.mode = "PushToTalk"
                    THEN "PushToTalkActive" ELSE "ContinuousActive"
  BY DEF IInv, TypeOK, RecordingTypeOK, RecordingInv, SessionMatchesState
<1>2. CASE UNCHANGED recordingVars /\ t = Unchanged
  BY <1>2, NothingToNotify DEF recordingVars, UserDoesNothing
<1>3. ASSUME NEW mode \in RecordingMode, BeginRecording(mode), state = "Idle",
             state' # "Processing", t = Transition("None")
      PROVE  UserBegins(t)
  <2>1. recording_session = NoSession
    BY <1>1, <1>3 DEF RecordingSession, RecordingMode
  <2>2. /\ recording_session' = [id |-> next_recording_session_id, mode |-> mode,
                                 phase |-> "StartPending"]
        /\ next_recording_session_id \in SessionId
    BY <1>3, BoundAssumption DEF BeginRecording, SessionId, IInv, TypeOK, RecordingTypeOK
  <2>3. recording_session' \in RecordingSession
    BY <2>2 DEF RecordingSession, RecordingPhase
  <2>4. t.previous = NoSession /\ t.current = recording_session' /\ t.stop_reason = "None"
    BY <1>3, <2>1 DEF Transition
  <2>5. StartRequested(t) /\ ~StoppedRecording(t)
    BY <2>2, <2>4 DEF StartRequested, StoppedRecording
  <2>6. Notifications(t) = <<Command("Start", recording_session')>>
    BY <2>4, <2>5 DEF Notifications, Command
  <2> QED
    BY <1>3, <2>2, <2>3, <2>6 DEF UserBegins, BeginRecording
<1>4. ASSUME recording_session # NoSession, EndRecording, t = Transition(StopReason)
      PROVE  Notifications(t) = <<Command("Stop", recording_session)>>
  <2>1. /\ t.previous = recording_session /\ t.current = NoSession
        /\ t.stop_reason # "None"
    BY <1>4 DEF Transition, EndRecording, StopReason
  <2>2. ~StartRequested(t) /\ StoppedRecording(t)
    BY <1>4, <2>1 DEF StartRequested, StoppedRecording, NoSession
  <2> QED
    BY <2>1, <2>2 DEF Notifications, Command
<1>5. CASE PttPress(reply')
  BY <1>2, <1>3, <1>5 DEF PttPress, Refused, Idempotent, Ok, Err, RecordingMode
<1>6. CASE PttRelease(reply')
  <2>1. CASE /\ state = "PushToTalkActive" /\ EndRecording /\ state' = "Processing"
             /\ pending_ptt_capture' = PendingCapture /\ t = Transition(StopReason)
             /\ UNCHANGED next_recording_session_id
    <3>1. recording_session # NoSession /\ recording_session.mode = "PushToTalk"
      BY <1>1, <2>1
    <3> QED
      BY <1>1, <1>4, <2>1, <3>1 DEF UserEnds, EndRecording
  <2> QED
    BY <1>2, <1>6, <2>1 DEF PttRelease, Refused, Idempotent, Ok, Err
<1>7. CASE ToggleContinuous(reply')
  <2>1. CASE /\ state = "ContinuousActive" /\ EndRecording /\ state' = "Idle"
             /\ t = Transition(StopReason)
             /\ UNCHANGED <<next_recording_session_id, pending_ptt_capture>>
    <3>1. recording_session # NoSession /\ recording_session.mode # "PushToTalk"
      BY <1>1, <2>1
    <3> QED
      BY <1>1, <1>4, <2>1, <3>1 DEF UserEnds, EndRecording
  <2> QED
    BY <1>2, <1>3, <1>7, <2>1 DEF ToggleContinuous, Refused, Idempotent, Ok, Err, RecordingMode
<1> QED
  BY <1>5, <1>6, <1>7 DEF UserCommand

-----------------------------------------------------------------------------
(* The commands the worker has still to handle.                             *)

\* They are a sequence of commands, and those in the queue come first.
LEMMA CommandsTyped ==
  ASSUME StorageOK
  PROVE  /\ Commands \in Seq(RuntimeCommand)
         /\ queue # <<>> => Commands # <<>> /\ Head(queue) = Commands[1]
<1>1. CASE s_pc = "notify"
  <2> DEFINE N == Notifications(reply.transition)
  <2>1. queue \in Seq(RuntimeCommand) /\ N \in Seq(RuntimeCommand) /\ Commands = queue \o N
    BY <1>1 DEF StorageOK, Commands
  <2> HIDE DEF N
  <2>2. /\ queue \o N \in Seq(RuntimeCommand)
        /\ Len(queue \o N) = Len(queue) + Len(N)
        /\ \A i \in 1 .. Len(queue) + Len(N) : (queue \o N)[i] =
              IF i <= Len(queue) THEN queue[i] ELSE N[i - Len(queue)]
    BY <2>1, ConcatProperties
  <2>3. CASE queue # <<>>
    <3>1. Len(queue) \in Nat /\ Len(N) \in Nat /\ Len(queue) > 0 /\ Head(queue) = queue[1]
      BY <2>1, <2>3
    <3>2. (queue \o N)[1] = queue[1] /\ Len(queue \o N) > 0
      BY <2>2, <3>1
    <3> QED
      BY <2>1, <2>2, <3>1, <3>2
  <2> QED
    BY <2>1, <2>2, <2>3
<1>2. CASE s_pc # "notify"
  BY <1>2 DEF StorageOK, Commands
<1> QED
  BY <1>1, <1>2

\* The worker takes the first of them.
LEMMA CommandReceived ==
  ASSUME StorageOK, queue # <<>>, queue' = Tail(queue), UNCHANGED <<s_pc, reply>>
  PROVE  Commands' = Tail(Commands)
<1>1. CASE s_pc = "notify"
  <2> DEFINE N == Notifications(reply.transition)
  <2>1. queue \in Seq(RuntimeCommand) /\ N \in Seq(RuntimeCommand) /\ Commands = queue \o N
        /\ Commands' = Tail(queue) \o N
    BY <1>1 DEF StorageOK, Commands
  <2> HIDE DEF N
  <2>2. Tail(queue) \o N = Tail(queue \o N)
    BY <2>1
  <2> QED
    BY <2>1, <2>2
<1>2. CASE s_pc # "notify"
  BY <1>2 DEF Commands
<1> QED
  BY <1>1, <1>2

\* The server puts them into the queue without changing them, or adds one.
LEMMA CommandsSent ==
  ASSUME StorageOK, NotifyAndRespond \/ UserCommand
  PROVE  /\ NotifyAndRespond => queue' = Commands /\ Commands' = Commands
         /\ UserCommand => /\ Commands' = Commands \o Notifications(reply'.transition)
                           /\ UNCHANGED queue
BY DEF NotifyAndRespond, UserCommand, Commands

-----------------------------------------------------------------------------

\* The first of the commands is received.
LEMMA TailProperties ==
  ASSUME NEW c \in Seq(RuntimeCommand), c # <<>>
  PROVE  /\ Len(c) \in Nat /\ Len(c) > 0 /\ Len(Tail(c)) = Len(c) - 1
         /\ \A i \in 1 .. Len(c) - 1 : Tail(c)[i] = c[i + 1]
         /\ Tail(c) \in Seq(RuntimeCommand)
         /\ Len(c) > 1 => Tail(c) # <<>>
         /\ Len(c) = 1 => Tail(c) = <<>>
<1>1. /\ Len(c) \in Nat /\ Len(c) > 0 /\ Len(Tail(c)) = Len(c) - 1
      /\ \A i \in 1 .. Len(c) - 1 : Tail(c)[i] = c[i + 1]
      /\ Tail(c) \in Seq(RuntimeCommand)
  BY HeadTailProperties
<1> DEFINE d == Tail(c)
<1>2. d \in Seq(RuntimeCommand) /\ Len(d) = Len(c) - 1
  BY <1>1
<1> HIDE DEF d
<1>3. d # <<>> <=> Len(d) # 0
  BY <1>2, EmptySeq
<1>4. (Len(c) > 1 => d # <<>>) /\ (Len(c) = 1 => d = <<>>)
  BY <1>1, <1>2, <1>3
<1> QED
  BY <1>1, <1>4 DEF d

\* A command is sent after the others.
LEMMA OneMore ==
  ASSUME NEW c \in Seq(RuntimeCommand), NEW e \in RuntimeCommand
  PROVE  /\ Len(c) \in Nat /\ Len(c \o <<e>>) = Len(c) + 1
         /\ \A i \in 1 .. Len(c) : (c \o <<e>>)[i] = c[i]
         /\ (c \o <<e>>)[Len(c) + 1] = e
         /\ c \o <<e>> # <<>>
OBVIOUS

\* A recording that is over, or an utterance taken or dropped, needs no command.
LEMMA CommandsKept ==
  ASSUME CommandsOK, Commands' = Commands, UNCHANGED next_recording_session_id,
         recording_session' \in {recording_session, NoSession},
         pending_ptt_capture' \in {pending_ptt_capture, NoPending},
         Starting' <=> Starting, Starting => job' = job
  PROVE  CommandsOK'
BY DEF CommandsOK, Sent, Newest, NewestIs, Held, IsRecordingActive, NoSession, NoPending, Starting

\* What is left to handle once the worker has received a command: all but that one.
LEMMA SentReceived ==
  ASSUME CommandsOK, Commands \in Seq(RuntimeCommand), Commands # <<>>,
         Commands' = Tail(Commands), NEW c, c = Commands[1]
  PROVE  /\ Len(Commands') \in Nat
         /\ \A i \in 1 .. Len(Commands') :
               i + 1 \in 1 .. Len(Commands) /\ Commands'[i] = Commands[i + 1]
         /\ \A kind, id : Sent(kind, id)' <=>
               Sent(kind, id) /\ ~(c.kind = kind /\ c.id = id)
<1> DEFINE d == Commands'
<1>1. /\ Len(Commands) \in Nat /\ Len(Commands) > 0 /\ Len(d) = Len(Commands) - 1
      /\ \A i \in 1 .. Len(d) : d[i] = Commands[i + 1]
  BY TailProperties
<1>2. \A i \in 1 .. Len(d) : i + 1 \in 1 .. Len(Commands) /\ d[i] = Commands[i + 1]
  BY <1>1
<1> HIDE DEF d
<1>3. ASSUME NEW kind, NEW id, Sent(kind, id)'
      PROVE  Sent(kind, id) /\ ~(c.kind = kind /\ c.id = id)
  <2>1. PICK i \in 1 .. Len(d) : d[i].kind = kind /\ d[i].id = id
    BY <1>3 DEF Sent, d
  <2>2. i + 1 \in 1 .. Len(Commands) /\ Commands[i + 1].kind = kind /\ Commands[i + 1].id = id
        /\ i + 1 # 1 /\ 1 \in 1 .. Len(Commands)
    BY <1>1, <1>2, <2>1
  <2> QED
    BY <2>2 DEF Sent, CommandsOK
<1>4. ASSUME NEW kind, NEW id, Sent(kind, id), ~(c.kind = kind /\ c.id = id)
      PROVE  Sent(kind, id)'
  <2>1. PICK i \in 1 .. Len(Commands) : Commands[i].kind = kind /\ Commands[i].id = id
    BY <1>4 DEF Sent
  <2>2. i # 1
    BY <1>4, <2>1
  <2>3. i - 1 \in 1 .. Len(d) /\ (i - 1) + 1 = i
    BY <1>1, <2>2
  <2>4. d[i - 1] = Commands[i]
    BY <1>2, <2>3
  <2> QED
    BY <2>1, <2>3, <2>4 DEF Sent, d
<1>5. Len(d) \in Nat
  BY <1>1
<1> QED
  BY <1>2, <1>3, <1>4, <1>5 DEF d

\* The worker receives a command: the Start of what is requested, or the Stop of what
\* is pending, is either still among the others or is the one received.
LEMMA CommandsReceived ==
  ASSUME CommandsOK, Commands \in Seq(RuntimeCommand), Commands # <<>>,
         Commands' = Tail(Commands), UNCHANGED <<next_recording_session_id, recording_session>>,
         NEW c, c = Commands[1], ~Starting,
         \/ /\ c.kind = "Start" /\ Starting' /\ job'.session = c.id
            /\ UNCHANGED pending_ptt_capture
         \/ c.kind = "Stop" /\ c.mode = "Continuous" /\ ~Starting'
            /\ UNCHANGED pending_ptt_capture
         \/ /\ c.kind = "Stop" /\ c.mode = "PushToTalk" /\ ~Starting'
            /\ pending_ptt_capture' = IF pending_ptt_capture.session_id = c.id THEN NoPending
                                      ELSE pending_ptt_capture
  PROVE  CommandsOK'
<1> DEFINE d == Commands'
<1>1. /\ Len(Commands) \in Nat /\ Len(Commands) > 0 /\ Len(d) = Len(Commands) - 1
      /\ \A i \in 1 .. Len(d) : d[i] = Commands[i + 1]
      /\ Len(Commands) > 1 => d # <<>>
      /\ Len(Commands) = 1 => d = <<>>
  BY TailProperties
<1>2. c = Commands[1]
  OBVIOUS
<1>3. \A i \in 1 .. Len(d) : i + 1 \in 1 .. Len(Commands) /\ d[i] = Commands[i + 1]
  BY <1>1
<1>4. Len(Commands) > 1 => d[Len(d)] = Commands[Len(Commands)]
  BY <1>1
<1>5. 1 \in 1 .. Len(Commands)
  BY <1>1
<1> HIDE DEF d
<1>6. \A i \in 1 .. Len(d) : d[i].id < next_recording_session_id'
  BY <1>3 DEF CommandsOK
<1>7. \A i, j \in 1 .. Len(d) : d[i].kind = d[j].kind /\ d[i].id = d[j].id => i = j
  <2> SUFFICES ASSUME NEW i \in 1 .. Len(d), NEW j \in 1 .. Len(d),
                      d[i].kind = d[j].kind, d[i].id = d[j].id
               PROVE  i = j
    OBVIOUS
  <2>1. i + 1 = j + 1
    BY <1>3 DEF CommandsOK
  <2> QED
    BY <2>1, <1>1
<1>8. \A i \in 1 .. Len(d) : ~(d[i].kind = c.kind /\ d[i].id = c.id)
  <2> SUFFICES ASSUME NEW i \in 1 .. Len(d), d[i].kind = c.kind, d[i].id = c.id
               PROVE  FALSE
    OBVIOUS
  <2>1. i + 1 = 1
    BY <1>2, <1>3, <1>5 DEF CommandsOK
  <2> QED
    BY <2>1
<1>9. \A kind, id : Sent(kind, id)' => Sent(kind, id)
  BY <1>3 DEF Sent, d
<1>10. Starting' => /\ job'.session < next_recording_session_id'
                   /\ ~Sent("Start", job.session)'
  BY <1>2, <1>5, <1>8 DEF CommandsOK, Sent, d
<1>11. Len(Commands) = 1 => Newest = c
  BY <1>2 DEF Newest
<1>12. \A kind, id : NewestIs(kind, id) /\ Len(Commands) > 1 =>
          NewestIs(kind, id)' /\ Newest' = Newest
  BY <1>1, <1>4 DEF NewestIs, Newest, d
<1>13. recording_session'.phase = "StartPending" =>
          \/ NewestIs("Start", recording_session.id)'
          \/ Starting' /\ job'.session = recording_session'.id /\ d = <<>>
  <2> SUFFICES ASSUME recording_session.phase = "StartPending"
               PROVE  \/ NewestIs("Start", recording_session.id)'
                      \/ Starting' /\ job'.session = recording_session'.id /\ d = <<>>
    OBVIOUS
  <2>1. NewestIs("Start", recording_session.id)
    BY DEF CommandsOK
  <2>2. CASE Len(Commands) = 1
    BY <1>1, <1>11, <2>1, <2>2 DEF NewestIs
  <2>3. CASE Len(Commands) > 1
    BY <1>12, <2>1, <2>3
  <2> QED
    BY <1>1, <2>2, <2>3
<1>14. pending_ptt_capture' # NoPending =>
          NewestIs("Stop", pending_ptt_capture.session_id)' /\ Newest'.mode = "PushToTalk"
  <2> SUFFICES ASSUME pending_ptt_capture' # NoPending
               PROVE  /\ NewestIs("Stop", pending_ptt_capture.session_id)'
                      /\ Newest'.mode = "PushToTalk"
    OBVIOUS
  <2>1. /\ pending_ptt_capture' = pending_ptt_capture
        /\ NewestIs("Stop", pending_ptt_capture.session_id) /\ Newest.mode = "PushToTalk"
    BY DEF CommandsOK
  <2>2. CASE Len(Commands) = 1
    BY <1>11, <2>1, <2>2 DEF NewestIs
  <2>3. CASE Len(Commands) > 1
    BY <1>12, <2>1, <2>3
  <2> QED
    BY <1>1, <2>2, <2>3
<1>15. ~Held'
  <2> SUFFICES ASSUME Held' PROVE FALSE
    OBVIOUS
  <2>1. pending_ptt_capture' # NoPending /\ pending_ptt_capture' = pending_ptt_capture
    BY DEF Held, NoPending
  <2>2. Len(Commands) = 1 /\ NewestIs("Stop", pending_ptt_capture.session_id)
        /\ Newest.mode = "PushToTalk"
    BY <2>1 DEF CommandsOK, Held
  <2>3. c.kind = "Stop" /\ c.mode = "PushToTalk" /\ c.id = pending_ptt_capture.session_id
    BY <1>11, <2>2 DEF NewestIs
  <2> QED
    BY <2>1, <2>3
<1>16. ~IsRecordingActive'
  BY DEF CommandsOK, IsRecordingActive
<1> QED
  BY <1>6, <1>7, <1>9, <1>10, <1>13, <1>14, <1>15, <1>16 DEF CommandsOK, d

\* The user begins a recording, or ends the one there is: one more command is sent.
LEMMA CommandAdded ==
  ASSUME CommandsOK, IInv, Commands \in Seq(RuntimeCommand),
         job.session \in Nat, UNCHANGED <<w_pc, job>>, NEW t, UserBegins(t) \/ UserEnds(t),
         Commands' = Commands \o Notifications(t)
  PROVE  CommandsOK'
<1> DEFINE d == Commands'
           e == IF UserBegins(t) THEN Command("Start", recording_session')
                ELSE Command("Stop", recording_session)
<1>1. /\ e \in RuntimeCommand /\ Notifications(t) = <<e>>
      /\ UserBegins(t) => e = Command("Start", recording_session')
      /\ ~UserBegins(t) => e = Command("Stop", recording_session) /\ UserEnds(t)
  BY DEF UserBegins, UserEnds, Command, RuntimeCommand, RecordingSession
<1> HIDE DEF e
<1>2. /\ Len(Commands) \in Nat /\ Len(d) = Len(Commands) + 1
      /\ \A i \in 1 .. Len(Commands) : d[i] = Commands[i]
      /\ d[Len(d)] = e /\ d # <<>>
  BY <1>1, OneMore
<1> HIDE DEF d
<1>3. \A i \in 1 .. Len(d) : \/ i \in 1 .. Len(Commands) /\ d[i] = Commands[i]
                             \/ i = Len(d) /\ d[i] = e
  BY <1>2
<1>4. \A kind, id : Sent(kind, id)' => \/ Sent(kind, id)
                                       \/ e.kind = kind /\ e.id = id
  <2> SUFFICES ASSUME NEW kind, NEW id, Sent(kind, id)'
               PROVE  \/ Sent(kind, id)
                      \/ e.kind = kind /\ e.id = id
    OBVIOUS
  <2>1. PICK i \in 1 .. Len(d) : d[i].kind = kind /\ d[i].id = id
    BY DEF Sent, d
  <2> QED
    BY <1>3, <2>1 DEF Sent
<1>5. Newest' = e /\ Commands' # <<>>
  BY <1>2 DEF Newest, d
<1>6. next_recording_session_id \in Nat /\ SessionMatchesState /\ PendingIsNewest
  BY BoundAssumption DEF IInv, TypeOK, RecordingTypeOK, RecordingInv
<1>7. \A kind, id : Sent(kind, id) => id # next_recording_session_id
  BY <1>6 DEF CommandsOK, Sent
<1>8. \A i \in 1 .. Len(Commands) : Commands[i].id \in Nat
  <2>1. \A i \in 1 .. Len(Commands) : Commands[i] \in RuntimeCommand
    BY ElementOfSeq
  <2> QED
    BY <2>1, BoundAssumption DEF RuntimeCommand, SessionId
<1>9. \A i, j \in 1 .. Len(d) : d[i].kind = d[j].kind /\ d[i].id = d[j].id => i = j
  <2>1. ~Sent(e.kind, e.id)
    <3>1. CASE UserBegins(t)
      BY <1>1, <1>7, <3>1 DEF UserBegins, Command
    <3>2. CASE ~UserBegins(t)
      <4>1. recording_session # NoSession
        BY <1>1, <3>2 DEF UserEnds, RecordingSession, NoSession, SessionId
      <4> QED
        BY <1>1, <3>2, <4>1 DEF CommandsOK, Command
    <3> QED
      BY <3>1, <3>2
  <2>2. \A i \in 1 .. Len(Commands) : ~(d[i].kind = e.kind /\ d[i].id = e.id)
    BY <1>2, <2>1 DEF Sent
  <2>3. \A i, j \in 1 .. Len(Commands) : d[i].kind = d[j].kind /\ d[i].id = d[j].id => i = j
    BY <1>2 DEF CommandsOK
  <2> QED
    BY <1>3, <2>2, <2>3
<1>10. CASE UserBegins(t)
  <2>1. /\ e.kind = "Start" /\ e.id = next_recording_session_id
        /\ recording_session'.id = next_recording_session_id
        /\ recording_session'.phase = "StartPending"
        /\ next_recording_session_id' = next_recording_session_id + 1
        /\ pending_ptt_capture' = NoPending
    BY <1>1, <1>10 DEF UserBegins, Command
  <2>2. \A i \in 1 .. Len(d) : d[i].id < next_recording_session_id'
    <3> SUFFICES ASSUME NEW i \in 1 .. Len(d)
                 PROVE  d[i].id < next_recording_session_id + 1
      BY <2>1
    <3>1. CASE i \in 1 .. Len(Commands) /\ d[i] = Commands[i]
      <4>1. d[i].id \in Nat /\ d[i].id < next_recording_session_id
        BY <1>8, <3>1 DEF CommandsOK
      <4> QED
        BY <1>6, <4>1
    <3>2. CASE d[i] = e
      BY <1>6, <2>1, <3>2
    <3> QED
      BY <1>3, <3>1, <3>2
  <2>3. Starting' => /\ job'.session < next_recording_session_id'
                     /\ ~Sent("Start", job.session)'
    <3> SUFFICES ASSUME Starting'
                 PROVE  /\ job.session < next_recording_session_id + 1
                        /\ ~Sent("Start", job.session)'
      BY <2>1
    <3>1. job.session < next_recording_session_id /\ ~Sent("Start", job.session)
      BY DEF CommandsOK, Starting
    <3> QED
      BY <1>4, <1>6, <2>1, <3>1
  <2>4. ~Sent("Stop", recording_session.id)'
    BY <1>4, <1>7, <2>1
  <2>5. NewestIs("Start", recording_session.id)'
    BY <1>5, <2>1 DEF NewestIs
  <2> QED
    BY <1>9, <2>1, <2>2, <2>3, <2>4, <2>5
       DEF CommandsOK, d, IsRecordingActive, Held, NoPending
<1>11. CASE ~UserBegins(t)
  <2>1. /\ e.kind = "Stop" /\ e.id = recording_session.id /\ e.mode = recording_session.mode
        /\ recording_session \in RecordingSession /\ recording_session' = NoSession
        /\ UNCHANGED next_recording_session_id
        /\ pending_ptt_capture' = IF recording_session.mode = "PushToTalk" THEN PendingCapture
                                  ELSE pending_ptt_capture
    BY <1>1, <1>11 DEF UserEnds, Command
  <2>2. recording_session # NoSession /\ recording_session.id = next_recording_session_id - 1
        /\ state # "Processing"
    BY <1>6, <2>1 DEF SessionMatchesState, RecordingSession, NoSession, SessionId
  <2>3. pending_ptt_capture = NoPending
    BY <1>6, <2>2 DEF PendingIsNewest
  <2>4. \A i \in 1 .. Len(d) : d[i].id < next_recording_session_id'
    BY <1>3, <1>6, <2>1, <2>2 DEF CommandsOK
  <2>5. Starting' => /\ job'.session < next_recording_session_id'
                     /\ ~Sent("Start", job.session)'
    BY <1>4, <2>1 DEF CommandsOK, Starting
  <2>6. pending_ptt_capture' # NoPending =>
           /\ pending_ptt_capture'.session_id = recording_session.id
           /\ recording_session.mode = "PushToTalk"
           /\ pending_ptt_capture'.kind = "Capture" => IsRecordingActive
    BY <2>1, <2>2, <2>3 DEF PendingCapture, IsRecordingActive
  <2>7. pending_ptt_capture' # NoPending =>
           NewestIs("Stop", pending_ptt_capture.session_id)' /\ Newest'.mode = "PushToTalk"
    BY <1>5, <2>1, <2>6 DEF NewestIs
  <2>8. Held' => Len(d) = 1
    BY <1>2, <2>6 DEF Held, NoPending, CommandsOK
  <2> QED
    BY <1>9, <2>1, <2>4, <2>5, <2>7, <2>8 DEF CommandsOK, d, IsRecordingActive, NoSession
<1> QED
  BY <1>10, <1>11

\* The worker opens the gate, or finds the recording it began to work for over.
LEMMA GateOpened ==
  ASSUME CommandsOK, IInv, Commands \in Seq(RuntimeCommand), OpenGate,
         Commands' = Commands
  PROVE  CommandsOK'
<1>1. /\ w_pc = "open_gate" /\ Starting /\ ~Starting'
      /\ UNCHANGED <<next_recording_session_id, pending_ptt_capture>>
      /\ \/ /\ GateMayOpen(job.session)
            /\ recording_session' = [recording_session EXCEPT !.phase = "Active"]
         \/ ~GateMayOpen(job.session) /\ UNCHANGED recording_session
  BY DEF OpenGate, Continue, MarkCapturePermitted, Starting, recordingVars
<1>2. CASE ~GateMayOpen(job.session) /\ UNCHANGED recording_session
  BY <1>1, <1>2 DEF CommandsOK, Sent, Newest, NewestIs, Held, IsRecordingActive, GateMayOpen
<1>3. CASE /\ GateMayOpen(job.session)
           /\ recording_session' = [recording_session EXCEPT !.phase = "Active"]
  <2>1. recording_session \in RecordingSession
    BY <1>3 DEF GateMayOpen, IInv, TypeOK, RecordingTypeOK, NoSession
  <2>2. /\ recording_session'.id = recording_session.id /\ recording_session'.phase = "Active"
        /\ recording_session.id = job.session /\ recording_session.phase = "StartPending"
        /\ recording_session # NoSession
    BY <1>3, <2>1 DEF RecordingSession, GateMayOpen, NoSession, SessionId
  <2>3. Commands = <<>>
    <3>1. ~Sent("Start", recording_session.id)
      BY <1>1, <2>2 DEF CommandsOK
    <3>2. ~NewestIs("Start", recording_session.id)
      BY <3>1, EmptySeq DEF Sent, NewestIs, Newest
    <3> QED
      BY <2>2, <3>2 DEF CommandsOK
  <2> QED
    BY <1>1, <2>2, <2>3 DEF CommandsOK, Sent, Newest, NewestIs, Held, IsRecordingActive
<1> QED
  BY <1>1, <1>2, <1>3

\* Every step leaves the queue, the reply and the buffers what their types say.
LEMMA StorageStep ==
  ASSUME StorageOK, IInv, JobOK, Next
  PROVE  StorageOK'
<1> USE BoundAssumption, TranscriptAssumption DEF StorageOK, ServerPcs
<1>1. CASE UserCommand
  <2>1. Notifications(reply'.transition) \in Seq(RuntimeCommand)
    <3> DEFINE N == Notifications(reply'.transition)
    <3>1. N = <<>> \/ \E e \in RuntimeCommand : N = <<e>>
      BY <1>1, UserCommandCases
         DEF UserDoesNothing, UserBegins, UserEnds, Command, RuntimeCommand, RecordingSession
    <3> HIDE DEF N
    <3> HIDE DEF RuntimeCommand
    <3>2. <<>> \in Seq(RuntimeCommand)
          /\ \A e \in RuntimeCommand : <<e>> \in Seq(RuntimeCommand)
      OBVIOUS
    <3> QED
      BY <3>1, <3>2 DEF N
  <2> QED
    BY <1>1, <2>1 DEF UserCommand, serverRest, workerVars
<1>2. CASE NotifyAndRespond
  <2>1. queue' \in Seq(RuntimeCommand)
    BY <1>2, CommandsSent, CommandsTyped
  <2> QED
    BY <1>2, <2>1 DEF NotifyAndRespond, serverRest, workerVars
<1>3. CASE ReplayStart \/ ReplayDone
  <2>1. last_transcript \in Transcripts \cup {None}
    BY DEF IInv, TypeOK, OutputTypeOK
  <2> QED
    BY <1>3, <2>1 DEF ReplayStart, ReplayDone, TakeLastTranscript, serverRest, workerVars
<1>4. CASE StatusQuery \/ StopServing \/ MainStep
           \/ TimePasses \/ Terminated \/ \E p \in Players : PlaybackCommandEnds(p)
  BY <1>4 DEF StatusQuery, StopServing, MainStep, SendShutdown, OnShutdown, Exit, Signal,
       TimePasses, Terminated, PlaybackCommandEnds, serverRest, workerVars, serverVars,
       othersVars, vars
<1>5. CASE ReceiveCommand
  <2>1. queue # <<>> => Tail(queue) \in Seq(RuntimeCommand)
    BY HeadTailProperties
  <2>2. /\ queue' \in Seq(RuntimeCommand)
        /\ UNCHANGED <<othersVars, vad, device, produced>>
        /\ ptt_buffer' \in {ptt_buffer, {}}
    BY <1>5, <2>1 DEF ReceiveCommand, OnStartRequested, OnContinuousStopRequested,
         OnPushToTalkStopRequested, Received
  <2> QED
    BY <2>2 DEF othersVars, serverVars
<1>6. CASE WorkerShutdown \/ Tick \/ WorkerRun
  <2>1. UNCHANGED <<queue, othersVars>>
    BY <1>6, DeviceChangeLeaves DEF WorkerShutdown, Tick, TickWhileRecording,
         TickWhileNotRecording, WorkerRun, PauseReturns, OpenGate, ResumeReturns,
         FinishesProcessing, FallbackCapture, PushToTalkCapture, ContinuousCapture, Recheck,
         EnforceLimit, LimitStopped, PushFrame, Pipeline, RateGate, ProviderSucceeds,
         ProviderFails, ProviderCooldown, CooledDown, Inject, pipelineRest
  <2>2. /\ job.session \in SessionId => Live(job.session) \in Audio
        /\ job.chunk \in SessionId => Live(job.chunk) \in Audio
    BY DEF Live, Audio
  <2>3. w_pc \in {"capture_ptt"} => job.session \in SessionId
    BY DEF JobOK, Jobs, SessionId
  <2>4. w_pc = "frames" => job.chunk \in SessionId
    BY FramesAssumption DEF JobOK, Jobs, SessionId
  <2>5. ptt_buffer' \subseteq Audio /\ vad' \subseteq Audio
    BY <1>6, <2>2, <2>3, <2>4, DeviceChangeLeaves DEF WorkerShutdown, Tick,
         TickWhileRecording, TickWhileNotRecording, WorkerRun, PauseReturns, OpenGate,
         ResumeReturns, FinishesProcessing, FallbackCapture, PushToTalkCapture, ContinuousCapture,
         Recheck, EnforceLimit, LimitStopped, PushFrame, Pipeline, RateGate, ProviderSucceeds,
         ProviderFails, ProviderCooldown, CooledDown, Inject, pipelineRest
  <2>6. device' \in DeviceStates
    BY <1>6, DeviceChangeLeaves DEF WorkerShutdown, Tick, TickWhileRecording,
         TickWhileNotRecording, WorkerRun, PauseReturns, OpenGate, ResumeReturns,
         FinishesProcessing, FallbackCapture, PushToTalkCapture, ContinuousCapture,
         CaptureSucceeds, CaptureFails, DeviceStates, Recheck, EnforceLimit, LimitStopped,
         PushFrame, Pipeline, RateGate, ProviderSucceeds, ProviderFails, ProviderCooldown,
         CooledDown, Inject, pipelineRest
  <2>7. produced' \in 0 .. MaxTranscripts
    <3>1. produced' = produced \/ produced' = Capped(produced + 1, MaxTranscripts)
      BY <1>6, DeviceChangeLeaves DEF WorkerShutdown, Tick, TickWhileRecording,
           TickWhileNotRecording, WorkerRun, PauseReturns, OpenGate, ResumeReturns,
           FinishesProcessing, FallbackCapture, PushToTalkCapture, ContinuousCapture, Recheck,
           EnforceLimit, LimitStopped, PushFrame, Pipeline, RateGate, ProviderSucceeds,
           ProviderFails, ProviderCooldown, CooledDown, Inject
    <3> QED
      BY <3>1 DEF Capped
  <2> QED
    BY <2>1, <2>5, <2>6, <2>7 DEF othersVars, serverVars
<1> QED
  BY <1>1, <1>2, <1>3, <1>4, <1>5, <1>6 DEF Next, ServerStep, WorkerStep

\* Every step keeps what the state machine waits for on its way to the worker.
LEMMA CommandsStep ==
  ASSUME CommandsOK, StorageOK, IInv, JobOK, Next
  PROVE  CommandsOK'
<1>0. Commands \in Seq(RuntimeCommand)
  BY CommandsTyped
<1>1. CASE UserCommand
  <2> DEFINE t == reply'.transition
  <2>1. /\ Commands' = Commands \o Notifications(t)
        /\ UNCHANGED <<w_pc, job>>
        /\ UserDoesNothing(t) \/ UserBegins(t) \/ UserEnds(t)
    BY <1>1, UserCommandCases, CommandsSent DEF UserCommand, serverRest, workerVars
  <2> HIDE DEF t
  <2>2. CASE UserDoesNothing(t)
    <3>1. Commands' = Commands
      BY <1>0, <2>1, <2>2, ConcatEmptySeq DEF UserDoesNothing
    <3> QED
      BY <2>1, <2>2, <3>1, CommandsKept DEF UserDoesNothing, Starting
  <2>3. CASE UserBegins(t) \/ UserEnds(t)
    <3>1. job.session \in Nat
      BY BoundAssumption DEF JobOK, Jobs
    <3> QED
      BY <1>0, <2>1, <2>3, <3>1, CommandAdded
  <2> QED
    BY <2>1, <2>2, <2>3
<1>2. CASE NotifyAndRespond
  BY <1>2, CommandsSent, CommandsKept
     DEF NotifyAndRespond, smvars, recordingVars, serverRest, workerVars, Starting
<1>3. CASE StatusQuery \/ ReplayStart \/ ReplayDone \/ StopServing \/ MainStep
           \/ TimePasses \/ Terminated \/ \E p \in Players : PlaybackCommandEnds(p)
  <2>1. /\ UNCHANGED <<queue, w_pc, job, recording_session, next_recording_session_id,
                       pending_ptt_capture>>
        /\ \/ UNCHANGED <<s_pc, reply>>
           \/ s_pc # "notify" /\ s_pc' # "notify"
    BY <1>3 DEF StatusQuery, Status, ReplayStart, ReplayDone, TakeLastTranscript,
         SetLastOutputErrorCode, StopServing, MainStep, SendShutdown, OnShutdown, Exit, Signal,
         TimePasses, Elapse, Terminated, PlaybackCommandEnds, serverRest, workerVars,
         serverVars, othersVars, smvars, recordingVars, vars
  <2>2. Commands' = Commands
    BY <2>1 DEF Commands
  <2> QED
    BY <2>1, <2>2, CommandsKept DEF Starting
<1>4. CASE ReceiveCommand
  <2> DEFINE c == Commands[1]
  <2>1. /\ w_pc = "select" /\ queue # <<>> /\ queue' = Tail(queue)
        /\ UNCHANGED <<s_pc, reply, recording_session, next_recording_session_id>>
    BY <1>4 DEF ReceiveCommand, OnStartRequested, OnContinuousStopRequested,
         OnPushToTalkStopRequested, Received, TakePendingPttCapture, othersVars, serverVars,
         smvars, recordingVars
  <2>2. Commands' = Tail(Commands) /\ Commands # <<>> /\ c = Head(queue)
    BY <2>1, CommandReceived, CommandsTyped
  <2>3. CASE OnStartRequested
    <3>1. [NoJob EXCEPT !.session = Head(queue).id].session = Head(queue).id
      BY DEF NoJob
    <3>2. c.kind = "Start" /\ Starting' /\ job'.session = c.id /\ UNCHANGED pending_ptt_capture
      BY <2>2, <2>3, <3>1 DEF OnStartRequested, Received, Continue, smvars, recordingVars,
           Starting
    <3> QED
      BY <1>0, <2>1, <2>2, <3>2, CommandsReceived DEF Starting
  <2>4. CASE OnContinuousStopRequested
    <3>1. c.kind = "Stop" /\ c.mode = "Continuous" /\ ~Starting' /\ UNCHANGED pending_ptt_capture
      BY <2>2, <2>4 DEF OnContinuousStopRequested, Received, ResumeCall, Continue, smvars,
           recordingVars, Starting
    <3> QED
      BY <1>0, <2>1, <2>2, <3>1, CommandsReceived DEF Starting
  <2>5. CASE OnPushToTalkStopRequested
    <3>1. /\ c.kind = "Stop" /\ c.mode = "PushToTalk" /\ ~Starting'
          /\ pending_ptt_capture' = IF pending_ptt_capture.session_id = c.id THEN NoPending
                                    ELSE pending_ptt_capture
      BY <2>2, <2>5 DEF OnPushToTalkStopRequested, Received, TakePendingPttCapture, ResumeCall,
           Continue, CollectByFallback, Starting
    <3> QED
      BY <1>0, <2>1, <2>2, <3>1, CommandsReceived DEF Starting
  <2> QED
    BY <1>4, <2>3, <2>4, <2>5 DEF ReceiveCommand
<1>5. CASE OpenGate
  <2>1. Commands' = Commands
    BY <1>5 DEF OpenGate, othersVars, serverVars, Commands
  <2> QED
    BY <1>0, <1>5, <2>1, GateOpened
<1>6. CASE PauseReturns
  <2>1. Commands' = Commands
    BY <1>6 DEF PauseReturns, othersVars, serverVars, Commands
  <2> QED
    BY <1>6, <2>1, CommandsKept DEF PauseReturns, Continue, Starting, smvars, recordingVars
<1>7. CASE \/ WorkerShutdown \/ Tick \/ ResumeReturns \/ FinishesProcessing \/ DeviceChange
           \/ FallbackCapture \/ PushToTalkCapture \/ ContinuousCapture \/ Recheck
           \/ EnforceLimit \/ LimitStopped \/ PushFrame \/ Pipeline
  <2>1. UNCHANGED <<queue, s_pc, reply>>
    BY <1>7, DeviceChangeLeaves DEF WorkerShutdown, Tick, TickWhileRecording,
         TickWhileNotRecording, ResumeReturns, FinishesProcessing, FallbackCapture,
         PushToTalkCapture, ContinuousCapture, Recheck, EnforceLimit, LimitStopped, PushFrame,
         Pipeline, RateGate, ProviderSucceeds, ProviderFails, ProviderCooldown, CooledDown, Inject,
         pipelineRest, othersVars, serverVars
  <2>2. Commands' = Commands
    BY <2>1 DEF Commands
  <2>3. ~Starting /\ ~Starting'
    <3>1. w_pc = "resuming" => job.next \notin {"pausing", "open_gate"}
      BY DEF JobOK, Jobs
    <3> QED
      BY <1>7, <3>1, DeviceChangeLeaves DEF WorkerShutdown, Tick, TickWhileRecording,
           TickWhileNotRecording, ResumeReturns, FinishesProcessing, Capturing, FallbackCapture,
           PushToTalkCapture, ContinuousCapture, Recheck, EnforceLimit, LimitStopped, PushFrame,
           NextFrame, Pipeline, RateGate, ProviderSucceeds, ProviderFails, ProviderCooldown,
           CooledDown, Inject, ResumeCall, Continue, AfterUtterance, Starting
  <2>4. /\ UNCHANGED next_recording_session_id
        /\ recording_session' \in {recording_session, NoSession}
        /\ pending_ptt_capture' \in {pending_ptt_capture, NoPending}
    BY <1>7, DeviceChangeLeaves DEF WorkerShutdown, Tick, TickWhileRecording,
         TickWhileNotRecording, ResumeReturns, FinishesProcessing, FinishProcessing,
         FallbackCapture, PushToTalkCapture, ContinuousCapture, CaptureSucceeds, CaptureFails,
         SetLastAudioErrorCode, Recheck, EnforceLimit, EnforceContinuousLimit,
         StopCurrentRecording, EndRecording, LimitStopped, PushFrame, Pipeline, RateGate,
         MarkTranscriptionRequest, ProviderSucceeds, AddSoftSpend, ProviderFails, ProviderCooldown,
         SetProviderErrorCooldown, CooledDown, Inject, SetLastTranscriptWithError, smvars,
         recordingVars
  <2> QED
    BY <2>2, <2>3, <2>4, CommandsKept
<1> QED
  BY <1>1, <1>2, <1>3, <1>4, <1>5, <1>6, <1>7
     DEF Next, ServerStep, WorkerStep, WorkerRun

-----------------------------------------------------------------------------
(* Audio is wanted of one recording, until it ends or its utterance is taken. *)

\* What is wanted is an open recording or the utterance of the last one, never both.
LEMMA WantedOnce ==
  ASSUME IInv
  PROVE  /\ Held => /\ recording_session = NoSession /\ ~IsRecordingActive
                    /\ state = "Processing" /\ pending_ptt_capture # NoPending
         /\ IsRecordingActive => /\ recording_session # NoSession /\ ~Held
                                 /\ pending_ptt_capture = NoPending
                                 /\ recording_session \in RecordingSession
                                 /\ recording_session.id # 0
         /\ IsRecordingActive /\ recording_session.mode = "PushToTalk" =>
               state = "PushToTalkActive"
         /\ IsRecordingActive /\ state = "PushToTalkActive" =>
               recording_session.mode = "PushToTalk"
         /\ pending_ptt_capture # NoPending => state = "Processing"
BY DEF IInv, TypeOK, RecordingTypeOK, RecordingInv, SessionMatchesState, PendingIsNewest,
       Held, NoPending, IsRecordingActive, NoSession, RecordingSession, RecordingMode, SessionId

\* Six actions touch the recording and the utterance; every other one leaves them alone.
LEMMA RecordingLeft ==
  ASSUME Next
  PROVE  \/ UserCommand \/ OpenGate \/ OnPushToTalkStopRequested \/ FinishesProcessing
         \/ EnforceLimit \/ ProviderCooldown
         \/ UNCHANGED <<state, recording_session, next_recording_session_id,
                        pending_ptt_capture>>
<1>1. CASE UNCHANGED smvars
  BY <1>1 DEF smvars, recordingVars
<1>2. CASE StatusQuery \/ ReplayStart \/ ReplayDone \/ TimePasses \/ DeviceChange
           \/ FallbackCapture \/ PushToTalkCapture \/ ContinuousCapture \/ RateGate
           \/ ProviderSucceeds \/ Inject
  BY <1>2, DeviceChangeLeaves DEF StatusQuery, Status, ReplayStart, ReplayDone,
       TakeLastTranscript, SetLastOutputErrorCode, TimePasses, Elapse, FallbackCapture,
       PushToTalkCapture, ContinuousCapture, CaptureSucceeds, CaptureFails, SetLastAudioErrorCode,
       RateGate, MarkTranscriptionRequest, ProviderSucceeds, AddSoftSpend, Inject,
       SetLastTranscriptWithError, smvars, recordingVars
<1> QED
  BY <1>1, <1>2, StateMachineCalls

\* Besides the user and the opening of the gate, a step leaves the recording and the
\* utterance alone or ends them.
LEMMA RecordingLeftOrEnded ==
  ASSUME Next
  PROVE  \/ UserCommand
         \/ OpenGate
         \/ /\ recording_session' \in {recording_session, NoSession}
            /\ pending_ptt_capture' \in {pending_ptt_capture, NoPending}
            /\ UNCHANGED next_recording_session_id
<1>1. CASE OnPushToTalkStopRequested \/ FinishesProcessing \/ EnforceLimit \/ ProviderCooldown
  BY <1>1 DEF OnPushToTalkStopRequested, TakePendingPttCapture, FinishesProcessing,
       FinishProcessing, EnforceLimit, EnforceContinuousLimit, ProviderCooldown,
       SetProviderErrorCooldown, StopCurrentRecording, EndRecording, recordingVars
<1> QED
  BY <1>1, RecordingLeft

\* Nothing but the opening of a gate makes audio wanted.
LEMMA WantedShrinks ==
  ASSUME IInv, Next, ~OpenGate
  PROVE  Wanted' => Wanted /\ WantedId' = WantedId
<1>1. CASE UserCommand
  <2> DEFINE t == reply'.transition
  <2>1. UserDoesNothing(t) \/ UserBegins(t) \/ UserEnds(t)
    BY <1>1, UserCommandCases
  <2> HIDE DEF t
  <2>2. CASE UserDoesNothing(t)
    BY <2>2 DEF UserDoesNothing, Wanted, WantedId, IsRecordingActive, Held
  <2>3. CASE UserBegins(t)
    BY <2>3 DEF UserBegins, Wanted, IsRecordingActive, Held, NoPending
  <2>4. CASE UserEnds(t)
    <3>1. recording_session # NoSession /\ recording_session' = NoSession
      BY <2>4 DEF UserEnds, RecordingSession, NoSession, SessionId
    <3>2. ~IsRecordingActive' /\ ~Held
      BY <3>1, WantedOnce DEF IsRecordingActive, NoSession
    <3>3. Held' => pending_ptt_capture' = PendingCapture
      BY <2>4, <3>2 DEF UserEnds, Held
    <3>4. Held' => IsRecordingActive /\ pending_ptt_capture'.session_id = recording_session.id
      BY <3>1, <3>3 DEF Held, PendingCapture, IsRecordingActive
    <3> QED
      BY <3>2, <3>4 DEF Wanted, WantedId
  <2> QED
    BY <2>1, <2>2, <2>3, <2>4
<1>2. CASE /\ recording_session' \in {recording_session, NoSession}
           /\ pending_ptt_capture' \in {pending_ptt_capture, NoPending}
  BY <1>2, WantedOnce DEF Wanted, WantedId, IsRecordingActive, Held, NoSession, NoPending
<1> QED
  BY <1>1, <1>2, RecordingLeftOrEnded

\* While audio is wanted, nothing is to be handled but the Stop of its utterance.
LEMMA ReceivedWhileWanted ==
  ASSUME IInv, CommandsOK, StorageOK, queue # <<>>, Wanted
  PROVE  /\ Held /\ Head(queue).kind = "Stop" /\ Head(queue).mode = "PushToTalk"
         /\ Head(queue).id = pending_ptt_capture.session_id
<1>1. Commands # <<>> /\ Head(queue) = Commands[1]
  BY CommandsTyped
<1>2. Held /\ pending_ptt_capture # NoPending
  BY <1>1, WantedOnce DEF CommandsOK, Wanted
<1>3. Len(Commands) = 1 /\ NewestIs("Stop", pending_ptt_capture.session_id)
      /\ Newest.mode = "PushToTalk"
  BY <1>2 DEF CommandsOK
<1> QED
  BY <1>1, <1>2, <1>3 DEF NewestIs, Newest

\* With nothing buffered and the microphone off, what is wanted stays under its pause.
LEMMA WantedKept ==
  ASSUME WantedOK, Wanted' => Wanted /\ WantedId' = WantedId, UNCHANGED active_session_id,
         ShutDown => ShutDown', ~Capturing', ptt_buffer' = {},
         Wanted' => /\ w_pc' \notin {"pausing", "open_gate", "limit_stopped", "cooled_down",
                                     "resuming"}
                    /\ job'.source # "PushToTalk"
  PROVE  WantedOK'
BY DEF WantedOK, Capturing

\* Once nothing is wanted, only the collection after a release is still under the pause.
LEMMA NothingWanted ==
  ASSUME ~Wanted', ptt_buffer' = {}, w_pc' # "capture_ptt",
         Capturing' => active_session_id' = job'.session
  PROVE  WantedOK'
BY DEF WantedOK

\* The user's commands leave what is buffered or being captured wanted.
LEMMA WantedUserStep ==
  ASSUME WantedOK, IInv, UserCommand, Next
  PROVE  WantedOK'
<1> DEFINE t == reply'.transition
<1>1. /\ UNCHANGED <<w_pc, job, ptt_buffer, active_session_id>> /\ ~ShutDown /\ ~ShutDown'
      /\ UserDoesNothing(t) \/ UserBegins(t) \/ UserEnds(t)
  BY UserCommandCases DEF UserCommand, serverRest, workerVars, playbackVars, ShutDown
<1>2. Wanted' => Wanted /\ WantedId' = WantedId
  <2>1. ~OpenGate
    BY DEF UserCommand, OpenGate, othersVars, serverVars
  <2> QED
    BY <2>1, WantedShrinks
<1> HIDE DEF t
<1>3. PushToTalkWanted => PushToTalkWanted' /\ WantedId' = WantedId
  <2> SUFFICES ASSUME PushToTalkWanted
               PROVE  PushToTalkWanted' /\ WantedId' = WantedId
    OBVIOUS
  <2>1. CASE UserDoesNothing(t)
    BY <2>1 DEF UserDoesNothing, PushToTalkWanted, WantedId, Held, IsRecordingActive
  <2>2. CASE UserBegins(t)
    BY <2>2, WantedOnce DEF UserBegins, PushToTalkWanted
  <2>3. CASE UserEnds(t)
    <3>1. recording_session # NoSession /\ recording_session' = NoSession
      BY <2>3 DEF UserEnds, RecordingSession, NoSession, SessionId
    <3>2. IsRecordingActive /\ recording_session.mode = "PushToTalk"
      BY <3>1, WantedOnce DEF PushToTalkWanted
    <3>3. pending_ptt_capture'.kind = "Capture"
          /\ pending_ptt_capture'.session_id = recording_session.id
      BY <2>3, <3>1, <3>2 DEF UserEnds, PendingCapture, IsRecordingActive
    <3>4. ~IsRecordingActive'
      BY <3>1 DEF IsRecordingActive, NoSession
    <3> QED
      BY <3>2, <3>3, <3>4 DEF PushToTalkWanted, Held, WantedId
  <2> QED
    BY <1>1, <2>1, <2>2, <2>3
<1> QED
  BY <1>1, <1>2, <1>3 DEF WantedOK, Capturing, Live

\* The release's Stop command ends the wait for the utterance.
LEMMA WantedStopStep ==
  ASSUME WantedOK, IInv, CommandsOK, StorageOK, PassOK, OnPushToTalkStopRequested
  PROVE  WantedOK'
<1> DEFINE id == Head(queue).id
           j  == [NoJob EXCEPT !.session = id, !.source = "PushToTalk"]
<1>1. /\ w_pc = "select" /\ queue # <<>>
      /\ UNCHANGED <<s_pc, recording_session>>
      /\ pending_ptt_capture' = IF pending_ptt_capture.session_id = id THEN NoPending
                                ELSE pending_ptt_capture
  BY DEF OnPushToTalkStopRequested, Received, TakePendingPttCapture, othersVars, serverVars
<1>2. w_pc' \notin {"capture_ptt", "capture_continuous"}
  BY DEF OnPushToTalkStopRequested, ResumeCall, Continue, CollectByFallback
<1>3. CASE Wanted
  <2>1. Held /\ id = pending_ptt_capture.session_id /\ ~IsRecordingActive
    BY <1>1, <1>3, ReceivedWhileWanted, WantedOnce
  <2>2. ~Wanted'
    BY <1>1, <2>1 DEF Wanted, Held, IsRecordingActive, NoPending
  <2>3. ptt_buffer' = {}
    BY <1>1, <2>1 DEF OnPushToTalkStopRequested, TakePendingPttCapture, Held, NoPending
  <2>4. Capturing' => active_session_id' = job'.session
    <3> SUFFICES ASSUME w_pc' = "capture_fallback"
                 PROVE  active_session_id' = job'.session
      BY <1>2 DEF Capturing
    <3>1. job' = j /\ UNCHANGED active_session_id
      BY DEF OnPushToTalkStopRequested, ResumeCall, Continue, CollectByFallback, playbackVars
    <3>2. j.session = id
      BY DEF NoJob
    <3>3. ~ShutDown
      BY <1>1 DEF ShutDown, PassOK
    <3> QED
      BY <1>3, <2>1, <3>1, <3>2, <3>3 DEF WantedOK, WantedId
  <2> QED
    BY <1>2, <2>2, <2>3, <2>4, NothingWanted
<1>4. CASE ~Wanted
  <2>1. ptt_buffer = {} /\ ~Held /\ ~IsRecordingActive
    BY <1>4 DEF WantedOK, PushToTalkWanted, Wanted
  <2>2. ~Wanted'
    BY <1>1, <2>1 DEF Wanted, Held, IsRecordingActive, NoPending
  <2>3. ptt_buffer' = {} /\ w_pc' # "capture_fallback"
    BY <2>1 DEF OnPushToTalkStopRequested, TakePendingPttCapture, ResumeCall, Continue, Held,
         NoPending
  <2> QED
    BY <1>2, <2>2, <2>3, NothingWanted DEF Capturing
<1> QED
  BY <1>3, <1>4

\* Every step keeps what is wanted under its pause.
LEMMA WantedStep ==
  ASSUME WantedOK, IInv, CommandsOK, StorageOK, PassOK, JobOK, Next
  PROVE  WantedOK'
<1>0. ~OpenGate => (Wanted' => Wanted /\ WantedId' = WantedId)
  BY WantedShrinks
<1>1. CASE UserCommand
  BY <1>1, WantedUserStep
<1>2. CASE NotifyAndRespond \/ StatusQuery \/ ReplayStart \/ ReplayDone \/ StopServing
           \/ MainStep \/ TimePasses \/ Terminated \/ DeviceChange
           \/ \E p \in Players : PlaybackCommandEnds(p)
  <2>1. UNCHANGED <<w_pc, job, ptt_buffer, recording_session, pending_ptt_capture>>
    BY <1>2, DeviceChangeLeaves DEF NotifyAndRespond, StatusQuery, Status, ReplayStart,
         ReplayDone, TakeLastTranscript, SetLastOutputErrorCode, StopServing, MainStep,
         SendShutdown, OnShutdown, Exit, Signal, TimePasses, Elapse, Terminated,
         SetLastAudioErrorCode, PlaybackCommandEnds, serverRest, workerVars, smvars, recordingVars,
         vars
  <2>2. ShutDown => ShutDown' /\ w_pc = "done"
    BY <1>2, DeviceChangeLeaves DEF NotifyAndRespond, StatusQuery, ReplayStart, ReplayDone,
         StopServing, MainStep, SendShutdown, OnShutdown, Exit, Signal, TimePasses, Terminated,
         PlaybackCommandEnds, serverVars, othersVars, vars, ShutDown, PassOK
  <2>3. \/ UNCHANGED active_session_id
        \/ ShutDown' /\ w_pc = "done"
    BY <1>2, DeviceChangeLeaves DEF NotifyAndRespond, StatusQuery, ReplayStart, ReplayDone,
         StopServing, MainStep, SendShutdown, OnShutdown, Exit, Playback!EndResumePass,
         Playback!coordinatorVars, Signal, TimePasses, Terminated, PlaybackCommandEnds,
         Playback!PlayerCommandEnds, serverRest, playbackVars, vars, ShutDown
  <2>4. Capturing => w_pc # "done"
    BY DEF Capturing
  <2> QED
    BY <2>1, <2>2, <2>3, <2>4 DEF WantedOK, Wanted, WantedId, PushToTalkWanted, Held,
         IsRecordingActive, Capturing, Live
<1>3. CASE OnStartRequested \/ OnContinuousStopRequested
  <2>1. /\ queue # <<>> /\ (Head(queue).kind = "Start" \/ Head(queue).mode = "Continuous")
        /\ UNCHANGED <<recording_session, pending_ptt_capture, ptt_buffer>>
        /\ w_pc' \notin {"capture_ptt", "capture_continuous", "capture_fallback"}
    BY <1>3 DEF OnStartRequested, OnContinuousStopRequested, Received, ResumeCall, Continue,
         smvars, recordingVars
  <2>2. queue # <<>> /\ ~Wanted
    BY <1>3, <2>1, ReceivedWhileWanted DEF OnStartRequested, OnContinuousStopRequested,
       Received
  <2>3. ~Wanted' /\ ptt_buffer' = {}
    BY <2>1, <2>2 DEF Wanted, IsRecordingActive, Held, WantedOK, PushToTalkWanted
  <2> QED
    BY <2>1, <2>3, NothingWanted DEF Capturing
<1>4. CASE OnPushToTalkStopRequested
  BY <1>4, WantedStopStep
<1>5. CASE PauseReturns \/ ResumeReturns \/ FinishesProcessing \/ LimitStopped \/ CooledDown
           \/ FallbackCapture
  <2>1. ~Wanted /\ ptt_buffer = {}
    <3>1. \/ w_pc \in {"pausing", "limit_stopped", "cooled_down", "capture_fallback", "resuming"}
          \/ w_pc = "finish" /\ job.source = "PushToTalk"
      BY <1>5 DEF PauseReturns, ResumeReturns, FinishesProcessing, LimitStopped, CooledDown,
           FallbackCapture, JobOK
    <3> QED
      BY <3>1 DEF WantedOK, PushToTalkWanted, Wanted
  <2>2. ptt_buffer' = {} /\ ~Capturing' /\ ~OpenGate
    <3>1. w_pc = "resuming" => job.next \in {"select", "finish", "rate_gate", "frames"}
      BY DEF JobOK, Jobs
    <3> QED
      BY <1>5, <2>1, <3>1 DEF PauseReturns, ResumeReturns, FinishesProcessing, LimitStopped,
           CooledDown, FallbackCapture, ResumeCall, Continue, AfterUtterance, pipelineRest,
           Capturing, OpenGate
  <2>3. ~Wanted'
    BY <1>0, <2>1, <2>2
  <2> QED
    BY <2>2, <2>3, NothingWanted DEF Capturing
<1>6. CASE OpenGate
  <2>1. ~Wanted /\ ptt_buffer = {} /\ active_session_id = job.session /\ w_pc = "open_gate"
    BY <1>6 DEF OpenGate, WantedOK, PushToTalkWanted, Wanted, PassOK
  <2>2. /\ w_pc' = "select" /\ job' = NoJob
        /\ UNCHANGED <<ptt_buffer, active_session_id, pending_ptt_capture>>
        /\ \/ /\ GateMayOpen(job.session)
              /\ recording_session' = [recording_session EXCEPT !.phase = "Active"]
           \/ UNCHANGED recording_session
    BY <1>6 DEF OpenGate, MarkCapturePermitted, Continue, recordingVars, playbackVars
  <2>3. ~Held'
    BY <2>1, <2>2 DEF Wanted, Held
  <2>4. IsRecordingActive' => recording_session'.id = job.session
    <3>1. recording_session \in RecordingSession \cup {NoSession}
      BY DEF IInv, TypeOK, RecordingTypeOK
    <3> QED
      BY <2>1, <2>2, <3>1 DEF Wanted, IsRecordingActive, GateMayOpen, RecordingSession, NoSession
  <2>5. job'.source = "None"
    BY <2>2 DEF NoJob
  <2> QED
    BY <2>1, <2>2, <2>3, <2>4, <2>5 DEF WantedOK, Wanted, WantedId, Capturing
<1>7. CASE Tick
  <2>1. /\ w_pc = "select"
        /\ UNCHANGED <<recording_session, pending_ptt_capture, active_session_id, s_pc>>
        /\ job'.source # "PushToTalk"
        /\ \/ w_pc' \in {"select", "recheck_ptt"} /\ UNCHANGED ptt_buffer
           \/ w_pc' = "enforce" /\ RecordingIn("ContinuousActive") /\ UNCHANGED ptt_buffer
           \/ w_pc' \in {"select", "rate_gate"} /\ ptt_buffer' = {}
    <3>1. /\ NoJob.source = "None"
          /\ [NoJob EXCEPT !.audio = vad, !.source = "Continuous"].source = "Continuous"
      BY DEF NoJob
    <3> HIDE DEF NoJob
    <3>2. /\ w_pc = "select"
          /\ UNCHANGED <<recording_session, pending_ptt_capture, active_session_id, s_pc>>
      BY <1>7 DEF Tick, TickWhileRecording, TickWhileNotRecording, smvars,
         recordingVars, playbackVars, othersVars, serverVars
    <3>3. CASE TickWhileRecording
      BY <3>1, <3>2, <3>3 DEF TickWhileRecording, Continue
    <3>4. CASE TickWhileNotRecording
      BY <3>1, <3>2, <3>4 DEF TickWhileNotRecording, Continue
    <3> QED
      BY <1>7, <3>3, <3>4 DEF Tick
  <2>2. RecordingIn("ContinuousActive") => ptt_buffer = {}
    BY WantedOnce DEF RecordingIn, WantedOK, PushToTalkWanted
  <2> QED
    BY <2>1, <2>2 DEF WantedOK, Wanted, WantedId, PushToTalkWanted, Held, IsRecordingActive,
         Capturing, ShutDown, Live
<1>8. CASE Recheck
  <2>1. /\ w_pc \in {"recheck_ptt", "recheck_continuous"}
        /\ UNCHANGED <<recording_session, pending_ptt_capture, active_session_id, s_pc,
                       ptt_buffer>>
        /\ \/ w_pc' = "select" /\ job' = NoJob
           \/ /\ w_pc' = "capture_ptt" /\ w_pc = "recheck_ptt"
              /\ RecordingIn("PushToTalkActive")
              /\ job' = [NoJob EXCEPT !.session = recording_session.id]
           \/ /\ w_pc' = "capture_continuous" /\ w_pc = "recheck_continuous"
              /\ RecordingIn("ContinuousActive")
              /\ job' = [NoJob EXCEPT !.session = recording_session.id]
    BY <1>8 DEF Recheck, Continue, smvars, recordingVars, playbackVars, othersVars, serverVars
  <2>2. /\ NoJob.source = "None"
        /\ \A id : [NoJob EXCEPT !.session = id].source = "None"
                   /\ [NoJob EXCEPT !.session = id].session = id
    BY DEF NoJob
  <2>3. ~ShutDown
    BY <2>1 DEF ShutDown, PassOK
  <2>4. RecordingIn("PushToTalkActive") => PushToTalkWanted
    BY WantedOnce DEF RecordingIn, PushToTalkWanted
  <2> HIDE DEF NoJob
  <2>5. CASE w_pc' = "select"
    BY <2>1, <2>2, <2>5 DEF WantedOK, Wanted, WantedId, PushToTalkWanted, Held,
         IsRecordingActive, Capturing, ShutDown, Live
  <2>6. CASE w_pc' # "select"
    <3>1. IsRecordingActive /\ job'.session = recording_session.id /\ job'.source = "None"
          /\ w_pc' \in {"capture_ptt", "capture_continuous"}
          /\ (w_pc' = "capture_ptt" => w_pc = "recheck_ptt" /\ PushToTalkWanted)
          /\ (w_pc' = "capture_continuous" => w_pc = "recheck_continuous")
      BY <2>1, <2>2, <2>4, <2>6 DEF RecordingIn
    <3>2. active_session_id = recording_session.id /\ WantedId = recording_session.id /\ Wanted
      BY <2>3, <3>1 DEF WantedOK, Wanted, WantedId
    <3> QED
      BY <2>1, <3>1, <3>2 DEF WantedOK, Wanted, WantedId, PushToTalkWanted, Held,
         IsRecordingActive, Capturing, ShutDown, Live
  <2> QED
    BY <2>5, <2>6
<1>9. CASE PushToTalkCapture
  <2>1. /\ w_pc = "capture_ptt" /\ w_pc' = "select" /\ job'.source # "PushToTalk"
        /\ UNCHANGED <<recording_session, pending_ptt_capture, active_session_id, s_pc>>
        /\ ptt_buffer' \in {ptt_buffer, ptt_buffer \cup {Live(job.session)}}
    BY <1>9 DEF PushToTalkCapture, Continue, CaptureSucceeds, CaptureFails, NoJob,
         SetLastAudioErrorCode, smvars, recordingVars, playbackVars, othersVars, serverVars
  <2>2. PushToTalkWanted /\ WantedId = job.session
    BY <2>1 DEF WantedOK
  <2>3. \A a \in ptt_buffer' : a = Live(WantedId)
    BY <2>1, <2>2 DEF WantedOK
  <2> QED
    BY <2>1, <2>2, <2>3 DEF WantedOK, Wanted, WantedId, PushToTalkWanted, Held,
         IsRecordingActive, Capturing, ShutDown, Live
<1>10. CASE WorkerShutdown
  BY <1>10 DEF WorkerShutdown, WantedOK, Wanted, WantedId, PushToTalkWanted, Held,
         IsRecordingActive, Capturing, ShutDown, Live, smvars, recordingVars, playbackVars,
         othersVars, serverVars
<1>11. CASE ContinuousCapture \/ EnforceLimit \/ PushFrame \/ RateGate \/ ProviderSucceeds
            \/ ProviderFails \/ ProviderCooldown \/ Inject
  <2>1. /\ w_pc \notin {"select", "done", "recheck_ptt", "capture_ptt"}
        /\ UNCHANGED <<ptt_buffer, active_session_id, s_pc>> /\ ~OpenGate
    BY <1>11 DEF ContinuousCapture, EnforceLimit, PushFrame, RateGate, ProviderSucceeds,
         ProviderFails, ProviderCooldown, Inject, OpenGate, pipelineRest, playbackVars,
         othersVars, serverVars
  <2>2. ptt_buffer' = {} /\ (ShutDown => ShutDown')
    BY <2>1 DEF WantedOK, ShutDown
  <2>3. w_pc' \in {"select", "frames", "recheck_continuous", "limit_stopped", "rate_gate",
                   "provider", "inject", "cooldown", "cooled_down", "finish"}
        /\ (w_pc' = "limit_stopped" => EnforceLimit) /\ (w_pc' = "cooled_down" => ProviderCooldown)
    BY <1>11 DEF ContinuousCapture, EnforceLimit, PushFrame, NextFrame, RateGate,
         ProviderSucceeds, ProviderFails, ProviderCooldown, Inject, AfterUtterance, Continue
  <2>4. job.source # "PushToTalk" => job'.source # "PushToTalk"
    <3>1. job \in Jobs /\ NoJob.source = "None"
      BY DEF JobOK, NoJob
    <3>2. CASE ContinuousCapture \/ EnforceLimit \/ PushFrame
      BY <3>1, <3>2 DEF ContinuousCapture, EnforceLimit, PushFrame, NextFrame, Continue,
           Jobs, NoJob
    <3>3. CASE RateGate \/ ProviderSucceeds \/ ProviderFails \/ ProviderCooldown \/ Inject
      BY <3>1, <3>3 DEF RateGate, ProviderSucceeds, ProviderFails, ProviderCooldown, Inject,
           Continue, Jobs
    <3> QED
      BY <1>11, <3>2, <3>3
  <2>5. CASE EnforceLimit /\ w_pc' = "limit_stopped"
    <3>1. IsRecordingActive /\ recording_session' = NoSession
          /\ UNCHANGED pending_ptt_capture
      BY <2>5, WantedOnce DEF EnforceLimit, EnforceContinuousLimit, StopCurrentRecording,
           EndRecording, ContinuousLimitExceeded, Continue, NotStopped, recordingVars
    <3>2. ~Wanted'
      BY <3>1, WantedOnce DEF Wanted, Held, IsRecordingActive, NoSession
    <3> QED
      BY <2>2, <2>5, <3>2, NothingWanted DEF Capturing
  <2>6. CASE ProviderCooldown
    <3>1. recording_session' = NoSession /\ pending_ptt_capture' = NoPending
      BY <2>6 DEF ProviderCooldown, SetProviderErrorCooldown, StopCurrentRecording, EndRecording
    <3>2. ~Wanted'
      BY <3>1 DEF Wanted, Held, IsRecordingActive, NoSession, NoPending
    <3> QED
      BY <2>2, <2>3, <3>2, NothingWanted DEF Capturing
  <2>7. CASE w_pc' \notin {"limit_stopped", "cooled_down"}
    BY <1>0, <2>1, <2>2, <2>3, <2>4, <2>7, WantedKept DEF Capturing, WantedOK
  <2> QED
    BY <2>3, <2>5, <2>6, <2>7
<1> QED
  BY <1>1, <1>2, <1>3, <1>4, <1>5, <1>6, <1>7, <1>8, <1>9, <1>10, <1>11
     DEF Next, ServerStep, WorkerStep, WorkerRun, ReceiveCommand, Pipeline

-----------------------------------------------------------------------------

\* The worker stays with an utterance of push-to-talk until it has finished it.
LEMMA UtteranceKept ==
  ASSUME JobOK, Next, job.source = "PushToTalk", ~FinishesProcessing
  PROVE  job'.source = "PushToTalk"
<1> USE DEF JobOK, PipelinePcs
<1>1. /\ job \in Jobs /\ AfterUtterance = "finish"
      /\ w_pc \in {"rate_gate", "provider", "cooldown", "cooled_down", "inject", "resuming",
                   "finish", "capture_fallback"}
      /\ w_pc = "resuming" => job.next # "select"
  BY DEF AfterUtterance
<1>2. CASE UNCHANGED job
  BY <1>2
<1>3. CASE FallbackCapture
  <2>1. Late(job.session) \in Audio
    BY <1>3 DEF FallbackCapture, Late, Audio, Jobs, SessionId
  <2> QED
    BY <1>1, <1>3, <2>1 DEF FallbackCapture, ResumeCall, Continue, Jobs
<1>4. CASE RateGate \/ ProviderSucceeds \/ ProviderFails \/ ProviderCooldown \/ CooledDown
           \/ Inject
  BY <1>1, <1>4 DEF RateGate, ProviderSucceeds, ProviderFails, ProviderCooldown, CooledDown,
       Inject, ResumeCall, Continue, Jobs
<1>5. CASE OthersStep \/ DeviceChange \/ ResumeReturns
  BY <1>1, <1>5, OthersLeaveWorker, DeviceChangeLeaves DEF ResumeReturns, Continue, workerVars
<1>6. ~(WorkerShutdown \/ ReceiveCommand \/ Tick \/ PauseReturns \/ OpenGate
        \/ PushToTalkCapture \/ ContinuousCapture \/ Recheck \/ EnforceLimit \/ LimitStopped
        \/ PushFrame)
  BY <1>1 DEF WorkerShutdown, ReceiveCommand, OnStartRequested, OnContinuousStopRequested,
       OnPushToTalkStopRequested, Received, Tick, TickWhileRecording, TickWhileNotRecording,
       PauseReturns, OpenGate, PushToTalkCapture, ContinuousCapture, Recheck, EnforceLimit,
       LimitStopped, PushFrame
<1> QED
  BY <1>3, <1>4, <1>5, <1>6 DEF Next, OthersStep, WorkerStep, WorkerRun, Pipeline

\* What the worker does with the Stop of a push-to-talk recording.
LEMMA UtteranceTaken ==
  ASSUME IInv, StorageOK, OnPushToTalkStopRequested
  PROVE  LET id   == Head(queue).id
             mine == pending_ptt_capture.session_id = id
         IN  /\ pending_ptt_capture' = IF mine THEN NoPending ELSE pending_ptt_capture
             /\ UNCHANGED state
             /\ mine /\ pending_ptt_capture # NoPending =>
                   job'.source = "PushToTalk" /\ job'.session = id
             /\ job'.audio # {} => Held /\ mine /\ job'.audio = ptt_buffer
             /\ id \in SessionId
<1> DEFINE id == Head(queue).id
           j == [NoJob EXCEPT !.session = id, !.source = "PushToTalk"]
           k == [j EXCEPT !.audio = ptt_buffer]
           mine == pending_ptt_capture.session_id = id
<1>1. id \in SessionId
  BY HeadTyped DEF StorageOK, OnPushToTalkStopRequested, Received
<1>2. /\ NoJob \in Jobs /\ NoJob.audio = {} /\ j \in Jobs /\ j.source = "PushToTalk"
      /\ j.session = id /\ j.audio = {}
  <2>1. NoJob \in Jobs /\ NoJob.audio = {}
    BY NoJobOK
  <2>2. id \in 0 .. MaxSessions
    BY <1>1 DEF SessionId
  <2> HIDE DEF id
  <2> QED
    BY <2>1, <2>2 DEF Jobs
<1>3. /\ k \in Jobs /\ k.source = "PushToTalk" /\ k.session = id /\ k.audio = ptt_buffer
  <2>1. ptt_buffer \in SUBSET Audio
    BY DEF StorageOK
  <2> HIDE DEF j, id
  <2> QED
    BY <1>2, <2>1 DEF Jobs
<1>4. /\ \A n \in {"finish", "rate_gate", "select", "frames"} :
            /\ [j EXCEPT !.next = n].source = "PushToTalk" /\ [j EXCEPT !.next = n].session = id
            /\ [j EXCEPT !.next = n].audio = {}
            /\ [k EXCEPT !.next = n].source = "PushToTalk" /\ [k EXCEPT !.next = n].session = id
            /\ [k EXCEPT !.next = n].audio = ptt_buffer
  <2> HIDE DEF j, k, id
  <2> QED
    BY <1>2, <1>3 DEF Jobs
<1>5. /\ pending_ptt_capture' = IF mine THEN NoPending ELSE pending_ptt_capture
      /\ UNCHANGED state
      /\ \/ job' = NoJob /\ ~(mine /\ pending_ptt_capture # NoPending)
         \/ job' \in {j, [j EXCEPT !.next = "finish"]}
         \/ /\ mine /\ pending_ptt_capture.kind = "Capture"
            /\ job' \in {k, [k EXCEPT !.next = "rate_gate"]}
  <2> HIDE DEF j, k, NoJob
  <2>1. PICK out \in {pending_ptt_capture, NoPending} :
           /\ TakePendingPttCapture(id, out)
           /\ \/ out = NoPending /\ Continue("select", NoJob)
              \/ out.kind = "Cancelled" /\ ResumeCall(id, "finish", j)
              \/ out.kind = "Capture" /\ ResumeCall(id, "rate_gate", k)
              \/ out.kind = "Capture" /\ CollectByFallback(id, j)
    BY DEF OnPushToTalkStopRequested, j, k
  <2>2. out = IF mine THEN pending_ptt_capture ELSE NoPending
    BY <2>1 DEF TakePendingPttCapture
  <2>3. NoPending.kind = "None"
    BY DEF NoPending
  <2> HIDE DEF NoPending
  <2> QED
    BY <2>1, <2>2, <2>3 DEF TakePendingPttCapture, ResumeCall, Continue, CollectByFallback
<1> HIDE DEF j, k, id
<1>6. job'.audio # {} => Held /\ mine /\ job'.audio = ptt_buffer
  BY <1>2, <1>3, <1>4, <1>5 DEF Held
<1>7. mine /\ pending_ptt_capture # NoPending => job'.source = "PushToTalk" /\ job'.session = id
  BY <1>2, <1>3, <1>4, <1>5
<1> QED
  BY <1>1, <1>5, <1>6, <1>7 DEF id

\* A released utterance is never forgotten.
LEMMA ProcessingStep ==
  ASSUME ProcessingOK, IInv, StorageOK, JobOK, Next
  PROVE  ProcessingOK'
<1>1. CASE UserCommand
  <2> DEFINE t == reply'.transition
  <2>1. UNCHANGED job /\ (UserDoesNothing(t) \/ UserBegins(t) \/ UserEnds(t))
    BY <1>1, UserCommandCases DEF UserCommand, serverRest, workerVars
  <2> HIDE DEF t
  <2>2. CASE UserEnds(t)
    <3>1. recording_session # NoSession
      BY <2>2 DEF UserEnds, RecordingSession, NoSession, SessionId
    <3>2. PendingCapture.kind # "None"
      BY <3>1 DEF PendingCapture
    <3> QED
      BY <2>2, <3>2 DEF UserEnds, ProcessingOK, NoPending
  <2> QED
    BY <2>1, <2>2 DEF ProcessingOK, UserDoesNothing, UserBegins
<1>2. CASE OnPushToTalkStopRequested
  <2>1. job.source # "PushToTalk"
    BY <1>2 DEF OnPushToTalkStopRequested, Received, JobOK, NoJob
  <2> QED
    BY <1>2, <2>1, UtteranceTaken DEF ProcessingOK
<1>3. CASE FinishesProcessing \/ ProviderCooldown
  BY <1>3 DEF FinishesProcessing, FinishProcessing, ProviderCooldown, SetProviderErrorCooldown,
       ProcessingOK
<1>4. CASE ~UserCommand /\ ~OnPushToTalkStopRequested /\ ~FinishesProcessing /\ ~ProviderCooldown
  <2>1. state' \in {state, "Idle"} /\ UNCHANGED pending_ptt_capture
    BY <1>4, RecordingLeft DEF OpenGate, MarkCapturePermitted, EnforceLimit,
       EnforceContinuousLimit, recordingVars
  <2> QED
    BY <1>4, <2>1, UtteranceKept DEF ProcessingOK
<1> QED
  BY <1>1, <1>2, <1>3, <1>4

\* The audio of a push-to-talk utterance is of the recording it was released from.
LEMMA PttUtteranceStep ==
  ASSUME PttUtteranceIsOwn, WantedOK, IInv, StorageOK, JobOK, Next
  PROVE  PttUtteranceIsOwn'
<1> USE DEF PttUtteranceIsOwn
<1>1. CASE OnPushToTalkStopRequested
  <2> SUFFICES ASSUME NEW a \in job'.audio
               PROVE  a.id = job'.session
    OBVIOUS
  <2>1. /\ Held /\ a \in ptt_buffer /\ pending_ptt_capture.session_id = Head(queue).id
        /\ pending_ptt_capture # NoPending
    BY <1>1, UtteranceTaken DEF Held, NoPending
  <2>2. a = Live(WantedId) /\ WantedId = pending_ptt_capture.session_id
    BY <2>1, WantedOnce DEF WantedOK, WantedId
  <2>3. job'.session = Head(queue).id
    BY <1>1, <2>1, UtteranceTaken
  <2> QED
    BY <2>1, <2>2, <2>3 DEF Live
<1>2. CASE FallbackCapture
  <2>1. /\ job \in Jobs /\ job.audio = {} /\ Late(job.session) \in Audio
    BY <1>2 DEF FallbackCapture, JobOK, Late, Audio, Jobs, SessionId
  <2>2. job'.session = job.session /\ job'.audio \in {{}, {Late(job.session)}}
    BY <1>2, <2>1 DEF FallbackCapture, ResumeCall, Continue, Jobs
  <2> QED
    BY <2>2 DEF Late
<1>3. CASE ResumeReturns \/ RateGate
  BY <1>3 DEF ResumeReturns, RateGate, Continue, NoJob, AfterUtterance
<1>4. CASE CooledDown
  <2>1. job \in Jobs /\ job.audio = {}
    BY <1>4 DEF CooledDown, JobOK
  <2>2. job'.audio = {}
    BY <1>4, <2>1 DEF CooledDown, ResumeCall, Continue, Jobs, NoJob
  <2> QED
    BY <2>2
<1>5. CASE UNCHANGED <<w_pc, job>>
  BY <1>5
<1>6. CASE OthersStep \/ DeviceChange \/ WorkerShutdown
  BY <1>5, <1>6, OthersLeaveWorker, DeviceChangeLeaves DEF WorkerShutdown, workerVars
<1>7. CASE \/ OnStartRequested \/ PauseReturns \/ OpenGate \/ FinishesProcessing
           \/ PushToTalkCapture \/ ContinuousCapture \/ Recheck \/ EnforceLimit
           \/ ProviderSucceeds \/ ProviderFails \/ ProviderCooldown \/ Inject
  BY <1>7 DEF OnStartRequested, PauseReturns, OpenGate, FinishesProcessing, PushToTalkCapture,
       ContinuousCapture, Recheck, EnforceLimit, ProviderSucceeds, ProviderFails,
       ProviderCooldown, Inject, AfterUtterance, Continue
<1>8. CASE OnContinuousStopRequested \/ LimitStopped
  <2>1. job' \in {NoJob, [NoJob EXCEPT !.next = "select"]}
    BY <1>8 DEF OnContinuousStopRequested, LimitStopped, ResumeCall, Continue
  <2> QED
    BY <2>1 DEF NoJob
<1>9. CASE Tick
  <2>1. \/ w_pc' \in {"recheck_ptt", "enforce", "select"}
        \/ job' = [NoJob EXCEPT !.audio = vad, !.source = "Continuous"]
    BY <1>9 DEF Tick, TickWhileRecording, TickWhileNotRecording, Continue
  <2> QED
    BY <2>1 DEF NoJob
<1>10. CASE PushFrame
  <2> DEFINE rest == [job EXCEPT !.frames = @ - 1]
  <2>1. /\ w_pc = "frames"
        /\ \/ w_pc' \in {"select", "frames"}
           \/ job' = [rest EXCEPT !.audio = vad \cup {Live(job.chunk)}, !.source = "Continuous"]
    BY <1>10 DEF PushFrame, NextFrame, Continue
  <2>2. rest \in Jobs
    BY <2>1, FramesAssumption DEF JobOK, Jobs
  <2> HIDE DEF rest
  <2> QED
    BY <2>1, <2>2 DEF Jobs
<1> QED
  BY <1>1, <1>2, <1>3, <1>4, <1>6, <1>7, <1>8, <1>9, <1>10
     DEF Next, OthersStep, WorkerStep, WorkerRun, ReceiveCommand, Pipeline

\* Only capture_audio touches the handle and the error code, and it ends with the two in
\* agreement: no other step of the worker is taken inside it.
LEMMA AudioErrorStep ==
  ASSUME AudioErrorIsCurrent, StorageOK, Next
  PROVE  AudioErrorIsCurrent'
<1>1. CASE UNCHANGED <<device, last_audio_error_code>> /\ (w_pc' = w_pc \/ ~Capturing)
  BY <1>1 DEF AudioErrorIsCurrent, HasHandle, Capturing
<1>2. CASE DeviceChange
  BY <1>2, NoneAssumption
     DEF DeviceChange, ReopenDevice, ReportRecovery, LoseDevice, captureRest, Capturing,
         SetLastAudioErrorCode, AudioErrorIsCurrent, HasHandle, smvars, outputVars
<1>3. CASE FallbackCapture \/ PushToTalkCapture \/ ContinuousCapture
  <2>1. CaptureSucceeds \/ CaptureFails
    BY <1>3 DEF FallbackCapture, PushToTalkCapture, ContinuousCapture
  <2>2. \/ device' = "open" /\ last_audio_error_code' = None
        \/ device' = "absent" /\ last_audio_error_code' # None
        \/ device \in {"absent", "open"} /\ UNCHANGED <<device, last_audio_error_code>>
    BY <2>1, NoneAssumption
       DEF CaptureSucceeds, CaptureFails, SetLastAudioErrorCode, smvars, outputVars
  <2> QED
    BY <2>2 DEF AudioErrorIsCurrent, HasHandle
<1>4. CASE UserCommand \/ StatusQuery \/ ReplayStart \/ ReplayDone \/ TimePasses \/ OpenGate
           \/ OnPushToTalkStopRequested \/ FinishesProcessing \/ EnforceLimit \/ RateGate
           \/ ProviderSucceeds \/ ProviderCooldown \/ Inject
  <2>1. UNCHANGED <<device, last_audio_error_code>>
    BY <1>4 DEF UserCommand, PttPress, PttRelease, ToggleContinuous, StatusQuery, Status,
         ReplayStart, ReplayDone, TakeLastTranscript, SetLastOutputErrorCode, TimePasses, Elapse,
         OpenGate, MarkCapturePermitted, OnPushToTalkStopRequested, TakePendingPttCapture,
         FinishesProcessing, FinishProcessing, EnforceLimit, EnforceContinuousLimit, RateGate,
         MarkTranscriptionRequest, ProviderSucceeds, AddSoftSpend, ProviderCooldown,
         SetProviderErrorCooldown, Inject, SetLastTranscriptWithError, pipelineRest, serverRest,
         workerVars, smvars, outputVars
  <2>2. w_pc' = w_pc \/ ~Capturing
    BY <1>4 DEF UserCommand, StatusQuery, ReplayStart, ReplayDone, TimePasses, OpenGate,
         OnPushToTalkStopRequested, Received, FinishesProcessing, EnforceLimit, RateGate,
         ProviderSucceeds, ProviderCooldown, Inject, serverRest, workerVars, Capturing
  <2> QED
    BY <1>1, <2>1, <2>2
<1>5. CASE NotifyAndRespond \/ StopServing \/ MainStep \/ Terminated \/ WorkerShutdown
           \/ Tick \/ PauseReturns \/ ResumeReturns \/ OnStartRequested
           \/ OnContinuousStopRequested \/ Recheck \/ LimitStopped \/ PushFrame
           \/ ProviderFails \/ CooledDown \/ \E p \in Players : PlaybackCommandEnds(p)
  <2>1. UNCHANGED <<device, last_audio_error_code>>
    BY <1>5 DEF NotifyAndRespond, StopServing, MainStep, SendShutdown, OnShutdown, Exit,
         Signal, Terminated, WorkerShutdown, Tick, TickWhileRecording, TickWhileNotRecording,
         PauseReturns, ResumeReturns, OnStartRequested, OnContinuousStopRequested, Recheck,
         LimitStopped, PushFrame, ProviderFails, CooledDown, PlaybackCommandEnds, pipelineRest,
         serverRest, workerVars, vars, smvars, outputVars
  <2>2. w_pc' = w_pc \/ ~Capturing
    BY <1>5 DEF NotifyAndRespond, StopServing, MainStep, SendShutdown, OnShutdown, Exit,
         Signal, Terminated, WorkerShutdown, Tick, TickWhileRecording, TickWhileNotRecording,
         PauseReturns, ResumeReturns, OnStartRequested, OnContinuousStopRequested, Received,
         Recheck, LimitStopped, PushFrame, ProviderFails, CooledDown, PlaybackCommandEnds,
         serverRest, workerVars, vars, Capturing
  <2> QED
    BY <1>1, <2>1, <2>2
<1> QED
  BY <1>2, <1>3, <1>4, <1>5
     DEF Next, ServerStep, WorkerStep, WorkerRun, ReceiveCommand, Pipeline

\* Nothing but the worker, with its newest, and a failed replay retain a transcript.
LEMMA TranscriptsMoved ==
  ASSUME StorageOK, JobOK, Next
  PROVE  /\ produced' \in 0 .. MaxTranscripts /\ produced' >= produced
         /\ \/ UNCHANGED s_transcript
            \/ s_transcript' \in {None, last_transcript}
         /\ \/ last_transcript' \in {last_transcript, None}
            \/ last_transcript = None /\ last_transcript' = s_transcript
            \/ w_pc = "inject" /\ last_transcript' = job.transcript
         /\ w_pc' = "inject" => \/ w_pc = "inject" /\ UNCHANGED <<job, produced>>
                                \/ job'.transcript = produced' /\ produced' > 0
<1> USE TranscriptAssumption
<1>1. produced \in 0 .. MaxTranscripts /\ job \in Jobs
  BY DEF StorageOK, JobOK
<1>2. CASE ReplayStart \/ ReplayDone
  BY <1>1, <1>2 DEF ReplayStart, ReplayDone, TakeLastTranscript, SetLastOutputErrorCode,
       RestoredTranscript, serverRest, workerVars
<1>3. CASE ProviderSucceeds
  <2>1. /\ produced' = Capped(produced + 1, MaxTranscripts)
        /\ job' = [job EXCEPT !.audio = {}, !.transcript = produced']
        /\ UNCHANGED <<s_transcript, last_transcript>>
    BY <1>3 DEF ProviderSucceeds, AddSoftSpend, Continue, pipelineRest, othersVars, serverVars,
         outputVars
  <2>2. produced' \in 0 .. MaxTranscripts /\ produced' >= produced /\ produced' > 0
    BY <1>1, <2>1 DEF Capped
  <2>3. job'.transcript = produced'
    BY <1>1, <2>1, <2>2 DEF Jobs
  <2> QED
    BY <2>1, <2>2, <2>3
<1>4. CASE Inject
  BY <1>1, <1>4 DEF Inject, SetLastTranscriptWithError, Continue, AfterUtterance, pipelineRest,
       othersVars, serverVars, smvars, outputVars
<1>5. CASE ~ReplayStart /\ ~ReplayDone /\ ~ProviderSucceeds /\ ~Inject
  <2>1. UNCHANGED <<last_transcript, s_transcript, produced>>
    <3>1. CASE DeviceChange \/ FallbackCapture \/ PushToTalkCapture \/ ContinuousCapture
               \/ UserCommand \/ StatusQuery \/ TimePasses \/ OpenGate
               \/ OnPushToTalkStopRequested \/ FinishesProcessing \/ EnforceLimit \/ RateGate
               \/ ProviderCooldown
      BY <3>1, DeviceChangeLeaves DEF FallbackCapture, PushToTalkCapture, ContinuousCapture,
           CaptureSucceeds, CaptureFails, SetLastAudioErrorCode, UserCommand, PttPress, PttRelease,
           ToggleContinuous, StatusQuery, Status, TimePasses, Elapse, OpenGate,
           MarkCapturePermitted, OnPushToTalkStopRequested, TakePendingPttCapture,
           FinishesProcessing, FinishProcessing, EnforceLimit, EnforceContinuousLimit, RateGate,
           MarkTranscriptionRequest, ProviderCooldown, SetProviderErrorCooldown, pipelineRest,
           serverRest, workerVars, othersVars, serverVars, smvars, outputVars
    <3>2. CASE NotifyAndRespond \/ StopServing \/ MainStep \/ Terminated \/ WorkerShutdown
               \/ Tick \/ PauseReturns \/ ResumeReturns \/ OnStartRequested
               \/ OnContinuousStopRequested \/ Recheck \/ LimitStopped \/ PushFrame
               \/ ProviderFails \/ CooledDown \/ \E p \in Players : PlaybackCommandEnds(p)
      BY <3>2 DEF NotifyAndRespond, StopServing, MainStep, SendShutdown, OnShutdown, Exit,
           Signal, Terminated, WorkerShutdown, Tick, TickWhileRecording,
           TickWhileNotRecording, PauseReturns, ResumeReturns, OnStartRequested,
           OnContinuousStopRequested, Recheck, LimitStopped, PushFrame, ProviderFails,
           CooledDown, PlaybackCommandEnds, pipelineRest, serverRest, workerVars, othersVars,
           serverVars, smvars, outputVars, vars
    <3> QED
      BY <1>5, <3>1, <3>2
         DEF Next, ServerStep, WorkerStep, WorkerRun, ReceiveCommand, Pipeline
  <2>2. w_pc' = "inject" => w_pc = "inject" /\ UNCHANGED job
    <3>1. CASE OthersStep
      BY <3>1, OthersLeaveWorker DEF workerVars
    <3>2. CASE WorkerStep
      <4>1. job.next # "inject"
        BY <1>1 DEF Jobs
      <4> QED
        BY <1>5, <3>2, <4>1, DeviceChangeLeaves DEF WorkerStep, WorkerRun, ReceiveCommand,
             Pipeline, WorkerShutdown, Tick, TickWhileRecording, TickWhileNotRecording,
             PauseReturns, ResumeReturns, OnStartRequested, OnContinuousStopRequested,
             OnPushToTalkStopRequested, Recheck, LimitStopped, PushFrame, NextFrame, ProviderFails,
             CooledDown, Capturing, FallbackCapture, PushToTalkCapture, ContinuousCapture,
             OpenGate, FinishesProcessing, EnforceLimit, RateGate, ProviderCooldown, ResumeCall,
             CollectByFallback, AfterUtterance, Continue
    <3> QED
      BY <3>1, <3>2 DEF Next, OthersStep
  <2> QED
    BY <1>1, <2>1, <2>2
<1> QED
  BY <1>2, <1>3, <1>4, <1>5

\* The worker's transcript stays the newest.
LEMMA TranscriptStep ==
  ASSUME TranscriptOK, StorageOK, IInv, JobOK, Next
  PROVE  TranscriptOK'
<1>1. /\ produced \in Nat /\ produced' \in Nat /\ produced' >= produced
      /\ last_transcript \in (1 .. MaxTranscripts) \cup {None}
      /\ s_transcript \in (1 .. MaxTranscripts) \cup {None}
  BY TranscriptsMoved, TranscriptAssumption DEF StorageOK, IInv, TypeOK, OutputTypeOK
<1>2. /\ last_transcript # None => last_transcript <= produced'
      /\ s_transcript # None => s_transcript <= produced'
      /\ w_pc = "inject" => job.transcript <= produced'
  BY <1>1, TranscriptAssumption DEF TranscriptOK
<1> QED
  BY <1>1, <1>2, TranscriptsMoved DEF TranscriptOK

\* One request at a time: its cost is added before the next one is let through.
LEMMA SpendStep ==
  ASSUME SpendOK, IInv, JobOK, Next
  PROVE  SpendOK'
<1> SUFFICES ASSUME SpendLimit # Unset, ~AllowOverLimit
             PROVE  /\ monthly_spend' < SpendLimit + RequestCost
                    /\ w_pc' = "provider" => monthly_spend' < SpendLimit
  BY DEF SpendOK
<1>1. /\ monthly_spend \in Nat /\ SpendLimit \in Nat /\ RequestCost \in Nat /\ SpendCap \in Nat
      /\ monthly_spend < SpendLimit + RequestCost
      /\ w_pc = "provider" => monthly_spend < SpendLimit
  BY GuardrailAssumption DEF SpendOK, IInv, TypeOK, GuardrailTypeOK
<1>2. CASE RateGate
  BY <1>1, <1>2 DEF RateGate, MarkTranscriptionRequest, OverSpent, Continue, AfterUtterance
<1>3. CASE ProviderSucceeds
  BY <1>1, <1>3 DEF ProviderSucceeds, AddSoftSpend, Continue, Capped
<1>4. CASE ~RateGate /\ ~ProviderSucceeds
  <2>1. UNCHANGED monthly_spend
    <3>1. CASE DeviceChange \/ FallbackCapture \/ PushToTalkCapture \/ ContinuousCapture
               \/ UserCommand \/ StatusQuery \/ ReplayStart \/ ReplayDone \/ TimePasses
               \/ OpenGate \/ OnPushToTalkStopRequested \/ FinishesProcessing \/ EnforceLimit
               \/ ProviderCooldown \/ Inject
      BY <3>1, DeviceChangeLeaves DEF FallbackCapture, PushToTalkCapture, ContinuousCapture,
           CaptureSucceeds, CaptureFails, SetLastAudioErrorCode, UserCommand, PttPress, PttRelease,
           ToggleContinuous, StatusQuery, Status, ReplayStart, ReplayDone, TakeLastTranscript,
           SetLastOutputErrorCode, TimePasses, Elapse, OpenGate, MarkCapturePermitted,
           OnPushToTalkStopRequested, TakePendingPttCapture, FinishesProcessing, FinishProcessing,
           EnforceLimit, EnforceContinuousLimit, ProviderCooldown, SetProviderErrorCooldown,
           Inject, SetLastTranscriptWithError, smvars, guardrailVars
    <3>2. CASE UNCHANGED smvars
      BY <3>2 DEF smvars, guardrailVars
    <3> QED
      BY <1>4, <3>1, <3>2, StateMachineCalls
  <2>2. w_pc' = "provider" => w_pc = "provider"
    <3>1. CASE OthersStep
      BY <3>1, OthersLeaveWorker DEF workerVars
    <3>2. CASE WorkerStep
      <4>1. job.next # "provider"
        BY DEF JobOK, Jobs
      <4> QED
        BY <1>4, <3>2, <4>1, DeviceChangeLeaves DEF WorkerStep, WorkerRun, ReceiveCommand,
             Pipeline, WorkerShutdown, Tick, TickWhileRecording, TickWhileNotRecording,
             PauseReturns, ResumeReturns, OnStartRequested, OnContinuousStopRequested,
             OnPushToTalkStopRequested, Recheck, LimitStopped, PushFrame, NextFrame, ProviderFails,
             CooledDown, Capturing, FallbackCapture, PushToTalkCapture, ContinuousCapture,
             OpenGate, Inject, FinishesProcessing, EnforceLimit, ProviderCooldown, ResumeCall,
             CollectByFallback, AfterUtterance, Continue
    <3> QED
      BY <3>1, <3>2 DEF Next, OthersStep
  <2> QED
    BY <1>1, <2>1, <2>2
<1> QED
  BY <1>2, <1>3, <1>4

\* A daemon that has started is at rest and owes nobody anything.
LEMMA DaemonInit ==
  ASSUME Init
  PROVE  DaemonInv
<1>1. IInv
  BY InitInv DEF Init
<1>2. /\ s_pc = "accept" /\ w_pc = "select" /\ job = NoJob /\ queue = <<>> /\ Commands = <<>>
      /\ ptt_buffer = {} /\ vad = {} /\ produced = 0 /\ s_transcript = None
      /\ shutdown_sent = FALSE /\ device = IF last_audio_error_code = None THEN "open" ELSE "absent"
      /\ last_transcript = None /\ monthly_spend = 0
      /\ state = "Idle" /\ recording_session = NoSession /\ pending_ptt_capture = NoPending
  BY DEF Init, SMInit, Commands
<1>3. NoJob \in Jobs /\ NoJob.source = "None" /\ NoJob.frames = 0 /\ NoJob.audio = {}
  BY NoJobOK
<1>4. StorageOK
  <2>1. device \in DeviceStates /\ shutdown_sent \in BOOLEAN
    BY <1>2 DEF DeviceStates
  <2>2. produced \in 0 .. MaxTranscripts
    BY <1>2, TranscriptAssumption
  <2>3. queue \in Seq(RuntimeCommand)
    BY <1>2
  <2> QED
    BY <1>2, <2>1, <2>2, <2>3 DEF StorageOK, ServerPcs
<1>5. JobOK
  BY <1>2, <1>3 DEF JobOK, WorkerPcs, PipelinePcs
<1>6. PassOK
  BY <1>2, BoundAssumption DEF Init, PassOK, Playback!PlaybackInit, Playback!PlaybackTypeOK,
       Playback!PausedOnlyUnderOwner, Playback!NoPass, Playback!NoOwner
<1>7. CommandsOK
  BY <1>2 DEF CommandsOK, Starting, IsRecordingActive, Held, NoSession, NoPending
<1>8. WantedOK /\ ProcessingOK
  BY <1>2 DEF WantedOK, Wanted, Capturing, IsRecordingActive, Held, NoSession, NoPending,
       ProcessingOK
<1>9. PttUtteranceIsOwn /\ AudioErrorIsCurrent /\ TranscriptOK
  BY <1>2, <1>3 DEF PttUtteranceIsOwn, AudioErrorIsCurrent, HasHandle, TranscriptOK
<1>10. SpendOK
  BY <1>2, GuardrailAssumption DEF SpendOK
<1> QED
  BY <1>1, <1>4, <1>5, <1>6, <1>7, <1>8, <1>9, <1>10 DEF DaemonInv

\* Every step of the server, the worker, main, the players and time keeps it.
LEMMA DaemonStep ==
  ASSUME DaemonInv, [Next]_vars
  PROVE  DaemonInv'
<1>1. CASE Next
  <2> USE <1>1 DEF DaemonInv
  <2>1. StorageOK' /\ IInv'
    BY StorageStep, StateMachineStep
  <2>2. JobOK'
    BY JobStep DEF StorageOK
  <2>3. PassOK'
    BY PassStep DEF StorageOK
  <2>4. CommandsOK' /\ WantedOK' /\ ProcessingOK'
    BY CommandsStep, WantedStep, ProcessingStep
  <2>5. PttUtteranceIsOwn' /\ AudioErrorIsCurrent' /\ TranscriptOK' /\ SpendOK'
    BY PttUtteranceStep, AudioErrorStep, TranscriptStep, SpendStep
  <2> QED
    BY <2>1, <2>2, <2>3, <2>4, <2>5
<1>2. CASE UNCHANGED vars
  <2> USE <1>2 DEF DaemonInv, vars, smvars, recordingVars, guardrailVars, outputVars,
                   playbackVars, serverVars, workerVars
  <2>1. IInv'
    BY NothingCalledInv
  <2>2. Commands' = Commands
    BY DEF Commands
  <2>3. StorageOK' /\ JobOK' /\ PassOK'
    BY DEF StorageOK, JobOK, PassOK, Playback!PlaybackTypeOK, Playback!PausedOnlyUnderOwner,
           Playback!NoPass
  <2>4. CommandsOK'
    BY <2>2 DEF CommandsOK, Sent, Newest, NewestIs, Held, IsRecordingActive, Starting
  <2>5. WantedOK' /\ ProcessingOK'
    BY DEF WantedOK, Wanted, WantedId, PushToTalkWanted, Held, IsRecordingActive, Capturing,
           ShutDown, Live, ProcessingOK
  <2>6. PttUtteranceIsOwn' /\ AudioErrorIsCurrent' /\ TranscriptOK' /\ SpendOK'
    BY DEF PttUtteranceIsOwn, AudioErrorIsCurrent, HasHandle, Capturing, TranscriptOK, SpendOK
  <2> QED
    BY <2>1, <2>3, <2>4, <2>5, <2>6
<1> QED
  BY <1>1, <1>2

\* The invariant of the daemon, for any number of recordings, players, frames and
\* transcripts, any limits and any order of the steps of its tasks.
THEOREM DaemonInductive == SafeSpec => []DaemonInv
BY DaemonInit, DaemonStep, PTL DEF SafeSpec

-----------------------------------------------------------------------------
(* The recordings of the daemon.                                            *)

\* Whichever task takes it, a step keeps the recording, begins one, opens its gate or
\* ends it.
LEMMA DaemonStepKinds ==
  ASSUME DaemonInv, Next
  PROVE  Kept \/ Begun \/ Opened \/ Ended
<1> USE DEF DaemonInv
<1>1. recording_session \in RecordingSession \cup {NoSession}
  BY DEF IInv, TypeOK, RecordingTypeOK
<1>2. CASE UserCommand
  BY <1>2, UserCallKinds DEF UserCommand, UserCall
<1>3. CASE OpenGate
  BY <1>1, <1>3 DEF OpenGate, MarkCapturePermitted, GateMayOpen, recordingVars, Kept, Opened,
                    NoSession
<1>4. CASE EnforceLimit \/ ProviderCooldown
  BY <1>1, <1>4 DEF EnforceLimit, ProviderCooldown, EnforceContinuousLimit,
                    SetProviderErrorCooldown, StopCurrentRecording, EndRecording,
                    recordingVars, Kept, Ended
<1>5. CASE OnPushToTalkStopRequested \/ FinishesProcessing \/ RateGate \/ ProviderSucceeds
  BY <1>5 DEF OnPushToTalkStopRequested, FinishesProcessing, RateGate, ProviderSucceeds,
              TakePendingPttCapture, FinishProcessing, MarkTranscriptionRequest, AddSoftSpend,
              recordingVars, Kept
<1>6. CASE ReplayStart \/ ReplayDone \/ Inject
  BY <1>6 DEF ReplayStart, ReplayDone, Inject, TakeLastTranscript, SetLastOutputErrorCode,
              SetLastTranscriptWithError, smvars, recordingVars, Kept
<1>7. CASE DeviceChange \/ FallbackCapture \/ PushToTalkCapture \/ ContinuousCapture
  BY <1>7, DeviceChangeLeaves DEF FallbackCapture, PushToTalkCapture, ContinuousCapture,
       CaptureSucceeds, CaptureFails, SetLastAudioErrorCode, smvars, recordingVars, Kept
<1>8. CASE StatusQuery \/ TimePasses \/ UNCHANGED smvars
  BY <1>8 DEF StatusQuery, TimePasses, Status, Elapse, smvars, recordingVars, Kept
<1> QED
  BY <1>2, <1>3, <1>4, <1>5, <1>6, <1>7, <1>8, StateMachineCalls

\* Server, worker and signals together give every recording the life that the lifecycle
\* promises: ids in order, one recording at a time, a gate that opens once, and an end.
THEOREM DaemonImplementation == SafeSpec => ImplementsLifecycle
<1>1. Init => Lifecycle!Init
  BY DEF Init, SMInit, Lifecycle!Init, Lifecycle!SessionId, LifecyclePhase, SessionId
<1>2. ASSUME DaemonInv, DaemonInv', [Next]_vars
      PROVE  [Lifecycle!Next]_LifecyclePhase
  <2>1. CASE Kept
    BY <2>1 DEF Kept, LifecyclePhase
  <2>2. CASE Begun \/ Opened \/ Ended
    <3>1. IInv /\ IInv'
      BY <1>2 DEF DaemonInv
    <3> QED
      BY <2>2, <3>1, BegunIsRequest, OpenedIsOpen, EndedIsEnd
         DEF Lifecycle!Next, Lifecycle!SessionId, SessionId
  <2>3. CASE UNCHANGED vars
    BY <2>3 DEF vars, smvars, recordingVars, LifecyclePhase
  <2> QED
    BY <1>2, <2>1, <2>2, <2>3, DaemonStepKinds
<1> QED
  BY <1>1, <1>2, DaemonInductive, PTL DEF SafeSpec, ImplementsLifecycle, Lifecycle!Spec

-----------------------------------------------------------------------------
(* What follows from it.                                                    *)

\* Type correctness of all that the tasks share and keep to themselves.
THEOREM DaemonTypeCorrect == SafeSpec => []DaemonTypeOK
<1>1. DaemonInv => DaemonTypeOK
  <2> SUFFICES ASSUME DaemonInv PROVE DaemonTypeOK
    OBVIOUS
  <2>1. s_transcript \in Transcripts \cup {None}
    BY DEF DaemonInv, StorageOK
  <2> QED
    BY <2>1 DEF DaemonInv, IInv, StorageOK, JobOK, PassOK, DaemonTypeOK, Jobs, WorkerPcs,
         ServerPcs, DeviceStates
<1> QED
  BY <1>1, DaemonInductive, PTL

\* The microphone is on only behind the completed pause of that very recording, and no
\* pause is undone while a gate is open (AC 1 and AC 2 of the technical specification).
THEOREM CapturesBehindGate == SafeSpec => []CaptureBehindGate
<1>1. DaemonInv => CaptureBehindGate
  <2> SUFFICES ASSUME DaemonInv PROVE CaptureBehindGate
    OBVIOUS
  <2>1. Capturing => active_session_id = job.session /\ pass = Playback!NoPass
    BY DEF DaemonInv, WantedOK, PassOK, Capturing
  <2>2. IsRecordingActive /\ s_pc \notin {"resuming", "exited"} =>
           active_session_id = recording_session.id
    BY DEF DaemonInv, WantedOK, Wanted, WantedId, ShutDown
  <2> QED
    BY <2>1, <2>2 DEF CaptureBehindGate
<1> QED
  BY <1>1, DaemonInductive, PTL

\* The provider is never sent, as a push-to-talk utterance, audio of another recording.
THEOREM UtterancesAreOwn == SafeSpec => []PttUtteranceIsOwn
BY DaemonInductive, PTL DEF DaemonInv

\* The audio error in the status payload is there exactly while the worker has no handle,
\* except inside the capture that changes the handle, between its two locked sections.
THEOREM AudioErrorsAreCurrent == SafeSpec => []AudioErrorIsCurrent
BY DaemonInductive, PTL DEF DaemonInv

\* Whatever is requested or released is on its way to the worker or in its hands: no
\* interleaving of commands, cooldowns and limits lets the state machine wait for nobody.
THEOREM WaitsHaveOwners == SafeSpec => []EveryWaitHasAnOwner
<1>1. ASSUME StorageOK, NEW kind, NEW id, NewestIs(kind, id)
      PROVE  InFlight(kind, id)
  <2> DEFINE N == Notifications(reply.transition)
             n == Len(Commands)
  <2>1. /\ Commands \in Seq(RuntimeCommand) /\ queue \in Seq(RuntimeCommand)
        /\ n \in 1 .. n /\ n \in Nat
        /\ Commands[n].kind = kind /\ Commands[n].id = id
    BY <1>1, CommandsTyped, EmptySeq DEF StorageOK, NewestIs, Newest
  <2>2. CASE s_pc = "notify"
    <3>1. /\ N \in Seq(RuntimeCommand) /\ n = Len(queue) + Len(N)
          /\ Len(queue) \in Nat /\ Len(N) \in Nat
          /\ Commands[n] = IF n <= Len(queue) THEN queue[n] ELSE N[n - Len(queue)]
      <4>1. N \in Seq(RuntimeCommand) /\ Commands = queue \o N
        BY <1>1, <2>2 DEF StorageOK, Commands
      <4> HIDE DEF N
      <4> QED
        BY <2>1, <4>1, ConcatProperties
    <3> HIDE DEF N
    <3>2. CASE n <= Len(queue)
      <4>1. n \in DOMAIN queue /\ queue[n] = Commands[n]
        BY <2>1, <3>1, <3>2
      <4> QED
        BY <2>1, <4>1 DEF InFlight
    <3>3. CASE ~(n <= Len(queue))
      <4>1. n - Len(queue) \in DOMAIN N /\ N[n - Len(queue)] = Commands[n]
        BY <2>1, <3>1, <3>3
      <4> QED
        BY <2>1, <2>2, <4>1 DEF InFlight, N
    <3> QED
      BY <3>2, <3>3
  <2>3. CASE s_pc # "notify"
    <3>1. n \in DOMAIN queue /\ queue[n] = Commands[n]
      BY <2>1, <2>3 DEF Commands
    <3> QED
      BY <2>1, <3>1 DEF InFlight
  <2> QED
    BY <2>2, <2>3
<1>2. DaemonInv => EveryWaitHasAnOwner
  <2> SUFFICES ASSUME DaemonInv PROVE EveryWaitHasAnOwner
    OBVIOUS
  <2>1. recording_session.phase = "StartPending" =>
           \/ InFlight("Start", recording_session.id)
           \/ w_pc \in {"pausing", "open_gate"} /\ job.session = recording_session.id
    BY <1>1 DEF DaemonInv, CommandsOK, Starting
  <2>2. state = "Processing" =>
           \/ /\ pending_ptt_capture # NoPending
              /\ InFlight("Stop", pending_ptt_capture.session_id)
           \/ job.source = "PushToTalk"
    BY <1>1 DEF DaemonInv, CommandsOK, ProcessingOK
  <2> QED
    BY <2>1, <2>2 DEF EveryWaitHasAnOwner
<1> QED
  BY <1>2, DaemonInductive, PTL

\* The soft limit is overshot by less than the cost of one request.
THEOREM OvershootBounded == SafeSpec => []SpendOvershootBounded
<1>1. DaemonInv => SpendOvershootBounded
  BY DEF DaemonInv, SpendOK, SpendOvershootBounded
<1> QED
  BY <1>1, DaemonInductive, PTL

\* A replay that fails does not bring an old transcript back over a newer one.
THEOREM NewestKept == SafeSpec => NewestTranscriptKept
<1>1. ASSUME DaemonInv, [Next]_vars
      PROVE  [last_transcript # None /\ last_transcript' # None =>
                 last_transcript' >= last_transcript]_vars
  <2> SUFFICES ASSUME Next, last_transcript # None, last_transcript' # None
               PROVE  last_transcript' >= last_transcript
    BY <1>1
  <2>1. /\ last_transcript \in Nat /\ last_transcript <= produced
        /\ w_pc = "inject" => job.transcript = produced
        /\ produced \in Nat
    BY <1>1, TranscriptAssumption DEF DaemonInv, TranscriptOK, IInv, TypeOK, OutputTypeOK, StorageOK
  <2>2. \/ last_transcript' = last_transcript
        \/ w_pc = "inject" /\ last_transcript' = job.transcript
    BY <1>1, TranscriptsMoved DEF DaemonInv
  <2> QED
    BY <2>1, <2>2
<1> QED
  BY <1>1, DaemonInductive, PTL DEF SafeSpec, NewestTranscriptKept

-----------------------------------------------------------------------------
(* Where audio comes from: the history of the gates.                        *)

\* The microphone is turned on for what is wanted.
LEMMA CaptureBegins ==
  ASSUME IInv, JobOK, StorageOK, Next, Capturing'
  PROVE  \/ Capturing /\ job'.session = job.session
         \/ Wanted /\ job'.session = WantedId
<1>1. CASE UNCHANGED <<w_pc, job>>
  BY <1>1 DEF Capturing
<1>2. CASE Recheck
  <2>1. IsRecordingActive /\ job' = [NoJob EXCEPT !.session = recording_session.id]
    BY <1>2 DEF Recheck, Continue, RecordingIn, Capturing
  <2>2. job'.session = recording_session.id
    BY <2>1 DEF NoJob
  <2> QED
    BY <2>1, <2>2 DEF Wanted, WantedId
<1>3. CASE OnPushToTalkStopRequested
  <2> DEFINE id == Head(queue).id
             j == [NoJob EXCEPT !.session = id, !.source = "PushToTalk"]
  <2>1. /\ pending_ptt_capture.session_id = id /\ pending_ptt_capture.kind = "Capture"
        /\ job' = j
    BY <1>3 DEF OnPushToTalkStopRequested, TakePendingPttCapture, ResumeCall, Continue,
         CollectByFallback, Capturing, NoPending
  <2>2. j.session = id
    BY DEF NoJob
  <2>3. Held /\ ~IsRecordingActive
    BY <2>1, WantedOnce DEF Held
  <2> QED
    BY <2>1, <2>2, <2>3 DEF Wanted, WantedId
<1>4. ~(\/ WorkerShutdown \/ OnStartRequested \/ OnContinuousStopRequested \/ Tick
        \/ PauseReturns \/ OpenGate \/ ResumeReturns \/ FinishesProcessing \/ FallbackCapture
        \/ PushToTalkCapture \/ ContinuousCapture \/ EnforceLimit \/ LimitStopped
        \/ PushFrame \/ Pipeline)
  <2>1. job.next \in {"select", "finish", "rate_gate", "frames"}
    BY DEF JobOK, Jobs
  <2> QED
    BY <2>1 DEF WorkerShutdown, OnStartRequested, OnContinuousStopRequested, ResumeCall,
       Tick, TickWhileRecording, TickWhileNotRecording, PauseReturns, OpenGate, ResumeReturns,
       FinishesProcessing, FallbackCapture, PushToTalkCapture, ContinuousCapture, EnforceLimit,
       LimitStopped, PushFrame, NextFrame, Pipeline, RateGate, ProviderSucceeds, ProviderFails,
       ProviderCooldown, CooledDown, Inject, AfterUtterance, Continue, Capturing
<1>5. CASE OthersStep \/ DeviceChange
  BY <1>1, <1>5, OthersLeaveWorker, DeviceChangeLeaves DEF workerVars
<1> QED
  BY <1>2, <1>3, <1>4, <1>5 DEF Next, OthersStep, WorkerStep, WorkerRun, ReceiveCommand

\* Frames are pushed of the chunk that was captured.
LEMMA FramesBegin ==
  ASSUME JobOK, StorageOK, Next, job'.frames > 0
  PROVE  \/ job.frames > 0 /\ job'.chunk = job.chunk
         \/ Capturing /\ job'.chunk = job.session
<1>1. job \in Jobs /\ NoJob \in Jobs /\ NoJob.frames = 0 /\ job.frames \in Nat
  BY NoJobOK, FramesAssumption DEF JobOK, Jobs
<1>2. CASE UNCHANGED job
  BY <1>2
<1>3. CASE ContinuousCapture
  <2> DEFINE k == [job EXCEPT !.chunk = job.session, !.frames = ChunkFrames]
  <2>1. job' = NoJob \/ (Capturing /\ job' = k)
    BY <1>3 DEF ContinuousCapture, Continue, Capturing
  <2>2. k.chunk = job.session
    BY <1>1 DEF Jobs
  <2> HIDE DEF k
  <2> QED
    BY <1>1, <2>1, <2>2
<1>4. CASE PushFrame
  <2> DEFINE j == [job EXCEPT !.frames = @ - 1]
             A == vad \cup {Live(job.chunk)}
             k == [j EXCEPT !.audio = A, !.source = "Continuous"]
  <2>1. w_pc = "frames" /\ job.frames > 0
    BY <1>4 DEF PushFrame, JobOK
  <2>2. job' \in {NoJob, j, k}
    BY <1>4 DEF PushFrame, NextFrame, Continue
  <2>3. j.chunk = job.chunk /\ k.chunk = job.chunk
    <3> HIDE DEF A
    <3> QED
      BY <1>1 DEF Jobs
  <2> HIDE DEF j, k
  <2> QED
    BY <1>1, <2>1, <2>2, <2>3
<1>5. CASE RateGate \/ ProviderSucceeds \/ ProviderFails \/ ProviderCooldown \/ CooledDown
           \/ Inject
  <2>1. job' = NoJob \/ (job'.frames = job.frames /\ job'.chunk = job.chunk)
    BY <1>1, <1>5 DEF RateGate, ProviderSucceeds, ProviderFails, ProviderCooldown, CooledDown,
         Inject, ResumeCall, Continue, Jobs
  <2> QED
    BY <1>1, <2>1
<1>6. CASE FallbackCapture
  <2>1. job' = NoJob \/ (job'.frames = job.frames /\ job'.chunk = job.chunk)
    <3> DEFINE A == {Late(job.session)}
               k == [job EXCEPT !.audio = A]
    <3>1. \/ job' \in {NoJob, k, job}
          \/ \E n \in {"finish", "rate_gate"} : job' = [k EXCEPT !.next = n]
                                                \/ job' = [job EXCEPT !.next = n]
      BY <1>6 DEF FallbackCapture, ResumeCall, Continue
    <3>2. A \in SUBSET Audio
      BY <1>6 DEF Late, Audio, FallbackCapture, JobOK, Jobs, SessionId
    <3> HIDE DEF A
    <3> QED
      BY <1>1, <3>1, <3>2 DEF Jobs
  <2> QED
    BY <1>1, <2>1
<1>7. CASE WorkerShutdown \/ ReceiveCommand \/ Tick \/ PauseReturns \/ OpenGate
           \/ ResumeReturns \/ FinishesProcessing \/ PushToTalkCapture \/ Recheck
           \/ EnforceLimit \/ LimitStopped
  <2>1. \/ UNCHANGED job
        \/ job'.frames = 0
    <3>2. CASE OnPushToTalkStopRequested
      <4> DEFINE j == [NoJob EXCEPT !.session = Head(queue).id, !.source = "PushToTalk"]
                 k == [j EXCEPT !.audio = ptt_buffer]
      <4>1. \/ job' \in {NoJob, j, k}
            \/ \E n \in {"finish", "rate_gate"} : job' = [k EXCEPT !.next = n]
                                                  \/ job' = [j EXCEPT !.next = n]
        BY <3>2 DEF OnPushToTalkStopRequested, ResumeCall, Continue, CollectByFallback
      <4>2. j.frames = 0 /\ k.frames = 0
            /\ \A n : [k EXCEPT !.next = n].frames = 0 /\ [j EXCEPT !.next = n].frames = 0
        BY DEF NoJob
      <4> HIDE DEF j, k
      <4> QED
        BY <1>1, <4>1, <4>2
    <3>3. CASE OnStartRequested \/ OnContinuousStopRequested \/ LimitStopped
      <4>1. \/ job' \in {NoJob, [NoJob EXCEPT !.next = "select"]}
            \/ job' = [NoJob EXCEPT !.session = Head(queue).id]
        BY <3>3 DEF OnStartRequested, OnContinuousStopRequested, LimitStopped, ResumeCall,
           Continue
      <4> QED
        BY <4>1 DEF NoJob
    <3>4. CASE Tick \/ Recheck \/ EnforceLimit
      <4>1. \/ job' \in {NoJob, [NoJob EXCEPT !.audio = vad, !.source = "Continuous"]}
            \/ \E n : job' = [NoJob EXCEPT !.session = n]
        BY <3>4 DEF Tick, TickWhileRecording, TickWhileNotRecording, Recheck, EnforceLimit,
           Continue
      <4>2. CASE job' = NoJob
        BY <1>1, <4>2
      <4>3. CASE job' = [NoJob EXCEPT !.audio = vad, !.source = "Continuous"]
        BY <4>3 DEF NoJob
      <4>4. CASE \E n : job' = [NoJob EXCEPT !.session = n]
        <5>1. PICK n : job' = [NoJob EXCEPT !.session = n]
          BY <4>4
        <5> QED
          BY <5>1 DEF NoJob
      <4> QED
        BY <4>1, <4>2, <4>3, <4>4
    <3>5. CASE WorkerShutdown \/ PauseReturns \/ OpenGate \/ ResumeReturns
               \/ FinishesProcessing \/ PushToTalkCapture
      BY <1>1, <3>5 DEF WorkerShutdown, PauseReturns, OpenGate, ResumeReturns,
         FinishesProcessing, PushToTalkCapture, Continue
    <3> QED
      BY <1>7, <3>2, <3>3, <3>4, <3>5 DEF ReceiveCommand
  <2> QED
    BY <1>1, <1>2, <2>1
<1>8. CASE OthersStep \/ DeviceChange
  BY <1>2, <1>8, OthersLeaveWorker, DeviceChangeLeaves DEF workerVars
<1> QED
  BY <1>3, <1>4, <1>5, <1>6, <1>7, <1>8 DEF Next, OthersStep, WorkerStep, WorkerRun, Pipeline

\* Audio is captured for the recording the microphone is on for, or cut into frames from
\* the chunk of one; every other step hands it on or drops it.
LEMMA AudioMoved ==
  ASSUME IInv, JobOK, StorageOK, Next, NEW a \in ptt_buffer' \cup vad' \cup job'.audio
  PROVE  \/ a \in ptt_buffer \cup vad \cup job.audio
         \/ Capturing /\ a.id = job.session
         \/ job.frames > 0 /\ a.id = job.chunk
<1> USE DEF pipelineRest
<1>1. job \in Jobs /\ NoJob \in Jobs /\ NoJob.audio = {}
  BY NoJobOK DEF JobOK
<1>2. CASE UNCHANGED <<ptt_buffer, vad>> /\ job'.audio \in {job.audio, {}}
  BY <1>2
<1>3. CASE OnPushToTalkStopRequested
  <2>1. /\ ptt_buffer' \in {ptt_buffer, {}} /\ UNCHANGED vad
        /\ job'.audio \in {ptt_buffer, {}}
    BY <1>3, UtteranceTaken DEF OnPushToTalkStopRequested
  <2> QED
    BY <2>1
<1>4. CASE FallbackCapture
  <2> DEFINE A == {Late(job.session)}
             k == [job EXCEPT !.audio = A]
  <2>1. /\ UNCHANGED <<ptt_buffer, vad>> /\ Capturing
        /\ \/ job' \in {NoJob, k, job}
           \/ \E n \in {"finish", "rate_gate"} : job' = [k EXCEPT !.next = n]
                                                 \/ job' = [job EXCEPT !.next = n]
    BY <1>4 DEF FallbackCapture, ResumeCall, Continue, Capturing
  <2>2. Late(job.session).id = job.session
    BY DEF Late
  <2>3. A \in SUBSET Audio
    BY <1>4 DEF Late, Audio, FallbackCapture, JobOK, Jobs, SessionId
  <2>4. job'.audio \in {job.audio, A, {}}
    <3> HIDE DEF A
    <3> QED
      BY <1>1, <2>1, <2>3 DEF Jobs
  <2> QED
    BY <2>1, <2>2, <2>4
<1>5. CASE PushToTalkCapture
  <2>1. /\ ptt_buffer' \in {ptt_buffer, ptt_buffer \cup {Live(job.session)}} /\ UNCHANGED vad
        /\ job'.audio \in {job.audio, {}} /\ Capturing
    BY <1>1, <1>5 DEF PushToTalkCapture, Continue, Capturing
  <2> QED
    BY <2>1 DEF Live
<1>6. CASE ContinuousCapture
  <2> DEFINE k == [job EXCEPT !.chunk = job.session, !.frames = ChunkFrames]
  <2>1. k.audio = job.audio
    BY <1>1 DEF Jobs
  <2>2. UNCHANGED <<ptt_buffer, vad>> /\ job' \in {NoJob, k}
    BY <1>6 DEF ContinuousCapture, Continue
  <2> HIDE DEF k
  <2> QED
    BY <1>1, <1>2, <2>1, <2>2
<1>7. CASE PushFrame
  <2> DEFINE j == [job EXCEPT !.frames = @ - 1]
             A == vad \cup {Live(job.chunk)}
             k == [j EXCEPT !.audio = A, !.source = "Continuous"]
  <2>1. w_pc = "frames" /\ job.frames > 0 /\ Live(job.chunk).id = job.chunk
    BY <1>7 DEF PushFrame, JobOK, Live
  <2>2. job' \in {NoJob, j, k} /\ UNCHANGED ptt_buffer /\ vad' \in {{}, A}
    BY <1>7 DEF PushFrame, NextFrame, Continue
  <2>3. j.audio = job.audio /\ k.audio = A
    <3> HIDE DEF A
    <3> QED
      BY <1>1 DEF Jobs
  <2> HIDE DEF j, k
  <2> QED
    BY <1>1, <2>1, <2>2, <2>3
<1>8. CASE Pipeline
  <2>1. UNCHANGED <<ptt_buffer, vad>>
    BY <1>8 DEF Pipeline, RateGate, ProviderSucceeds, ProviderFails, ProviderCooldown,
         CooledDown, Inject
  <2>2. job' = NoJob \/ job'.audio \in {job.audio, {}}
    BY <1>1, <1>8 DEF Pipeline, RateGate, ProviderSucceeds, ProviderFails, ProviderCooldown,
         CooledDown, Inject, ResumeCall, Continue, Jobs
  <2> QED
    BY <1>1, <1>2, <2>1, <2>2
<1>9. CASE Tick
  <2>1. UNCHANGED <<queue>> /\ ptt_buffer' \in {ptt_buffer, {}} /\ vad' \in {vad, {}}
        /\ job' \in {NoJob, [NoJob EXCEPT !.audio = vad, !.source = "Continuous"]}
    BY <1>9 DEF Tick, TickWhileRecording, TickWhileNotRecording, Continue
  <2>2. [NoJob EXCEPT !.audio = vad, !.source = "Continuous"].audio = vad
    BY DEF NoJob
  <2> QED
    BY <1>1, <2>1, <2>2
<1>10. CASE Recheck \/ EnforceLimit \/ OnStartRequested
  <2>1. /\ UNCHANGED <<ptt_buffer, vad>>
        /\ job' = NoJob \/ \E n : job' = [NoJob EXCEPT !.session = n]
    BY <1>10 DEF Recheck, EnforceLimit, OnStartRequested, Continue
  <2>2. ASSUME NEW n, job' = [NoJob EXCEPT !.session = n]
        PROVE  job'.audio = {}
    BY <2>2 DEF NoJob
  <2> QED
    BY <1>1, <1>2, <2>1, <2>2
<1>11. CASE OnContinuousStopRequested \/ LimitStopped
  <2>1. /\ UNCHANGED <<ptt_buffer, vad>>
        /\ job' \in {NoJob, [NoJob EXCEPT !.next = "select"]}
    BY <1>11 DEF OnContinuousStopRequested, LimitStopped, ResumeCall, Continue
  <2>2. [NoJob EXCEPT !.next = "select"].audio = {}
    BY DEF NoJob
  <2> QED
    BY <1>1, <1>2, <2>1, <2>2
<1>12. CASE WorkerShutdown \/ PauseReturns \/ OpenGate \/ ResumeReturns \/ FinishesProcessing
            \/ DeviceChange
  BY <1>1, <1>2, <1>12, DeviceChangeLeaves DEF WorkerShutdown, PauseReturns, OpenGate,
       ResumeReturns, FinishesProcessing, Continue
<1>13. CASE OthersStep
  BY <1>2, <1>13, OthersLeaveWorker DEF workerVars
<1> QED
  BY <1>3, <1>4, <1>5, <1>6, <1>7, <1>8, <1>9, <1>10, <1>11, <1>12, <1>13
     DEF Next, OthersStep, WorkerStep, WorkerRun, ReceiveCommand

\* Every step of the daemon with its history keeps it.
LEMMA OpenedStep ==
  ASSUME DaemonInv, OpenedOK, [MCNext]_<<vars, opened, cooled>>
  PROVE  OpenedOK'
<1>1. CASE MCNext
  <2>1. /\ Next /\ opened \subseteq opened'
        /\ IsRecordingActive' => recording_session'.id \in opened'
    BY <1>1 DEF MCNext, IsRecordingActive
  <2> USE DEF DaemonInv
  <2>2. Wanted' => WantedId' \in opened'
    <3> SUFFICES ASSUME Wanted', ~IsRecordingActive'
                 PROVE  WantedId' \in opened'
      BY <2>1 DEF WantedId
    <3>1. ~OpenGate
      BY DEF OpenGate, MarkCapturePermitted, recordingVars, WantedOK, Wanted, Held
    <3> QED
      BY <2>1, <3>1, WantedShrinks DEF OpenedOK
  <2>3. Capturing' => job'.session \in opened'
    BY <2>1, CaptureBegins DEF OpenedOK
  <2>4. job'.frames > 0 => job'.chunk \in opened'
    BY <2>1, FramesBegin DEF OpenedOK
  <2>5. CancelledIsNeverCaptured'
    <3> SUFFICES ASSUME NEW a \in ptt_buffer' \cup vad' \cup job'.audio
                 PROVE  a.id \in opened'
      BY DEF CancelledIsNeverCaptured
    <3>1. \/ a \in ptt_buffer \cup vad \cup job.audio
          \/ Capturing /\ a.id = job.session
          \/ job.frames > 0 /\ a.id = job.chunk
      BY <2>1, AudioMoved
    <3> QED
      BY <2>1, <3>1 DEF OpenedOK, CancelledIsNeverCaptured
  <2> QED
    BY <2>2, <2>3, <2>4, <2>5 DEF OpenedOK
<1>2. CASE UNCHANGED <<vars, opened, cooled>>
  BY <1>2 DEF OpenedOK, CancelledIsNeverCaptured, Wanted, WantedId, Held, IsRecordingActive,
     Capturing, vars, smvars, recordingVars, workerVars
<1> QED
  BY <1>1, <1>2

\* The daemon with its history is the daemon.
LEMMA MCDaemonInductive == MCSpec => []DaemonInv
<1>1. MCInit => DaemonInv
  BY DaemonInit DEF MCInit
<1>2. DaemonInv /\ [MCNext]_<<vars, opened, cooled>> => DaemonInv'
  BY DaemonStep DEF MCNext
<1> QED
  BY <1>1, <1>2, PTL DEF MCSpec

\* An utterance cancelled before its gate is never captured, buffered or sent (AC 12).
THEOREM CancelledNeverCaptured == MCSpec => []CancelledIsNeverCaptured
<1>1. MCInit => OpenedOK
  <2> SUFFICES ASSUME MCInit PROVE OpenedOK
    OBVIOUS
  <2>1. /\ w_pc = "select" /\ job = NoJob /\ ptt_buffer = {} /\ vad = {}
        /\ recording_session = NoSession /\ pending_ptt_capture = NoPending
    BY DEF MCInit, Init, SMInit
  <2>2. NoJob.frames = 0 /\ NoJob.audio = {}
    BY NoJobOK
  <2> QED
    BY <2>1, <2>2 DEF OpenedOK, CancelledIsNeverCaptured, Wanted, Held, IsRecordingActive,
       Capturing, NoSession, NoPending
<1>2. DaemonInv /\ OpenedOK /\ [MCNext]_<<vars, opened, cooled>> => OpenedOK'
  BY OpenedStep
<1>3. OpenedOK => CancelledIsNeverCaptured
  BY DEF OpenedOK
<1> QED
  BY <1>1, <1>2, <1>3, MCDaemonInductive, PTL DEF MCSpec

-----------------------------------------------------------------------------
(* Who undoes a pause: the history of the cooldowns.                        *)

\* A step that sends and receives nothing, ends no recording and starts none.
LEMMA OwnerKept ==
  ASSUME OwnerOK, Commands' = Commands, UNCHANGED pending_ptt_capture,
         recording_session'.id = recording_session.id,
         active_session_id' \in {active_session_id, 0},
         StopsOwner /\ job.session = active_session_id /\ active_session_id' # 0 =>
            StopsOwner' /\ job'.session = job.session,
         Starting' => Starting /\ job'.session = job.session,
         job'.source = "PushToTalk" => job.source = "PushToTalk" /\ UNCHANGED state
  PROVE  OwnerOK'
<1>1. \A kind, id : Sent(kind, id)' <=> Sent(kind, id)
  BY DEF Sent
<1>2. \A id : Remembered(id)' <=> Remembered(id)
  BY <1>1 DEF Remembered
<1> QED
  BY <1>1, <1>2 DEF OwnerOK

\* The user's commands: a recording that begins is remembered, one that ends has its Stop.
LEMMA OwnerUserStep ==
  ASSUME DaemonInv, OwnerOK, UserCommand
  PROVE  OwnerOK'
<1> DEFINE t == reply'.transition
           d == Commands'
<1>1. /\ Commands \in Seq(RuntimeCommand)
      /\ Commands' = Commands \o Notifications(t)
      /\ UNCHANGED <<w_pc, job, active_session_id>>
      /\ UserDoesNothing(t) \/ UserBegins(t) \/ UserEnds(t)
  BY CommandsTyped, UserCommandCases, CommandsSent
     DEF DaemonInv, UserCommand, serverRest, workerVars, playbackVars
<1>2. IInv /\ CommandsOK /\ JobOK /\ ProcessingOK
  BY DEF DaemonInv
<1> HIDE DEF t
<1>3. CASE UserDoesNothing(t)
  <2>1. Commands' = Commands
    BY <1>1, <1>3, ConcatEmptySeq DEF UserDoesNothing
  <2> QED
    BY <1>1, <1>3, <2>1, OwnerKept DEF UserDoesNothing, StopsOwner, Starting
<1>4. ASSUME NEW e \in RuntimeCommand, Notifications(t) = <<e>>
      PROVE  /\ Len(Commands) \in Nat
             /\ \A i \in 1 .. Len(d) : \/ i \in 1 .. Len(Commands) /\ d[i] = Commands[i]
                                       \/ i = Len(Commands) + 1 /\ d[i] = e
             /\ \A kind, id : Sent(kind, id)' <=> Sent(kind, id) \/ (e.kind = kind /\ e.id = id)
  <2>1. /\ Len(Commands) \in Nat /\ Len(d) = Len(Commands) + 1
        /\ \A i \in 1 .. Len(Commands) : d[i] = Commands[i]
        /\ d[Len(Commands) + 1] = e
    BY <1>1, <1>4, OneMore
  <2> HIDE DEF d
  <2>2. \A i \in 1 .. Len(d) : \/ i \in 1 .. Len(Commands) /\ d[i] = Commands[i]
                               \/ i = Len(Commands) + 1 /\ d[i] = e
    BY <2>1
  <2>3. ASSUME NEW kind, NEW id, Sent(kind, id)'
        PROVE  Sent(kind, id) \/ (e.kind = kind /\ e.id = id)
    <3>1. PICK i \in 1 .. Len(d) : d[i].kind = kind /\ d[i].id = id
      BY <2>3 DEF Sent, d
    <3> QED
      BY <2>2, <3>1 DEF Sent
  <2>4. ASSUME NEW kind, NEW id, Sent(kind, id)
        PROVE  Sent(kind, id)'
    <3>1. PICK i \in 1 .. Len(Commands) : Commands[i].kind = kind /\ Commands[i].id = id
      BY <2>4 DEF Sent
    <3>2. i \in 1 .. Len(d) /\ d[i] = Commands[i]
      BY <2>1
    <3> QED
      BY <3>1, <3>2 DEF Sent, d
  <2>5. ASSUME NEW kind, NEW id, e.kind = kind, e.id = id
        PROVE  Sent(kind, id)'
    <3>1. Len(d) \in 1 .. Len(d) /\ d[Len(d)] = e
      BY <2>1
    <3> QED
      BY <2>5, <3>1 DEF Sent, d
  <2> QED
    BY <2>1, <2>2, <2>3, <2>4, <2>5
<1>5. /\ next_recording_session_id \in Nat /\ SessionMatchesState /\ PendingIsNewest
      /\ \A kind, id : Sent(kind, id) => id # next_recording_session_id
      /\ recording_session \in RecordingSession \cup {NoSession}
  BY <1>2, BoundAssumption DEF IInv, TypeOK, RecordingTypeOK, RecordingInv, CommandsOK, Sent
<1> HIDE DEF d
<1>6. CASE UserBegins(t)
  <2> DEFINE e == Command("Start", recording_session')
  <2>1. /\ e.kind = "Start" /\ e.id = recording_session'.id /\ e \in RuntimeCommand
        /\ Notifications(t) = <<e>> /\ recording_session'.id = next_recording_session_id
        /\ pending_ptt_capture' = NoPending
        /\ state = "Idle" /\ recording_session.id = 0
    <3>1. recording_session.id = 0
      BY <1>5, <1>6 DEF UserBegins, SessionMatchesState, RecordingSession, RecordingMode, NoSession
    <3> QED
      BY <1>6, <3>1 DEF UserBegins, Command, RuntimeCommand, RecordingSession
  <2> HIDE DEF e
  <2>2. /\ \A i \in 1 .. Len(d) : \/ i \in 1 .. Len(Commands) /\ d[i] = Commands[i]
                                  \/ i = Len(Commands) + 1 /\ d[i] = e
        /\ \A kind, id : Sent(kind, id)' <=> Sent(kind, id) \/ (e.kind = kind /\ e.id = id)
        /\ Len(Commands) \in Nat
    BY <1>4, <2>1
  <2>3. \A id : id # 0 /\ Remembered(id) => Remembered(id)'
    BY <2>1, <2>2 DEF Remembered
  <2>4. active_session_id' # 0 =>
           Remembered(active_session_id)' \/ (StopsOwner' /\ job'.session = active_session_id')
    BY <1>1, <2>3 DEF OwnerOK, StopsOwner, Remembered
  <2>5. \A id \in SessionId : Sent("Start", id)' => Remembered(id)'
    <3> SUFFICES ASSUME NEW id \in SessionId, Sent("Start", id)'
                 PROVE  Remembered(id)'
      OBVIOUS
    <3>1. id # 0
      BY DEF SessionId
    <3>2. CASE Sent("Start", id)
      BY <2>3, <3>1, <3>2 DEF OwnerOK
    <3>3. CASE e.id = id
      BY <2>1, <3>3 DEF Remembered
    <3> QED
      BY <2>2, <3>2, <3>3
  <2>6. Starting' => Remembered(job.session)'
    <3> SUFFICES ASSUME Starting PROVE Remembered(job.session)'
      BY <1>1 DEF Starting
    <3>1. job.session # 0 /\ Remembered(job.session)
      BY <1>2 DEF OwnerOK, JobOK, Starting
    <3> QED
      BY <1>1, <2>2, <2>1, <3>1 DEF Remembered
  <2>7. \A i \in 1 .. Len(d) : ~(d[i].kind = "Stop" /\ d[i].mode = "PushToTalk")
    <3>1. pending_ptt_capture = NoPending
      BY <1>5, <2>1 DEF PendingIsNewest
    <3>2. \A i \in 1 .. Len(Commands) : Commands[i].id # 0
      <4>1. \A i \in 1 .. Len(Commands) : Commands[i] \in RuntimeCommand
        BY <1>1, ElementOfSeq
      <4> QED
        BY <4>1 DEF RuntimeCommand, SessionId
    <3> QED
      BY <2>1, <2>2, <3>1, <3>2 DEF OwnerOK, NoPending
  <2>8. job'.source # "PushToTalk"
    BY <1>1, <2>1 DEF OwnerOK
  <2>9. \A i, j \in 1 .. Len(d) :
           d[i].kind = "Start" /\ d[j].kind = "Stop" /\ d[i].id = d[j].id => i < j
    <3> SUFFICES ASSUME NEW i \in 1 .. Len(d), NEW j \in 1 .. Len(d),
                        d[i].kind = "Start", d[j].kind = "Stop", d[i].id = d[j].id
                 PROVE  i < j
      OBVIOUS
    <3>1. j \in 1 .. Len(Commands) /\ d[j] = Commands[j]
      BY <2>1, <2>2
    <3>2. d[i] # e
      BY <1>5, <2>1, <3>1 DEF Sent
    <3> QED
      BY <2>2, <3>1, <3>2 DEF OwnerOK
  <2> QED
    BY <2>4, <2>5, <2>6, <2>7, <2>8, <2>9 DEF OwnerOK, d
<1>7. CASE UserEnds(t)
  <2> DEFINE e == Command("Stop", recording_session)
  <2>1. /\ e.kind = "Stop" /\ e.id = recording_session.id /\ e \in RuntimeCommand
        /\ e.mode = recording_session.mode
        /\ Notifications(t) = <<e>> /\ recording_session # NoSession
        /\ state # "Processing" /\ pending_ptt_capture = NoPending
        /\ pending_ptt_capture' = IF e.mode = "PushToTalk" THEN PendingCapture
                                  ELSE NoPending
    <3>1. /\ recording_session \in RecordingSession /\ recording_session # NoSession
          /\ Notifications(t) = <<e>>
          /\ pending_ptt_capture' = IF e.mode = "PushToTalk" THEN PendingCapture
                                    ELSE pending_ptt_capture
      BY <1>7 DEF UserEnds, Command, RecordingSession, NoSession, SessionId
    <3>2. state # "Processing"
      BY <1>5, <3>1 DEF SessionMatchesState
    <3>3. pending_ptt_capture = NoPending
      BY <1>5, <3>2 DEF PendingIsNewest
    <3> QED
      BY <3>1, <3>2, <3>3 DEF Command, RuntimeCommand, RecordingSession
  <2> HIDE DEF e
  <2>2. /\ \A i \in 1 .. Len(d) : \/ i \in 1 .. Len(Commands) /\ d[i] = Commands[i]
                                  \/ i = Len(Commands) + 1 /\ d[i] = e
        /\ \A kind, id : Sent(kind, id)' <=> Sent(kind, id) \/ (e.kind = kind /\ e.id = id)
        /\ Len(Commands) \in Nat
    BY <1>4, <2>1
  <2>3. \A id : Remembered(id) => Remembered(id)'
    BY <2>1, <2>2 DEF Remembered
  <2>4. active_session_id' # 0 =>
           Remembered(active_session_id)' \/ (StopsOwner' /\ job'.session = active_session_id')
    BY <1>1, <2>3 DEF OwnerOK, StopsOwner, Remembered
  <2>5. \A id \in SessionId : Sent("Start", id)' => Remembered(id)'
    BY <2>1, <2>2, <2>3 DEF OwnerOK
  <2>6. Starting' => Remembered(job.session)'
    BY <1>1, <2>1, <2>2 DEF OwnerOK, Starting, Remembered
  <2>7. \A i \in 1 .. Len(d) : d[i].kind = "Stop" /\ d[i].mode = "PushToTalk" =>
                                  d[i].id = pending_ptt_capture'.session_id
    <3>1. \A i \in 1 .. Len(Commands) : Commands[i].id # 0
      <4>1. \A i \in 1 .. Len(Commands) : Commands[i] \in RuntimeCommand
        BY <1>1, ElementOfSeq
      <4> QED
        BY <4>1 DEF RuntimeCommand, SessionId
    <3>2. \A i \in 1 .. Len(Commands) :
             ~(Commands[i].kind = "Stop" /\ Commands[i].mode = "PushToTalk")
      BY <2>1, <3>1 DEF OwnerOK, NoPending
    <3>3. PendingCapture.session_id = recording_session.id
      BY <2>1 DEF PendingCapture
    <3> QED
      BY <2>1, <2>2, <3>2, <3>3
  <2>8. job'.source # "PushToTalk"
    BY <1>1, <2>1 DEF OwnerOK
  <2>9. \A i, j \in 1 .. Len(d) :
           d[i].kind = "Start" /\ d[j].kind = "Stop" /\ d[i].id = d[j].id => i < j
    <3> SUFFICES ASSUME NEW i \in 1 .. Len(d), NEW j \in 1 .. Len(d),
                        d[i].kind = "Start", d[j].kind = "Stop", d[i].id = d[j].id
                 PROVE  i < j
      OBVIOUS
    <3>1. i \in 1 .. Len(Commands) /\ d[i] = Commands[i]
      BY <2>1, <2>2
    <3> QED
      BY <2>2, <3>1 DEF OwnerOK
  <2> QED
    BY <2>4, <2>5, <2>6, <2>7, <2>8, <2>9 DEF OwnerOK, d
<1> QED
  BY <1>1, <1>3, <1>6, <1>7

\* A Start received is in the worker's hands, and its Stop is still to come or its
\* recording is on; a Stop received undoes the pause, or has the audio collected first.
LEMMA OwnerReceived ==
  ASSUME DaemonInv, OwnerOK, ReceiveCommand
  PROVE  OwnerOK'
<1> DEFINE c == Commands[1]
           d == Commands'
<1>1. /\ w_pc = "select" /\ queue # <<>> /\ queue' = Tail(queue)
      /\ UNCHANGED <<s_pc, reply, recording_session, state>>
  BY DEF ReceiveCommand, OnStartRequested, OnContinuousStopRequested,
       OnPushToTalkStopRequested, Received, TakePendingPttCapture, othersVars, serverVars,
       smvars, recordingVars
<1>2. /\ Commands' = Tail(Commands) /\ Commands # <<>> /\ c = Head(queue)
      /\ Commands \in Seq(RuntimeCommand) /\ c \in RuntimeCommand /\ c.id \in SessionId
      /\ c.id # 0
  <2>1. /\ Commands' = Tail(Commands) /\ Commands # <<>> /\ c = Head(queue)
        /\ Commands \in Seq(RuntimeCommand)
    BY <1>1, CommandReceived, CommandsTyped DEF DaemonInv
  <2>2. c \in RuntimeCommand /\ c.id \in SessionId
    BY <1>1, <2>1, HeadTyped DEF DaemonInv, StorageOK
  <2>3. c.id # 0
    BY <2>2 DEF SessionId
  <2> QED
    BY <2>1, <2>2, <2>3
<1>3. CommandsOK /\ IInv /\ StorageOK
  BY DEF DaemonInv
<1>4. /\ Len(d) \in Nat
      /\ \A i \in 1 .. Len(d) : i + 1 \in 1 .. Len(Commands) /\ d[i] = Commands[i + 1]
      /\ \A kind, id : Sent(kind, id)' <=> Sent(kind, id) /\ ~(c.kind = kind /\ c.id = id)
  BY <1>2, <1>3, SentReceived
<1>5. 1 \in 1 .. Len(Commands) /\ c = Commands[1]
  BY <1>2, TailProperties
<1>6. NoJob.source = "None" /\ NoJob.session = 0
  BY NoJobOK
<1> HIDE DEF c, d
\* Whatever is received, the commands left are in the order they were in.
<1>7. \A i, j \in 1 .. Len(d) :
         d[i].kind = "Start" /\ d[j].kind = "Stop" /\ d[i].id = d[j].id => i < j
  <2> SUFFICES ASSUME NEW i \in 1 .. Len(d), NEW j \in 1 .. Len(d),
                      d[i].kind = "Start", d[j].kind = "Stop", d[i].id = d[j].id
               PROVE  i < j
    OBVIOUS
  <2>1. i + 1 < j + 1
    BY <1>4 DEF OwnerOK
  <2> QED
    BY <2>1
\* A recording whose Start is still to come does not lose its Stop.
<1>8. \A id \in SessionId : Sent("Start", id)' => Remembered(id)'
  <2> SUFFICES ASSUME NEW id \in SessionId, Sent("Start", id)'
               PROVE  Remembered(id)'
    OBVIOUS
  <2>1. Sent("Start", id) /\ Remembered(id)
    BY <1>4 DEF OwnerOK
  <2>2. PICK i \in 1 .. Len(d) : d[i].kind = "Start" /\ d[i].id = id
    BY DEF Sent, d
  <2>3. ~(c.kind = "Stop" /\ c.id = id)
    <3>1. ~(i + 1 < 1)
      OBVIOUS
    <3> QED
      BY <1>4, <1>5, <2>2, <3>1 DEF OwnerOK
  <2> QED
    BY <1>1, <1>4, <2>1, <2>3 DEF Remembered
<1>9. \A id : Remembered(id) /\ ~(c.kind = "Stop" /\ c.id = id) => Remembered(id)'
  BY <1>1, <1>4 DEF Remembered
<1>10. active_session_id # 0 => Remembered(active_session_id)
  BY <1>1 DEF OwnerOK, StopsOwner
<1>11. CASE c.kind = "Start" /\ OnStartRequested
  <2>1. /\ job' = [NoJob EXCEPT !.session = c.id] /\ UNCHANGED pending_ptt_capture
        /\ active_session_id' \in {active_session_id, 0}
    BY <1>2, <1>11 DEF OnStartRequested, Continue, smvars, recordingVars, playbackVars,
       Playback!BeginPausePass, Playback!NoOwner
  <2>2. job'.session = c.id /\ job'.source = "None"
    BY <2>1 DEF NoJob
  <2>3. Remembered(job.session)'
    <3>1. Sent("Start", c.id)
      BY <1>5, <1>11 DEF Sent
    <3> QED
      BY <1>2, <1>9, <1>11, <2>2, <3>1 DEF OwnerOK
  <2>4. active_session_id' # 0 => Remembered(active_session_id)'
    BY <1>9, <1>10, <1>11, <2>1
  <2>5. \A i \in 1 .. Len(d) : d[i].kind = "Stop" /\ d[i].mode = "PushToTalk" =>
                                  d[i].id = pending_ptt_capture'.session_id
    BY <1>4, <2>1 DEF OwnerOK
  <2> QED
    BY <1>7, <1>8, <2>2, <2>3, <2>4, <2>5 DEF OwnerOK, d
<1>12. CASE OnContinuousStopRequested
  <2>1. /\ c.kind = "Stop" /\ UNCHANGED pending_ptt_capture
        /\ ResumeCall(c.id, "select", NoJob)
    BY <1>2, <1>12 DEF OnContinuousStopRequested, Received, smvars, recordingVars
  <2>2. /\ active_session_id' # 0 => active_session_id' = active_session_id
                                     /\ active_session_id # c.id
        /\ job' \in {NoJob, [NoJob EXCEPT !.next = "select"]}
        /\ w_pc' \in {"select", "resuming"}
    BY <2>1 DEF ResumeCall, Continue, playbackVars, Playback!NotOwner,
         Playback!BeginResumePass, Playback!TakeOwnership, Playback!NoOwner
  <2>3. job'.source = "None" /\ ~Starting'
    BY <2>2 DEF NoJob, Starting
  <2>4. active_session_id' # 0 => Remembered(active_session_id)'
    BY <1>9, <1>10, <2>2
  <2>5. \A i \in 1 .. Len(d) : d[i].kind = "Stop" /\ d[i].mode = "PushToTalk" =>
                                  d[i].id = pending_ptt_capture'.session_id
    BY <1>4, <2>1 DEF OwnerOK
  <2> QED
    BY <1>7, <1>8, <2>3, <2>4, <2>5 DEF OwnerOK, d
<1>13. CASE OnPushToTalkStopRequested
  <2> DEFINE j == [NoJob EXCEPT !.session = c.id, !.source = "PushToTalk"]
  <2>1. /\ c.kind = "Stop" /\ c.mode = "PushToTalk"
        /\ c.id = pending_ptt_capture.session_id
        /\ pending_ptt_capture # NoPending /\ state = "Processing"
    <3>1. c.kind = "Stop" /\ c.mode = "PushToTalk"
      BY <1>2, <1>13 DEF OnPushToTalkStopRequested, Received
    <3>2. c.id = pending_ptt_capture.session_id
      BY <1>5, <3>1 DEF OwnerOK
    <3>3. pending_ptt_capture # NoPending
      BY <1>2, <3>2 DEF NoPending
    <3> QED
      BY <1>3, <3>1, <3>2, <3>3, WantedOnce
  <2>2. /\ pending_ptt_capture' = NoPending
        /\ \/ \E n \in {"finish", "rate_gate"} : \E k : ResumeCall(c.id, n, k)
           \/ w_pc' = "capture_fallback" /\ job'.session = c.id
              /\ UNCHANGED active_session_id
    <3> HIDE DEF NoJob, j
    <3>1. PICK out \in {pending_ptt_capture, NoPending} :
             /\ TakePendingPttCapture(c.id, out)
             /\ \/ out = NoPending
                \/ ResumeCall(c.id, "finish", j)
                \/ \E k : ResumeCall(c.id, "rate_gate", k)
                \/ CollectByFallback(c.id, j)
      BY <1>2, <1>13 DEF OnPushToTalkStopRequested, j
    <3>2. out = pending_ptt_capture /\ pending_ptt_capture' = NoPending
      BY <2>1, <3>1 DEF TakePendingPttCapture
    <3>3. j.session = c.id
      BY DEF j, NoJob
    <3> QED
      BY <2>1, <3>1, <3>2, <3>3 DEF CollectByFallback, Continue, playbackVars
  <2>3. /\ active_session_id' # 0 =>
              /\ active_session_id' = active_session_id
              /\ active_session_id # c.id \/ (StopsOwner' /\ job'.session = c.id)
        /\ ~Starting'
    BY <2>2 DEF ResumeCall, Continue, playbackVars, Playback!NotOwner,
         Playback!BeginResumePass, Playback!TakeOwnership, Playback!NoOwner, StopsOwner,
         Starting
  <2>4. active_session_id' # 0 => \/ Remembered(active_session_id)'
                                  \/ StopsOwner' /\ job'.session = active_session_id'
    BY <1>9, <1>10, <2>3
  <2>5. \A i \in 1 .. Len(d) : ~(d[i].kind = "Stop" /\ d[i].mode = "PushToTalk")
    <3> SUFFICES ASSUME NEW i \in 1 .. Len(d), d[i].kind = "Stop", d[i].mode = "PushToTalk"
                 PROVE  FALSE
      OBVIOUS
    <3>1. d[i].id = c.id /\ i + 1 \in 1 .. Len(Commands) /\ d[i] = Commands[i + 1]
      BY <1>4, <2>1 DEF OwnerOK
    <3>2. i + 1 = 1
      BY <1>3, <1>5, <2>1, <3>1 DEF CommandsOK
    <3> QED
      BY <3>2
  <2>6. state' = "Processing" /\ pending_ptt_capture' = NoPending
    BY <1>1, <2>1, <2>2
  <2> QED
    BY <1>7, <1>8, <2>3, <2>4, <2>5, <2>6 DEF OwnerOK, d
<1>14. OnStartRequested => c.kind = "Start"
  BY <1>2 DEF OnStartRequested, Received
<1> QED
  BY <1>11, <1>12, <1>13, <1>14 DEF ReceiveCommand

\* The worker works on a push-to-talk utterance from its Stop command on.
LEMMA UtteranceBegins ==
  ASSUME JobOK, WorkerStep, ~ReceiveCommand, job'.source = "PushToTalk"
  PROVE  job.source = "PushToTalk"
<1>1. job \in Jobs /\ NoJob.source = "None"
  BY NoJobOK DEF JobOK
<1>2. CASE job' \in {job, NoJob}
  BY <1>1, <1>2
<1>3. CASE FallbackCapture
  BY <1>3 DEF FallbackCapture, JobOK
<1>4. CASE OpenGate \/ PauseReturns \/ ResumeReturns \/ FinishesProcessing \/ DeviceChange
           \/ PushToTalkCapture \/ WorkerShutdown
  BY <1>2, <1>4, DeviceChangeLeaves DEF OpenGate, PauseReturns, ResumeReturns,
       FinishesProcessing, PushToTalkCapture, WorkerShutdown, Continue
<1>5. CASE Tick \/ Recheck \/ EnforceLimit \/ LimitStopped
  <2>1. \/ job' = NoJob
        \/ job' = [NoJob EXCEPT !.audio = vad, !.source = "Continuous"]
        \/ job' = [NoJob EXCEPT !.next = "select"]
        \/ \E n : job' = [NoJob EXCEPT !.session = n]
    BY <1>5 DEF Tick, TickWhileRecording, TickWhileNotRecording, Recheck, EnforceLimit,
       LimitStopped, ResumeCall, Continue
  <2>2. ASSUME NEW n, job' = [NoJob EXCEPT !.session = n]
        PROVE  job'.source = "None"
    BY <2>2 DEF NoJob
  <2>3. /\ [NoJob EXCEPT !.audio = vad, !.source = "Continuous"].source = "Continuous"
        /\ [NoJob EXCEPT !.next = "select"].source = "None"
    BY DEF NoJob
  <2> QED
    BY <1>1, <2>1, <2>2, <2>3
<1>6. CASE ContinuousCapture
  BY <1>1, <1>6 DEF ContinuousCapture, Continue, Jobs
<1>7. CASE PushFrame
  <2> DEFINE j == [job EXCEPT !.frames = @ - 1]
             A == vad \cup {Live(job.chunk)}
             k == [j EXCEPT !.audio = A, !.source = "Continuous"]
  <2>1. job' \in {NoJob, j, k}
    BY <1>7 DEF PushFrame, NextFrame, Continue
  <2>2. j.source = job.source /\ k.source = "Continuous"
    <3> HIDE DEF A
    <3> QED
      BY <1>1 DEF Jobs
  <2> HIDE DEF j, k
  <2> QED
    BY <1>1, <2>1, <2>2
<1>8. CASE Pipeline
  BY <1>1, <1>8 DEF Pipeline, RateGate, ProviderSucceeds, ProviderFails, ProviderCooldown,
     CooledDown, Inject, ResumeCall, Continue, Jobs
<1> QED
  BY <1>3, <1>4, <1>5, <1>6, <1>7, <1>8 DEF WorkerStep, WorkerRun

\* Every step but a cooldown keeps it.
LEMMA OwnerStep ==
  ASSUME DaemonInv, OwnerOK, Next, ~(w_pc = "cooldown" /\ w_pc' # "cooldown")
  PROVE  OwnerOK'
<1>0. JobOK /\ CommandsOK /\ IInv /\ StorageOK /\ PassOK /\ WantedOK
  BY DEF DaemonInv
<1>1. CASE UserCommand
  BY <1>1, OwnerUserStep
<1>2. CASE ReceiveCommand
  BY <1>2, OwnerReceived
<1>3. CASE NotifyAndRespond \/ StatusQuery \/ ReplayStart \/ ReplayDone \/ StopServing
           \/ MainStep \/ TimePasses \/ Terminated \/ \E p \in Players : PlaybackCommandEnds(p)
  <2>1. /\ UNCHANGED <<w_pc, job, recording_session, pending_ptt_capture, state>>
        /\ \/ NotifyAndRespond
           \/ UNCHANGED <<queue, s_pc, reply>>
           \/ s_pc # "notify" /\ s_pc' # "notify" /\ UNCHANGED queue
    BY <1>3 DEF NotifyAndRespond, StatusQuery, Status, ReplayStart, ReplayDone,
         TakeLastTranscript, SetLastOutputErrorCode, StopServing, MainStep, SendShutdown,
         OnShutdown, Exit, Signal, TimePasses, Elapse, Terminated, PlaybackCommandEnds,
         serverRest, workerVars, serverVars, othersVars, smvars, recordingVars, vars
  <2>2. Commands' = Commands
    BY <1>0, <2>1, CommandsSent DEF Commands
  <2>3. active_session_id' \in {active_session_id, 0}
    BY <1>3 DEF NotifyAndRespond, StatusQuery, ReplayStart, ReplayDone, StopServing, MainStep,
         SendShutdown, OnShutdown, Playback!BeginShutdownPass, Playback!TakeOwnership,
         Playback!NoOwner, Exit, Playback!EndResumePass, Playback!coordinatorVars,
         Signal, TimePasses, Terminated, PlaybackCommandEnds,
         Playback!PlayerCommandEnds, serverRest, playbackVars, vars
  <2> QED
    BY <2>1, <2>2, <2>3, OwnerKept DEF StopsOwner, Starting
<1>4. CASE WorkerStep /\ ~ReceiveCommand
  <2>1. UNCHANGED <<queue, s_pc, reply>>
    BY <1>4, DeviceChangeLeaves DEF WorkerStep, WorkerRun, WorkerShutdown, Tick,
         TickWhileRecording, TickWhileNotRecording, PauseReturns, OpenGate, ResumeReturns,
         FinishesProcessing, FallbackCapture, PushToTalkCapture, ContinuousCapture, Recheck,
         EnforceLimit, LimitStopped, PushFrame, Pipeline, RateGate, ProviderSucceeds,
         ProviderFails, ProviderCooldown, CooledDown, Inject, pipelineRest, othersVars, serverVars
  <2>2. Commands' = Commands
    BY <2>1 DEF Commands
  <2>3. job'.source = "PushToTalk" => job.source = "PushToTalk"
    BY <1>0, <1>4, UtteranceBegins
  <2>4. CASE PauseReturns
    <3>1. /\ Playback!EndPausePass /\ w_pc = "pausing" /\ w_pc' = "open_gate" /\ job' = job
          /\ UNCHANGED <<recording_session, pending_ptt_capture, state>>
      BY <2>4 DEF PauseReturns, Continue, smvars, recordingVars
    <3>2. active_session_id' = job.session
      BY <1>0, <3>1 DEF PassOK, Playback!EndPausePass
    <3>3. \A kind, id : Sent(kind, id)' <=> Sent(kind, id)
      BY <2>2 DEF Sent
    <3>4. \A id : Remembered(id)' <=> Remembered(id)
      BY <3>1, <3>3 DEF Remembered
    <3>5. Remembered(job.session)
      BY <3>1 DEF OwnerOK, Starting
    <3>6. Remembered(active_session_id)' /\ Remembered(job.session)'
      BY <3>1, <3>2, <3>4, <3>5
    <3> QED
      BY <2>2, <3>1, <3>3, <3>4, <3>6 DEF OwnerOK
  <2>5. CASE OpenGate
    <3>1. /\ recording_session'.id = recording_session.id
          /\ UNCHANGED <<pending_ptt_capture, state, active_session_id>>
          /\ w_pc = "open_gate" /\ w_pc' = "select"
      <4>1. recording_session \in RecordingSession \cup {NoSession}
        BY <1>0 DEF IInv, TypeOK, RecordingTypeOK
      <4>2. [recording_session EXCEPT !.phase = "Active"].id = recording_session.id
        BY <4>1 DEF RecordingSession, NoSession
      <4> QED
        BY <2>5, <4>2 DEF OpenGate, MarkCapturePermitted, Continue, recordingVars, playbackVars
    <3> QED
      BY <2>2, <2>3, <3>1, OwnerKept DEF StopsOwner, Starting
  <2>6. CASE EnforceLimit
    <3>1. CASE ContinuousLimitExceeded
      <4>1. /\ IsRecordingActive /\ recording_session' = NoSession
            /\ UNCHANGED <<pending_ptt_capture, active_session_id>>
            /\ w_pc = "enforce" /\ w_pc' = "limit_stopped"
            /\ job' = [NoJob EXCEPT !.session = recording_session.id]
        BY <1>0, <2>6, <3>1, WantedOnce
           DEF EnforceLimit, EnforceContinuousLimit, StopCurrentRecording,
             EndRecording, ContinuousLimitExceeded, Continue, NotStopped, LimitStop,
             recordingVars, playbackVars
      <4>2. job'.session = recording_session.id /\ job'.source = "None"
        BY <4>1 DEF NoJob
      <4>3. Commands = <<>> /\ pending_ptt_capture = NoPending
        BY <1>0, <4>1, WantedOnce DEF CommandsOK
      <4>4. \A kind, id : ~Sent(kind, id)' /\ ~Sent(kind, id)
        BY <2>2, <4>3, EmptySeq DEF Sent
      <4>5. active_session_id # 0 => active_session_id = recording_session.id
        BY <4>1, <4>4 DEF OwnerOK, Remembered, StopsOwner
      <4>6. ~Starting' /\ StopsOwner'
        BY <4>1 DEF Starting, StopsOwner
      <4>7. \A i \in 1 .. Len(Commands') : FALSE
        BY <2>2, <4>3, EmptySeq
      <4> QED
        BY <4>1, <4>2, <4>4, <4>5, <4>6, <4>7 DEF OwnerOK
    <3>2. CASE ~ContinuousLimitExceeded
      BY <2>2, <2>3, <2>6, <3>2, OwnerKept
         DEF EnforceLimit, EnforceContinuousLimit, Continue, recordingVars, playbackVars,
             StopsOwner, Starting, NotStopped
    <3> QED
      BY <3>1, <3>2
  <2>7. CASE FinishesProcessing
    <3>1. /\ job.source = "PushToTalk" /\ job' = NoJob /\ w_pc = "finish" /\ w_pc' = "select"
          /\ pending_ptt_capture' = NoPending
          /\ UNCHANGED <<recording_session, active_session_id>>
      BY <1>0, <2>7 DEF FinishesProcessing, FinishProcessing, Continue, playbackVars, JobOK
    <3>2. pending_ptt_capture = NoPending /\ job'.source = "None"
      BY <3>1, NoJobOK DEF OwnerOK
    <3> QED
      BY <2>2, <3>1, <3>2, OwnerKept DEF StopsOwner, Starting
  <2>8. CASE LimitStopped \/ FallbackCapture \/ CooledDown
    <3>1. /\ \/ \E n \in {"select", "finish", "rate_gate", AfterUtterance} : \E k :
                   ResumeCall(job.session, n, k)
             \/ w_pc = "cooled_down" /\ UNCHANGED playbackVars /\ w_pc' = AfterUtterance
          /\ w_pc \in {"limit_stopped", "capture_fallback", "cooled_down"}
          /\ AfterUtterance \in {"finish", "select", "frames"}
      <4> DEFINE n == AfterUtterance
      <4>1. n \in {"finish", "select", "frames"}
        BY DEF AfterUtterance
      <4> HIDE DEF n
      <4>2. CASE CooledDown
        BY <4>1, <4>2 DEF CooledDown, Continue, n
      <4>3. CASE LimitStopped
        BY <4>1, <4>3 DEF LimitStopped, n
      <4>4. CASE FallbackCapture
        BY <4>1, <4>4 DEF FallbackCapture, n
      <4> QED
        BY <2>8, <4>2, <4>3, <4>4
    <3>2. /\ active_session_id' \in {active_session_id, 0}
          /\ ~(StopsOwner /\ job.session = active_session_id /\ active_session_id' # 0)
          /\ ~Starting'
      BY <3>1 DEF ResumeCall, Continue, playbackVars, Playback!NotOwner,
         Playback!BeginResumePass, Playback!TakeOwnership, Playback!NoOwner, StopsOwner,
         Starting
    <3>3. UNCHANGED <<recording_session, pending_ptt_capture, state>>
      BY <2>8 DEF LimitStopped, FallbackCapture, CooledDown, CaptureSucceeds, CaptureFails,
         SetLastAudioErrorCode, smvars, recordingVars
    <3> QED
      BY <2>2, <2>3, <3>2, <3>3, OwnerKept
  <2>9. CASE \/ WorkerShutdown \/ Tick \/ ResumeReturns \/ DeviceChange \/ PushToTalkCapture
             \/ ContinuousCapture \/ Recheck \/ PushFrame \/ RateGate \/ ProviderSucceeds
             \/ ProviderFails \/ Inject
    <3>1. /\ UNCHANGED <<recording_session, pending_ptt_capture, state>>
      BY <2>9, DeviceChangeLeaves DEF WorkerShutdown, Tick, TickWhileRecording,
           TickWhileNotRecording, ResumeReturns, PushToTalkCapture, ContinuousCapture,
           CaptureSucceeds, CaptureFails, SetLastAudioErrorCode, Recheck, PushFrame, RateGate,
           MarkTranscriptionRequest, ProviderSucceeds, AddSoftSpend, ProviderFails, Inject,
           SetLastTranscriptWithError, smvars, recordingVars
    <3>2. active_session_id' = active_session_id
      BY <2>9, DeviceChangeLeaves DEF WorkerShutdown, Tick, TickWhileRecording,
           TickWhileNotRecording, ResumeReturns, Playback!EndResumePass, Playback!coordinatorVars,
           PushToTalkCapture, ContinuousCapture, Recheck, PushFrame, RateGate, ProviderSucceeds,
           ProviderFails, Inject, playbackVars
    <3>3. \/ UNCHANGED <<w_pc, job>>
          \/ ~StopsOwner /\ ~Starting'
      <4>1. w_pc = "resuming" => job.next \in {"select", "finish", "rate_gate", "frames"}
        BY <1>0 DEF JobOK, Jobs
      <4> QED
        BY <2>9, <4>1, DeviceChangeLeaves DEF WorkerShutdown, Tick, TickWhileRecording,
             TickWhileNotRecording, ResumeReturns, PushToTalkCapture, ContinuousCapture, Recheck,
             PushFrame, NextFrame, RateGate, ProviderSucceeds, ProviderFails, Inject, Continue,
             AfterUtterance, StopsOwner, Starting
    <3> QED
      BY <2>2, <2>3, <3>1, <3>2, <3>3, OwnerKept DEF StopsOwner, Starting
  <2>10. ~ProviderCooldown
    BY DEF ProviderCooldown, Continue
  <2> QED
    BY <1>4, <2>4, <2>5, <2>6, <2>7, <2>8, <2>9, <2>10 DEF WorkerStep, WorkerRun, Pipeline
<1> QED
  BY <1>1, <1>2, <1>3, <1>4 DEF Next, ServerStep

\* Apart from provider cooldowns, every way a recording ends has its players resumed (AC 4
\* of the technical specification): at rest, nothing that is remembered is paused.
THEOREM NothingLeftPaused == MCSpec => []PauseLeftBehindOnlyByCooldown
<1> DEFINE Owner == cooled \/ OwnerOK
<1>1. MCInit => Owner
  <2> SUFFICES ASSUME MCInit PROVE OwnerOK
    OBVIOUS
  <2>1. /\ s_pc = "accept" /\ w_pc = "select" /\ job = NoJob /\ queue = <<>>
        /\ active_session_id = 0
    BY DEF MCInit, Init, Playback!PlaybackInit, Playback!NoOwner
  <2>2. Commands = <<>> /\ NoJob.source = "None"
    BY <2>1, NoJobOK DEF Commands
  <2>3. \A i \in 1 .. Len(Commands) : FALSE
    BY <2>2, EmptySeq
  <2> QED
    BY <2>1, <2>2, <2>3 DEF OwnerOK, Starting, Sent
<1>2. DaemonInv /\ Owner /\ [MCNext]_<<vars, opened, cooled>> => Owner'
  <2> SUFFICES ASSUME DaemonInv, Owner, [MCNext]_<<vars, opened, cooled>>, ~cooled'
               PROVE  OwnerOK'
    OBVIOUS
  <2>1. CASE MCNext
    <3>1. Next /\ OwnerOK /\ ~(w_pc = "cooldown" /\ w_pc' # "cooldown")
      BY <2>1 DEF MCNext
    <3> QED
      BY <3>1, OwnerStep
  <2>2. CASE UNCHANGED <<vars, opened, cooled>>
    <3>1. OwnerOK /\ Commands' = Commands
      BY <2>2 DEF vars, serverVars, Commands
    <3> QED
      BY <2>2, <3>1, OwnerKept
         DEF vars, smvars, recordingVars, playbackVars, workerVars, StopsOwner, Starting
  <2> QED
    BY <2>1, <2>2
<1>3. DaemonInv /\ Owner => PauseLeftBehindOnlyByCooldown
  <2> SUFFICES ASSUME DaemonInv, OwnerOK, Quiescent, recording_session = NoSession
               PROVE  paused_players = {}
    BY DEF PauseLeftBehindOnlyByCooldown, NoPauseLeftBehind
  <2>1. Commands = <<>> /\ w_pc = "select" /\ recording_session.id = 0
    BY DEF Quiescent, Commands, NoSession
  <2>2. \A kind, id : ~Sent(kind, id)
    BY <2>1, EmptySeq DEF Sent
  <2>3. active_session_id = 0
    BY <2>1, <2>2 DEF OwnerOK, Remembered, StopsOwner
  <2> QED
    BY <2>3 DEF DaemonInv, PassOK, Playback!PausedOnlyUnderOwner, Playback!NoOwner
<1> QED
  BY <1>1, <1>2, <1>3, MCDaemonInductive, PTL DEF MCSpec
=============================================================================
