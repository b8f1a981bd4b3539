---------------------------- MODULE StateMachine ----------------------------
(***************************************************************************)
(* The dictation state machine of sttd (crates/sttd/src/state.rs).         *)
(*                                                                         *)
(* Every public method of StateMachine is one action operator.  A method   *)
(* that returns a value takes a parameter `out', the variable the caller   *)
(* keeps the returned value in (PttPress(reply') stores it in reply).      *)
(*                                                                         *)
(* Time.  The code stores Instants; every test it makes compares one with  *)
(* now.  The model stores the distance to now instead, in ticks, and the   *)
(* action Elapse moves all of them by one tick.  An age stops growing just *)
(* past the largest value the code can tell apart, so the model is finite  *)
(* without a bound on how long the daemon runs.                            *)
(***************************************************************************)
EXTENDS Integers, FiniteSets

CONSTANTS
    None,               \* no transcript, no error code
    Transcripts,        \* transcripts the provider may return
    OutputErrors,       \* ERR_OUTPUT_* codes
    AudioErrors,        \* ERR_AUDIO_* codes
    CooldownTicks,      \* provider_error_cooldown_seconds (0 is accepted)
    ContinuousLimit,    \* max_continuous_minutes
    RateWindow,         \* the 60 s of prune_rate_window
    MaxRequests,        \* max_requests_per_minute
    SpendLimit,         \* monthly_soft_spend_limit_usd, Unset if not given
    AllowOverLimit,     \* allow_over_limit
    RequestCost,        \* estimated_request_cost_usd
    MinHold, MaxHold, DefaultHold,   \* the 100, 30_000 and 300 ms of ptt_release
    SpendCap,           \* bound of the model: spend saturates here
    MaxSessions         \* bound of the model: recordings begun

Unset == -1             \* no instant, no limit

ASSUME NoneAssumption == None \notin Transcripts \cup OutputErrors \cup AudioErrors

ASSUME TimeAssumption ==
    /\ CooldownTicks \in Nat /\ ContinuousLimit \in Nat /\ RateWindow \in Nat
    /\ MinHold \in Nat /\ MaxHold \in Nat /\ DefaultHold \in MinHold .. MaxHold

ASSUME GuardrailAssumption ==
    /\ MaxRequests \in Nat \ {0} /\ RequestCost \in Nat /\ SpendCap \in Nat
    /\ SpendLimit \in (Nat \ {0}) \cup {Unset} /\ AllowOverLimit \in BOOLEAN

ASSUME BoundAssumption == MaxSessions \in Nat

VARIABLES
    state,                      \* DictationState
    recording_session,          \* Option<RecordingSession>
    next_recording_session_id,
    continuous_age,             \* now - continuous_started_at
    ptt_age,                    \* now - ptt_started_at
    pending_ptt_capture,        \* Option<PendingPushToTalkCapture>
    cooldown,                   \* cooldown_until - now, 0 once reached
    requests_last_minute,       \* how many requests have each age
    monthly_spend,
    last_transcript,
    last_output_error_code,
    last_audio_error_code,
    reply                       \* what the last call returned to its caller

recordingVars == <<state, recording_session, next_recording_session_id,
                   continuous_age, ptt_age, pending_ptt_capture>>
guardrailVars == <<cooldown, requests_last_minute, monthly_spend>>
outputVars    == <<last_transcript, last_output_error_code, last_audio_error_code>>
smvars        == <<recordingVars, guardrailVars, outputVars>>

-----------------------------------------------------------------------------
(* Data types *)

DictationState  == {"Idle", "PushToTalkActive", "ContinuousActive", "Processing"}
RecordingMode   == {"PushToTalk", "Continuous"}
RecordingPhase  == {"StartPending", "Active"}
SessionId       == 1 .. MaxSessions
RecordingSession == [id: SessionId, mode: RecordingMode, phase: RecordingPhase]
PendingPushToTalkCapture ==
    [kind: {"Capture"}, session_id: SessionId, duration: MinHold .. MaxHold]
        \cup [kind: {"Cancelled"}, session_id: SessionId, duration: {0}]
Ages == 0 .. RateWindow + 1

\* Option::None of the record types
NoSession == [id |-> 0, mode |-> "None", phase |-> "None"]
NoPending == [kind |-> "None", session_id |-> 0, duration |-> 0]

Capped(n, cap) == IF n < cap THEN n ELSE cap

\* RecordingTransition: the session before and after a call, and why it stopped.
Transition(reason) == [previous    |-> recording_session,
                       current     |-> recording_session',
                       stop_reason |-> reason]
Unchanged == [previous    |-> recording_session,
              current     |-> recording_session,
              stop_reason |-> "None"]

StartRequested(t) ==
    /\ t.previous = NoSession
    /\ t.current.phase = "StartPending"

CapturePermitted(t) ==
    /\ t.previous.id = t.current.id /\ t.previous.mode = t.current.mode
    /\ t.previous.phase = "StartPending" /\ t.current.phase = "Active"

StoppedRecording(t) == t.previous # NoSession /\ t.stop_reason # "None"

Ok(t)  == [error |-> "None", transition |-> t]
Err(e) == [error |-> e, transition |-> Unchanged]

-----------------------------------------------------------------------------
(* Private helpers *)

CoolingDown == cooldown > 0

IsRecordingActive == recording_session.phase = "Active"

ContinuousLimitExceeded ==
    /\ state = "ContinuousActive"
    /\ IsRecordingActive
    /\ continuous_age > ContinuousLimit

\* The entries of the deque, each by its age and its number among those of that age.
Requests(requests) == UNION {{a} \X (1 .. requests[a]) : a \in DOMAIN requests}
RequestCount(requests) == Cardinality(Requests(requests))

\* prune_rate_window drops the requests older than the window, and only those.
PruneBoundaryToo(requests) == [a \in Ages |-> IF a >= RateWindow THEN 0 ELSE requests[a]]
Prune(requests) == [requests EXCEPT ![RateWindow + 1] = 0]

BeginRecording(mode) ==
    /\ next_recording_session_id <= MaxSessions
    /\ recording_session' = [id |-> next_recording_session_id, mode |-> mode,
                             phase |-> "StartPending"]
    /\ next_recording_session_id' = next_recording_session_id + 1
    /\ pending_ptt_capture' = NoPending
    /\ ptt_age' = Unset
    /\ continuous_age' = Unset

\* The session and both timers go together in every path that ends a recording.
EndRecording ==
    /\ recording_session' = NoSession
    /\ continuous_age' = Unset
    /\ ptt_age' = Unset

StopReasonOfOpenGateOnly == IF IsRecordingActive THEN "UserStop" ELSE "None"

StopReason == IF recording_session = NoSession THEN "None"
              ELSE IF recording_session.phase = "Active" THEN "UserStop"
              ELSE "CancelledBeforeCapture"

NotStopped == [session |-> NoSession, reason |-> "None"]

StopCurrentRecording(out, reason) ==
    \/ /\ recording_session = NoSession
       /\ out = NotStopped
       /\ UNCHANGED <<recording_session, continuous_age, ptt_age>>
    \/ /\ recording_session # NoSession
       /\ out = [session |-> recording_session, reason |-> reason]
       /\ EndRecording

-----------------------------------------------------------------------------
(* Commands of the user; all of them are refused during a cooldown. *)

Refused(e, out) == out = Err(e) /\ UNCHANGED recordingVars
Idempotent(out) == out = Ok(Unchanged) /\ UNCHANGED recordingVars

PressRestarts(out) ==
    /\ \/ CoolingDown /\ Refused("CooldownActive", out)
       \/ /\ ~CoolingDown /\ state \in {"Idle", "PushToTalkActive"}
          /\ state' = "PushToTalkActive"
          /\ BeginRecording("PushToTalk")
          /\ out = Ok(Transition("None"))
       \/ ~CoolingDown /\ state = "Processing" /\ Idempotent(out)
       \/ ~CoolingDown /\ state = "ContinuousActive" /\ Refused("InvalidTransition", out)
    /\ UNCHANGED <<guardrailVars, outputVars>>

PttPress(out) ==
    /\ \/ CoolingDown /\ Refused("CooldownActive", out)
       \/ /\ ~CoolingDown /\ state = "Idle"
          /\ state' = "PushToTalkActive"
          /\ BeginRecording("PushToTalk")
          /\ out = Ok(Transition("None"))
       \/ ~CoolingDown /\ state \in {"PushToTalkActive", "Processing"} /\ Idempotent(out)
       \/ ~CoolingDown /\ state = "ContinuousActive" /\ Refused("InvalidTransition", out)
    /\ UNCHANGED <<guardrailVars, outputVars>>

HeldFor == LET held == IF ptt_age = Unset THEN DefaultHold ELSE ptt_age
           IN  IF held < MinHold THEN MinHold ELSE Capped(held, MaxHold)

PendingWithoutGate ==
    [kind |-> "Capture", session_id |-> recording_session.id, duration |-> HeldFor]

\* What a release leaves for the worker: audio to collect, or a cancellation.
PendingCapture ==
    IF recording_session = NoSession THEN NoPending
    ELSE IF recording_session.phase = "Active"
    THEN [kind |-> "Capture", session_id |-> recording_session.id, duration |-> HeldFor]
    ELSE [kind |-> "Cancelled", session_id |-> recording_session.id, duration |-> 0]

PttRelease(out) ==
    /\ \/ CoolingDown /\ Refused("CooldownActive", out)
       \/ /\ ~CoolingDown /\ state = "PushToTalkActive"
          /\ pending_ptt_capture' = PendingCapture
          /\ EndRecording
          /\ state' = "Processing"
          /\ out = Ok(Transition(StopReason))
          /\ UNCHANGED next_recording_session_id
       \/ ~CoolingDown /\ state \in {"Idle", "Processing"} /\ Idempotent(out)
       \/ ~CoolingDown /\ state = "ContinuousActive" /\ Refused("InvalidTransition", out)
    /\ UNCHANGED <<guardrailVars, outputVars>>

ToggleContinuous(out) ==
    /\ \/ CoolingDown /\ Refused("CooldownActive", out)
       \/ /\ ~CoolingDown /\ state = "Idle"
          /\ state' = "ContinuousActive"
          /\ BeginRecording("Continuous")
          /\ out = Ok(Transition("None"))
       \/ /\ ~CoolingDown /\ state = "ContinuousActive"
          /\ EndRecording
          /\ state' = "Idle"
          /\ out = Ok(Transition(StopReason))
          /\ UNCHANGED <<next_recording_session_id, pending_ptt_capture>>
       \/ /\ ~CoolingDown /\ state \in {"PushToTalkActive", "Processing"}
          /\ Refused("InvalidTransition", out)
    /\ UNCHANGED <<guardrailVars, outputVars>>

\* The fields of StatusPayload; `requests_in_last_minute' is counted after pruning.
StatusReply ==
    IF ContinuousLimitExceeded THEN Err("ContinuousLimitExceeded")
    ELSE [error |-> "None", state |-> state, cooldown_remaining |-> cooldown,
          requests |-> RequestCount(Prune(requests_last_minute)),
          has_retained_transcript |-> last_transcript # None,
          output_error |-> last_output_error_code,
          audio_error |-> last_audio_error_code]

Status(out) ==
    /\ requests_last_minute' = Prune(requests_last_minute)
    /\ out = StatusReply
    /\ UNCHANGED <<recordingVars, cooldown, monthly_spend, outputVars>>

-----------------------------------------------------------------------------
(* Calls of the runtime worker and of the transcription pipeline *)

\* The gate of recording `id' opens, unless that recording is over or already open.
GateMayOpen(id) ==
    /\ recording_session.id = id
    /\ recording_session.phase = "StartPending"

MarkCapturePermitted(id, out) ==
    /\ \/ /\ GateMayOpen(id)
          /\ recording_session' = [recording_session EXCEPT !.phase = "Active"]
          /\ ptt_age' = IF recording_session.mode = "PushToTalk" THEN 0 ELSE ptt_age
          /\ continuous_age' = IF recording_session.mode = "Continuous" THEN 0
                               ELSE continuous_age
          /\ out = Transition("None")
          /\ UNCHANGED <<state, next_recording_session_id, pending_ptt_capture>>
       \/ ~GateMayOpen(id) /\ out = Unchanged /\ UNCHANGED recordingVars
    /\ UNCHANGED <<guardrailVars, outputVars>>

TakePendingPttCapture(id, out) ==
    /\ LET mine == pending_ptt_capture.session_id = id
       IN  /\ out = IF mine THEN pending_ptt_capture ELSE NoPending
           /\ pending_ptt_capture' = IF mine THEN NoPending ELSE pending_ptt_capture
    /\ UNCHANGED <<state, recording_session, next_recording_session_id,
                   continuous_age, ptt_age, guardrailVars, outputVars>>

FinishProcessing ==
    /\ state' = IF state = "Processing" THEN "Idle" ELSE state
    /\ pending_ptt_capture' = NoPending
    /\ ptt_age' = Unset
    /\ UNCHANGED <<recording_session, next_recording_session_id, continuous_age,
                   guardrailVars, outputVars>>

LimitForgetsState(out) ==
    /\ \/ /\ ContinuousLimitExceeded
          /\ StopCurrentRecording(out, "ContinuousLimitExceeded")
          /\ UNCHANGED <<state, next_recording_session_id, pending_ptt_capture>>
       \/ ~ContinuousLimitExceeded /\ out = NotStopped /\ UNCHANGED recordingVars
    /\ UNCHANGED <<guardrailVars, outputVars>>

EnforceContinuousLimit(out) ==
    /\ \/ /\ ContinuousLimitExceeded
          /\ StopCurrentRecording(out, "ContinuousLimitExceeded")
          /\ state' = "Idle"
          /\ UNCHANGED <<next_recording_session_id, pending_ptt_capture>>
       \/ ~ContinuousLimitExceeded /\ out = NotStopped /\ UNCHANGED recordingVars
    /\ UNCHANGED <<guardrailVars, outputVars>>

\* The refusals are tested in this order: cooldown, rate, spend.
RateLimited == RequestCount(Prune(requests_last_minute)) >= MaxRequests
OverSpentAboveLimit == SpendLimit # Unset /\ monthly_spend > SpendLimit /\ ~AllowOverLimit
OverSpent   == SpendLimit # Unset /\ monthly_spend >= SpendLimit /\ ~AllowOverLimit

MarkTranscriptionRequest(out) ==
    /\ \/ /\ CoolingDown
          /\ out = "CooldownActive"
          /\ UNCHANGED requests_last_minute
       \/ /\ ~CoolingDown /\ RateLimited
          /\ out = "RateLimitExceeded"
          /\ requests_last_minute' = Prune(requests_last_minute)
       \/ /\ ~CoolingDown /\ ~RateLimited /\ OverSpent
          /\ out = "SoftSpendLimitReached"
          /\ requests_last_minute' = Prune(requests_last_minute)
       \/ /\ ~CoolingDown /\ ~RateLimited /\ ~OverSpent
          /\ out = "Accepted"
          /\ requests_last_minute' = [Prune(requests_last_minute) EXCEPT ![0] = @ + 1]
    /\ UNCHANGED <<recordingVars, cooldown, monthly_spend, outputVars>>

AddSoftSpend ==
    /\ monthly_spend' = Capped(monthly_spend + RequestCost, SpendCap)
    /\ UNCHANGED <<recordingVars, cooldown, requests_last_minute, outputVars>>

SetProviderErrorCooldown(out) ==
    /\ StopCurrentRecording(out, "ProviderCooldown")
    /\ cooldown' = CooldownTicks
    /\ state' = "Idle"
    /\ pending_ptt_capture' = NoPending
    /\ UNCHANGED <<next_recording_session_id, requests_last_minute, monthly_spend,
                   outputVars>>

SetLastTranscript(t) ==
    /\ last_transcript' = t
    /\ last_output_error_code' = None
    /\ UNCHANGED <<recordingVars, guardrailVars, last_audio_error_code>>

SetLastTranscriptWithError(t, code) ==
    /\ last_transcript' = t
    /\ last_output_error_code' = code
    /\ UNCHANGED <<recordingVars, guardrailVars, last_audio_error_code>>

TakeLastTranscript(out) ==
    /\ out = last_transcript
    /\ last_transcript' = None
    /\ UNCHANGED <<recordingVars, guardrailVars, last_output_error_code,
                   last_audio_error_code>>

RestoredOverNewer(t) == t
RestoredTranscript(t) == IF last_transcript = None THEN t ELSE last_transcript

RestoreLastTranscriptIfAbsent(t) ==
    /\ last_transcript' = RestoredTranscript(t)
    /\ UNCHANGED <<recordingVars, guardrailVars, last_output_error_code,
                   last_audio_error_code>>

SetLastOutputErrorCode(code) ==
    /\ last_output_error_code' = code
    /\ UNCHANGED <<recordingVars, guardrailVars, last_transcript, last_audio_error_code>>

SetLastAudioErrorCode(code) ==
    /\ last_audio_error_code' = code
    /\ UNCHANGED <<recordingVars, guardrailVars, last_transcript, last_output_error_code>>

-----------------------------------------------------------------------------
(* Time *)

Older(age, cap) == IF age = Unset THEN Unset ELSE Capped(age + 1, cap)

Elapse ==
    /\ cooldown' = IF cooldown = 0 THEN 0 ELSE cooldown - 1
    /\ continuous_age' = Older(continuous_age, ContinuousLimit + 1)
    /\ ptt_age' = Older(ptt_age, MaxHold)
    /\ requests_last_minute' =
          [a \in Ages |-> (IF a = 0 THEN 0 ELSE requests_last_minute[a - 1])
                          + (IF a = RateWindow + 1 THEN requests_last_minute[a] ELSE 0)]
    /\ UNCHANGED <<state, recording_session, next_recording_session_id,
                   pending_ptt_capture, monthly_spend, outputVars>>

-----------------------------------------------------------------------------
SMInit ==
    /\ state = "Idle"
    /\ recording_session = NoSession
    /\ next_recording_session_id = 1
    /\ continuous_age = Unset /\ ptt_age = Unset
    /\ pending_ptt_capture = NoPending
    /\ cooldown = 0
    /\ requests_last_minute = [a \in Ages |-> 0]
    /\ monthly_spend = 0
    /\ last_transcript = None
    /\ last_output_error_code = None
    /\ last_audio_error_code \in AudioErrors \cup {None}   \* set when startup found no device
    /\ reply = None

UserCall == PttPress(reply') \/ PttRelease(reply') \/ ToggleContinuous(reply')

WorkerCall ==
    \/ \E id \in SessionId : MarkCapturePermitted(id, reply')
    \/ \E id \in SessionId : TakePendingPttCapture(id, reply')
    \/ FinishProcessing /\ reply' = None
    \/ EnforceContinuousLimit(reply')
    \/ MarkTranscriptionRequest(reply')
    \/ AddSoftSpend /\ reply' = None
    \/ SetProviderErrorCooldown(reply')
    \/ \E code \in AudioErrors \cup {None} : SetLastAudioErrorCode(code) /\ reply' = None

TranscriptCall ==
    \/ \E t \in Transcripts : SetLastTranscript(t) /\ reply' = None
    \/ \E t \in Transcripts, code \in OutputErrors :
          SetLastTranscriptWithError(t, code) /\ reply' = None
    \/ TakeLastTranscript(reply')
    \/ \E t \in Transcripts : RestoreLastTranscriptIfAbsent(t) /\ reply' = None
    \/ \E code \in OutputErrors \cup {None} : SetLastOutputErrorCode(code) /\ reply' = None

\* Any caller may make any call at any time: the daemon is one such caller.
Call   == UserCall \/ Status(reply') \/ WorkerCall \/ TranscriptCall
SMNext == Call \/ (Elapse /\ UNCHANGED reply)
SMSpec == SMInit /\ [][SMNext]_<<smvars, reply>>

-----------------------------------------------------------------------------
(* Properties *)

RecordingTypeOK ==
    /\ state \in DictationState
    /\ recording_session \in RecordingSession \cup {NoSession}
    /\ next_recording_session_id \in 1 .. MaxSessions + 1
    /\ continuous_age \in (0 .. ContinuousLimit + 1) \cup {Unset}
    /\ ptt_age \in (0 .. MaxHold) \cup {Unset}
    /\ pending_ptt_capture \in PendingPushToTalkCapture \cup {NoPending}

GuardrailTypeOK ==
    /\ cooldown \in 0 .. CooldownTicks
    /\ requests_last_minute \in [Ages -> Nat]
    /\ monthly_spend \in 0 .. SpendCap

OutputTypeOK ==
    /\ last_transcript \in Transcripts \cup {None}
    /\ last_output_error_code \in OutputErrors \cup {None}
    /\ last_audio_error_code \in AudioErrors \cup {None}

\* Every field holds a value of its Rust type (counters within the model's bounds).
TypeOK == RecordingTypeOK /\ GuardrailTypeOK /\ OutputTypeOK

\* The two fields that say whether the daemon records never disagree: there is a
\* session exactly in the two active states, of that state's mode, and it is the
\* newest one.  No method checks this; each keeps it by updating both.
SessionMatchesState ==
    /\ recording_session = NoSession => state \in {"Idle", "Processing"}
    /\ recording_session # NoSession =>
          /\ state = IF recording_session.mode = "PushToTalk"
                     THEN "PushToTalkActive" ELSE "ContinuousActive"
          /\ recording_session.id = next_recording_session_id - 1

\* What a release left for the worker belongs to the newest recording and exists
\* only while the state is Processing, so the Stop command of an older recording
\* can never take it and no new recording can begin over it.
PendingIsNewest ==
    pending_ptt_capture # NoPending =>
        /\ state = "Processing"
        /\ pending_ptt_capture.session_id = next_recording_session_id - 1

\* Nothing is being recorded while the provider cools down.  Since release and
\* toggle are refused then, a recording that outlived the start of a cooldown
\* could not be stopped by its user.
NoRecordingDuringCooldown == recording_session # NoSession => ~CoolingDown

\* The duration guardrail has a clock exactly while a continuous recording's gate
\* is open; the held-time clock runs at most while a push-to-talk gate is open.
TimersFollowGate ==
    /\ continuous_age # Unset <=> (state = "ContinuousActive" /\ IsRecordingActive)
    /\ ptt_age # Unset => (state = "PushToTalkActive" /\ IsRecordingActive)

\* What the fields say of a recording agrees after every call.  The parts need each
\* other: SessionMatchesState needs PendingIsNewest for the ways out of Processing, and
\* NoRecordingDuringCooldown needs it that Idle has no session to leak.
RecordingInv ==
    /\ SessionMatchesState
    /\ PendingIsNewest
    /\ NoRecordingDuringCooldown
    /\ TimersFollowGate

\* A recording never ends silently: the call that ends it returns that very
\* session to its caller, which is how the runtime learns to resume playback.
StopsAnnounced ==
    [][(recording_session # NoSession /\ recording_session' = NoSession) =>
          \/ /\ UserCall
             /\ StoppedRecording(reply'.transition)
             /\ reply'.transition.previous = recording_session
          \/ /\ ~UserCall
             /\ reply'.session = recording_session]_<<smvars, reply>>

\* The recordings of one run of the daemon, seen as the lifecycle of each id.
LifecyclePhase ==
    [i \in SessionId |->
        IF i >= next_recording_session_id THEN "unused"
        ELSE IF recording_session.id = i
             THEN IF recording_session.phase = "Active" THEN "open" ELSE "requested"
             ELSE "ended"]

Lifecycle == INSTANCE RecordingLifecycle WITH phase <- LifecyclePhase

\* The state machine implements the lifecycle: ids are begun in order and once, one
\* recording at a time, a gate opens only for a recording still wanted, and what
\* has ended stays ended.
ImplementsLifecycle == Lifecycle!Spec
=============================================================================
