-------------------------- MODULE StateMachineProofs --------------------------
(***************************************************************************)
(* Proofs about StateMachine for every value of its constants and every    *)
(* caller, any method being called at any time: what is always true of its *)
(* fields, that it implements RecordingLifecycle, that no recording ends   *)
(* unannounced, and that the rate limit is exact.                          *)
(***************************************************************************)
EXTENDS MCStateMachine, FiniteSetTheorems, TLAPS

\* The types and what is known of the recording are inductive together.
IInv == TypeOK /\ RecordingInv

\* What the three kinds of fields add up to: the lemmas below show each part.
RecordingOK == RecordingTypeOK /\ RecordingInv

-----------------------------------------------------------------------------
(* A call that leaves the recording fields and the cooldown alone.          *)

\* A call that changes neither the recording nor the cooldown keeps what is known of both.
LEMMA RecordingUntouched ==
  ASSUME RecordingOK, UNCHANGED recordingVars, UNCHANGED cooldown
  PROVE  RecordingOK'
BY DEF RecordingOK, RecordingTypeOK, RecordingInv, SessionMatchesState,
       PendingIsNewest, NoRecordingDuringCooldown, TimersFollowGate, CoolingDown,
       IsRecordingActive, recordingVars

\* A call that leaves transcript and error codes alone keeps their types.
LEMMA OutputUntouched ==
  ASSUME OutputTypeOK, UNCHANGED outputVars
  PROVE  OutputTypeOK'
BY DEF OutputTypeOK, outputVars

\* A call that leaves cooldown, window and spend alone keeps their types.
LEMMA GuardrailUntouched ==
  ASSUME GuardrailTypeOK, UNCHANGED guardrailVars
  PROVE  GuardrailTypeOK'
BY DEF GuardrailTypeOK, guardrailVars

-----------------------------------------------------------------------------
(* The beginning and the end of a recording, shared by several calls.       *)

\* From Idle and outside a cooldown, a new recording is consistent in its new state.
LEMMA BeginRecordingOK ==
  ASSUME RecordingOK, state = "Idle", ~CoolingDown, UNCHANGED cooldown,
         NEW mode \in RecordingMode, BeginRecording(mode),
         state' = IF mode = "PushToTalk" THEN "PushToTalkActive" ELSE "ContinuousActive"
  PROVE  RecordingOK'
<1> USE BoundAssumption DEF RecordingOK, BeginRecording, NoSession, NoPending, Unset
<1>1. next_recording_session_id \in SessionId
  BY DEF RecordingTypeOK, SessionId
<1>2. RecordingTypeOK'
  BY <1>1 DEF RecordingTypeOK, DictationState, RecordingSession, RecordingMode,
              RecordingPhase, SessionId
<1>3. SessionMatchesState' /\ PendingIsNewest'
  BY <1>1 DEF SessionMatchesState, PendingIsNewest, SessionId, RecordingMode
<1>4. NoRecordingDuringCooldown' /\ TimersFollowGate'
  BY DEF NoRecordingDuringCooldown, CoolingDown, TimersFollowGate, IsRecordingActive
<1> QED
  BY <1>2, <1>3, <1>4 DEF RecordingInv

\* Ending the recording is consistent whenever the state becomes one without a
\* recording and what is left pending, if anything, is of that recording.
LEMMA EndRecordingOK ==
  ASSUME RecordingOK, EndRecording, UNCHANGED next_recording_session_id,
         \/ state' = "Idle" /\ pending_ptt_capture' = NoPending
         \/ /\ state' = "Processing"
            /\ pending_ptt_capture' \in PendingPushToTalkCapture \cup {NoPending}
            /\ pending_ptt_capture' # NoPending =>
                  pending_ptt_capture'.session_id = next_recording_session_id - 1
  PROVE  RecordingOK'
<1> USE DEF RecordingOK, EndRecording, NoSession, Unset
<1>1. RecordingTypeOK'
  BY DEF RecordingTypeOK, DictationState
<1>2. SessionMatchesState' /\ PendingIsNewest'
  BY DEF SessionMatchesState, PendingIsNewest
<1>3. NoRecordingDuringCooldown' /\ TimersFollowGate'
  BY DEF NoRecordingDuringCooldown, TimersFollowGate, IsRecordingActive
<1> QED
  BY <1>1, <1>2, <1>3 DEF RecordingInv

-----------------------------------------------------------------------------
(* One lemma per call that touches the recording fields.  The returned      *)
(* value is a parameter, so each holds whoever calls and keeps the result.  *)

\* ptt_press refuses, repeats itself, or begins a push-to-talk recording from Idle.
LEMMA PttPressOK ==
  ASSUME RecordingOK, NEW out, PttPress(out)
  PROVE  RecordingOK'
<1>1. UNCHANGED cooldown
  BY DEF PttPress, guardrailVars
<1>2. CASE UNCHANGED recordingVars
  BY <1>1, <1>2, RecordingUntouched
<1>3. CASE ~CoolingDown /\ state = "Idle" /\ state' = "PushToTalkActive"
           /\ BeginRecording("PushToTalk")
  BY <1>1, <1>3, BeginRecordingOK DEF RecordingMode
<1> QED
  BY <1>2, <1>3 DEF PttPress, Refused, Idempotent

\* ptt_release ends the recording and leaves its capture or cancellation pending.
LEMMA PttReleaseOK ==
  ASSUME RecordingOK, NEW out, PttRelease(out)
  PROVE  RecordingOK'
<1>1. UNCHANGED cooldown
  BY DEF PttRelease, guardrailVars
<1>2. CASE UNCHANGED recordingVars
  BY <1>1, <1>2, RecordingUntouched
<1>3. CASE /\ state = "PushToTalkActive" /\ state' = "Processing" /\ EndRecording
           /\ pending_ptt_capture' = PendingCapture
           /\ UNCHANGED next_recording_session_id
  <2>1. HeldFor \in MinHold .. MaxHold
    BY TimeAssumption DEF HeldFor, Capped, RecordingOK, RecordingTypeOK, Unset
  <2>2. PendingCapture \in PendingPushToTalkCapture \cup {NoPending}
    BY <2>1 DEF PendingCapture, PendingPushToTalkCapture, RecordingOK, RecordingTypeOK,
                RecordingSession, NoSession
  <2>3. PendingCapture # NoPending =>
           PendingCapture.session_id = next_recording_session_id - 1
    BY DEF PendingCapture, RecordingOK, RecordingInv, SessionMatchesState
  <2> QED
    BY <1>3, <2>2, <2>3, EndRecordingOK
<1> QED
  BY <1>2, <1>3 DEF PttRelease, Refused, Idempotent

\* toggle_continuous begins or ends a continuous recording, and no other.
LEMMA ToggleContinuousOK ==
  ASSUME RecordingOK, NEW out, ToggleContinuous(out)
  PROVE  RecordingOK'
<1>1. UNCHANGED cooldown
  BY DEF ToggleContinuous, guardrailVars
<1>2. CASE UNCHANGED recordingVars
  BY <1>1, <1>2, RecordingUntouched
<1>3. CASE ~CoolingDown /\ state = "Idle" /\ state' = "ContinuousActive"
           /\ BeginRecording("Continuous")
  BY <1>1, <1>3, BeginRecordingOK DEF RecordingMode
<1>4. CASE /\ state = "ContinuousActive" /\ state' = "Idle" /\ EndRecording
           /\ UNCHANGED <<next_recording_session_id, pending_ptt_capture>>
  <2>1. pending_ptt_capture = NoPending
    BY <1>4 DEF RecordingOK, RecordingInv, PendingIsNewest
  <2> QED
    BY <1>4, <2>1, EndRecordingOK
<1> QED
  BY <1>2, <1>3, <1>4 DEF ToggleContinuous, Refused

\* mark_capture_permitted opens the gate and starts the clock of its mode.
LEMMA MarkCapturePermittedOK ==
  ASSUME RecordingOK, NEW id \in SessionId, NEW out, MarkCapturePermitted(id, out)
  PROVE  RecordingOK'
<1>1. UNCHANGED cooldown
  BY DEF MarkCapturePermitted, guardrailVars
<1>2. CASE UNCHANGED recordingVars
  BY <1>1, <1>2, RecordingUntouched
<1>3. CASE GateMayOpen(id) /\ ~UNCHANGED recordingVars
  <2> USE DEF RecordingOK
  <2>1. /\ recording_session \in RecordingSession
        /\ recording_session' = [recording_session EXCEPT !.phase = "Active"]
        /\ ptt_age' = IF recording_session.mode = "PushToTalk" THEN 0 ELSE ptt_age
        /\ continuous_age' = IF recording_session.mode = "Continuous" THEN 0
                             ELSE continuous_age
        /\ UNCHANGED <<state, next_recording_session_id, pending_ptt_capture>>
    BY <1>3 DEF MarkCapturePermitted, GateMayOpen, RecordingTypeOK, NoSession
  <2>2. RecordingTypeOK'
    BY <2>1, TimeAssumption DEF RecordingTypeOK, RecordingSession, RecordingPhase
  <2>3. SessionMatchesState' /\ PendingIsNewest'
    BY <2>1 DEF RecordingInv, SessionMatchesState, PendingIsNewest, RecordingSession,
                NoSession, RecordingMode, SessionId
  <2>4. NoRecordingDuringCooldown'
    BY <1>1, <2>1 DEF RecordingInv, NoRecordingDuringCooldown, CoolingDown,
                      RecordingSession, NoSession, RecordingMode, SessionId
  <2>5. TimersFollowGate'
    BY <1>3, <2>1 DEF RecordingInv, TimersFollowGate, SessionMatchesState, GateMayOpen,
                IsRecordingActive, RecordingSession, RecordingMode, SessionId, Unset,
                NoSession
  <2> QED
    BY <2>2, <2>3, <2>4, <2>5 DEF RecordingInv
<1> QED
  BY <1>2, <1>3 DEF MarkCapturePermitted

\* take_pending_ptt_capture leaves nothing pending and touches no recording.
LEMMA TakePendingPttCaptureOK ==
  ASSUME RecordingOK, NEW id \in SessionId, NEW out, TakePendingPttCapture(id, out)
  PROVE  RecordingOK'
BY DEF TakePendingPttCapture, RecordingOK, RecordingTypeOK, RecordingInv,
       SessionMatchesState, PendingIsNewest, NoRecordingDuringCooldown,
       TimersFollowGate, CoolingDown, IsRecordingActive, guardrailVars

\* finish_processing turns Processing into Idle and leaves nothing pending.
LEMMA FinishProcessingOK ==
  ASSUME RecordingOK, FinishProcessing
  PROVE  RecordingOK'
BY DEF FinishProcessing, RecordingOK, RecordingTypeOK, RecordingInv, DictationState,
       SessionMatchesState, PendingIsNewest, NoRecordingDuringCooldown,
       TimersFollowGate, CoolingDown, IsRecordingActive, guardrailVars

\* enforce_continuous_limit ends an open continuous recording, or does nothing.
LEMMA EnforceContinuousLimitOK ==
  ASSUME RecordingOK, NEW out, EnforceContinuousLimit(out)
  PROVE  RecordingOK'
<1>1. CASE UNCHANGED recordingVars
  BY <1>1, RecordingUntouched DEF EnforceContinuousLimit, guardrailVars
<1>2. CASE /\ ContinuousLimitExceeded /\ state' = "Idle"
           /\ StopCurrentRecording(out, "ContinuousLimitExceeded")
           /\ UNCHANGED <<next_recording_session_id, pending_ptt_capture>>
  <2>1. pending_ptt_capture = NoPending /\ recording_session # NoSession
    BY <1>2 DEF ContinuousLimitExceeded, RecordingOK, RecordingInv, PendingIsNewest,
                IsRecordingActive, NoSession
  <2> QED
    BY <1>2, <2>1, EndRecordingOK DEF StopCurrentRecording
<1> QED
  BY <1>1, <1>2 DEF EnforceContinuousLimit

\* The only call that starts a cooldown also ends whatever is being recorded.
LEMMA SetProviderErrorCooldownOK ==
  ASSUME RecordingOK, NEW out, SetProviderErrorCooldown(out)
  PROVE  RecordingOK'
<1>1. /\ state' = "Idle" /\ pending_ptt_capture' = NoPending
      /\ UNCHANGED next_recording_session_id
  BY DEF SetProviderErrorCooldown
<1>2. CASE recording_session # NoSession
  BY <1>1, <1>2, EndRecordingOK DEF SetProviderErrorCooldown, StopCurrentRecording
<1>3. CASE recording_session = NoSession
  <2>1. EndRecording
    BY <1>3 DEF SetProviderErrorCooldown, StopCurrentRecording, EndRecording, RecordingOK,
                RecordingInv, TimersFollowGate, IsRecordingActive, NoSession
  <2> QED
    BY <1>1, <2>1, EndRecordingOK
<1> QED
  BY <1>2, <1>3

\* A cooldown can only run down, so time alone never puts a recording under one.
LEMMA ElapseOK ==
  ASSUME RecordingOK, GuardrailTypeOK, Elapse
  PROVE  RecordingOK'
<1> USE TimeAssumption DEF RecordingOK, Elapse, Older, Capped, Unset
<1>1. RecordingTypeOK'
  BY DEF RecordingTypeOK
<1>2. SessionMatchesState' /\ PendingIsNewest'
  BY DEF RecordingInv, SessionMatchesState, PendingIsNewest
<1>3. NoRecordingDuringCooldown'
  BY DEF RecordingInv, NoRecordingDuringCooldown, CoolingDown, GuardrailTypeOK
<1>4. TimersFollowGate'
  BY DEF RecordingInv, TimersFollowGate, IsRecordingActive, RecordingTypeOK
<1> QED
  BY <1>1, <1>2, <1>3, <1>4 DEF RecordingInv

-----------------------------------------------------------------------------
(* The guardrail and output fields keep their types.                        *)

\* Pruning the request window leaves a count for every age.
LEMMA PruneType ==
  ASSUME NEW requests \in [Ages -> Nat]
  PROVE  Prune(requests) \in [Ages -> Nat]
BY TimeAssumption DEF Prune, Ages

\* Counting a request made now leaves a count for every age.
LEMMA CountOneType ==
  ASSUME NEW requests \in [Ages -> Nat]
  PROVE  [requests EXCEPT ![0] = @ + 1] \in [Ages -> Nat]
BY TimeAssumption DEF Ages

\* The calls that change cooldown, window or spend keep their types.
LEMMA GuardrailCalls ==
  ASSUME GuardrailTypeOK, NEW out,
         \/ Status(out)
         \/ MarkTranscriptionRequest(out)
         \/ AddSoftSpend
         \/ SetProviderErrorCooldown(out)
         \/ Elapse
  PROVE  GuardrailTypeOK'
<1> USE TimeAssumption, GuardrailAssumption DEF GuardrailTypeOK
<1>1. Prune(requests_last_minute) \in [Ages -> Nat]
  BY PruneType
<1>2. CASE Status(out)
  BY <1>1, <1>2 DEF Status
<1>3. CASE MarkTranscriptionRequest(out)
  <2>1. /\ UNCHANGED <<cooldown, monthly_spend>>
        /\ requests_last_minute' \in {requests_last_minute, Prune(requests_last_minute),
                                      [Prune(requests_last_minute) EXCEPT ![0] = @ + 1]}
    BY <1>3 DEF MarkTranscriptionRequest
  <2> QED
    BY <1>1, <2>1, CountOneType
<1>4. CASE AddSoftSpend
  BY <1>4 DEF AddSoftSpend, Capped
<1>5. CASE SetProviderErrorCooldown(out)
  BY <1>5 DEF SetProviderErrorCooldown
<1>6. CASE Elapse
  BY <1>6 DEF Elapse, Ages
<1> QED
  BY <1>2, <1>3, <1>4, <1>5, <1>6

\* The calls about transcripts and output errors keep their types.
LEMMA OutputCalls ==
  ASSUME OutputTypeOK, TranscriptCall
  PROVE  OutputTypeOK'
BY DEF OutputTypeOK, TranscriptCall, SetLastTranscript, SetLastTranscriptWithError,
       TakeLastTranscript, RestoreLastTranscriptIfAbsent, RestoredTranscript,
       SetLastOutputErrorCode

-----------------------------------------------------------------------------
(* The invariant, by kind of call and whoever keeps the result.             *)

\* A call that leaves every field alone keeps the invariant.
LEMMA NothingCalledInv ==
  ASSUME IInv, UNCHANGED smvars
  PROVE  IInv'
<1>1. /\ UNCHANGED recordingVars /\ UNCHANGED guardrailVars
      /\ UNCHANGED outputVars /\ UNCHANGED cooldown
  BY DEF smvars, guardrailVars
<1> QED
  BY <1>1, RecordingUntouched, GuardrailUntouched, OutputUntouched
     DEF IInv, TypeOK, RecordingOK

\* The calls of the server on behalf of a user keep the invariant.
LEMMA UserCallInv ==
  ASSUME IInv, NEW out, PttPress(out) \/ PttRelease(out) \/ ToggleContinuous(out)
  PROVE  IInv'
<1>1. RecordingOK
  BY DEF IInv, TypeOK, RecordingOK
<1>2. UNCHANGED guardrailVars /\ UNCHANGED outputVars
  BY DEF PttPress, PttRelease, ToggleContinuous, guardrailVars, outputVars
<1>3. RecordingOK'
  BY <1>1, PttPressOK, PttReleaseOK, ToggleContinuousOK
<1> QED
  BY <1>2, <1>3, GuardrailUntouched, OutputUntouched DEF IInv, TypeOK, RecordingOK

\* The calls of the runtime worker that touch the recording keep the invariant.
LEMMA RecordingCallInv ==
  ASSUME IInv, NEW out,
         \/ \E id \in SessionId : MarkCapturePermitted(id, out)
         \/ \E id \in SessionId : TakePendingPttCapture(id, out)
         \/ FinishProcessing
         \/ EnforceContinuousLimit(out)
  PROVE  IInv'
<1>1. RecordingOK
  BY DEF IInv, TypeOK, RecordingOK
<1>2. UNCHANGED guardrailVars /\ UNCHANGED outputVars
  BY DEF MarkCapturePermitted, TakePendingPttCapture, FinishProcessing,
         EnforceContinuousLimit, guardrailVars, outputVars
<1>3. RecordingOK'
  BY <1>1, MarkCapturePermittedOK, TakePendingPttCaptureOK, FinishProcessingOK,
     EnforceContinuousLimitOK
<1> QED
  BY <1>2, <1>3, GuardrailUntouched, OutputUntouched DEF IInv, TypeOK, RecordingOK

\* The calls of the pipeline, status queries and time keep the invariant.
LEMMA GuardrailCallInv ==
  ASSUME IInv, NEW out,
         \/ MarkTranscriptionRequest(out)
         \/ AddSoftSpend
         \/ SetProviderErrorCooldown(out)
         \/ Status(out)
         \/ Elapse
  PROVE  IInv'
<1> USE DEF IInv, TypeOK
<1>1. RecordingOK
  BY DEF RecordingOK
<1>2. UNCHANGED outputVars
  BY DEF MarkTranscriptionRequest, AddSoftSpend, SetProviderErrorCooldown, Status, Elapse
<1>3. GuardrailTypeOK'
  BY GuardrailCalls
<1>4. CASE MarkTranscriptionRequest(out) \/ AddSoftSpend \/ Status(out)
  <2>1. UNCHANGED recordingVars /\ UNCHANGED cooldown
    BY <1>4 DEF MarkTranscriptionRequest, AddSoftSpend, Status
  <2> QED
    BY <1>1, <1>2, <1>3, <2>1, RecordingUntouched, OutputUntouched DEF RecordingOK
<1>5. CASE SetProviderErrorCooldown(out)
  BY <1>1, <1>2, <1>3, <1>5, SetProviderErrorCooldownOK, OutputUntouched DEF RecordingOK
<1>6. CASE Elapse
  BY <1>1, <1>2, <1>3, <1>6, ElapseOK, OutputUntouched DEF RecordingOK
<1> QED
  BY <1>4, <1>5, <1>6

\* The calls about transcripts and error codes keep the invariant.
LEMMA OutputCallInv ==
  ASSUME IInv, UNCHANGED recordingVars, UNCHANGED guardrailVars, OutputTypeOK'
  PROVE  IInv'
<1>1. UNCHANGED cooldown
  BY DEF guardrailVars
<1> QED
  BY <1>1, RecordingUntouched, GuardrailUntouched DEF IInv, TypeOK, RecordingOK

\* A new state machine is idle, with nothing recorded, pending or running.
LEMMA InitInv == SMInit => IInv
BY TimeAssumption, GuardrailAssumption, BoundAssumption
   DEF SMInit, IInv, TypeOK, RecordingTypeOK, GuardrailTypeOK, OutputTypeOK,
       RecordingInv, SessionMatchesState, PendingIsNewest, NoRecordingDuringCooldown,
       TimersFollowGate, CoolingDown, IsRecordingActive, DictationState, NoSession,
       NoPending, Unset

\* Every call, and time, keeps the inductive invariant.
LEMMA NextInv ==
  ASSUME IInv, [SMNext]_<<smvars, reply>>
  PROVE  IInv'
<1>1. CASE UserCall
  BY <1>1, UserCallInv DEF UserCall
<1>2. CASE WorkerCall
  <2>1. CASE \E code \in AudioErrors \cup {None} : SetLastAudioErrorCode(code)
    <3>1. UNCHANGED recordingVars /\ UNCHANGED guardrailVars /\ OutputTypeOK'
      BY <2>1 DEF SetLastAudioErrorCode, IInv, TypeOK, OutputTypeOK
    <3> QED
      BY <3>1, OutputCallInv
  <2> QED
    BY <1>2, <2>1, RecordingCallInv, GuardrailCallInv DEF WorkerCall
<1>3. CASE TranscriptCall
  <2>1. UNCHANGED recordingVars /\ UNCHANGED guardrailVars
    BY <1>3 DEF TranscriptCall, SetLastTranscript, SetLastTranscriptWithError,
                TakeLastTranscript, RestoreLastTranscriptIfAbsent, SetLastOutputErrorCode
  <2> QED
    BY <1>3, <2>1, OutputCalls, OutputCallInv DEF IInv, TypeOK
<1>4. CASE Status(reply') \/ Elapse
  BY <1>4, GuardrailCallInv
<1>5. CASE UNCHANGED <<smvars, reply>>
  BY <1>5, NothingCalledInv
<1> QED
  BY <1>1, <1>2, <1>3, <1>4, <1>5 DEF SMNext, Call

\* The inductive invariant holds of every call sequence, in any order and number.
THEOREM Inductive == SMSpec => []IInv
BY InitInv, NextInv, PTL DEF SMSpec

\* Type correctness, for every configuration.
THEOREM TypeCorrect == SMSpec => []TypeOK
BY Inductive, PTL DEF IInv

\* After any calls in any order the state, the session, what awaits the worker and the
\* clocks agree, and nothing is recorded during a cooldown.
THEOREM RecordingConsistent == SMSpec => []RecordingInv
BY Inductive, PTL DEF IInv

-----------------------------------------------------------------------------
(* All that a step can do to the recording.                                 *)

Kept   == UNCHANGED <<recording_session, next_recording_session_id>>

Begun  == /\ recording_session = NoSession
          /\ \E mode \in RecordingMode : BeginRecording(mode)

Opened == /\ recording_session \in RecordingSession
          /\ recording_session.phase = "StartPending"
          /\ recording_session' = [recording_session EXCEPT !.phase = "Active"]
          /\ UNCHANGED next_recording_session_id

Ended  == /\ recording_session \in RecordingSession
          /\ recording_session' = NoSession
          /\ UNCHANGED next_recording_session_id

\* A recording begins only in Idle, where by SessionMatchesState there is none, so
\* every end of a recording is a step of its own.
LEMMA UserCallKinds ==
  ASSUME IInv, UserCall
  PROVE  Kept \/ Begun \/ Ended
<1>1. recording_session \in RecordingSession \cup {NoSession}
  BY DEF IInv, TypeOK, RecordingTypeOK
<1>2. state = "Idle" => recording_session = NoSession
  BY <1>1 DEF IInv, RecordingInv, SessionMatchesState
<1>3. state \in {"PushToTalkActive", "ContinuousActive"} => recording_session # NoSession
  BY DEF IInv, RecordingInv, SessionMatchesState
<1>4. CASE PttPress(reply')
  BY <1>2, <1>4 DEF PttPress, Refused, Idempotent, recordingVars, Kept, Begun, RecordingMode
<1>5. CASE PttRelease(reply')
  BY <1>1, <1>3, <1>5 DEF PttRelease, Refused, Idempotent, recordingVars, Kept, Ended,
                          EndRecording
<1>6. CASE ToggleContinuous(reply')
  BY <1>1, <1>2, <1>3, <1>6 DEF ToggleContinuous, Refused, recordingVars, Kept, Begun,
                                Ended, EndRecording, RecordingMode
<1> QED
  BY <1>4, <1>5, <1>6 DEF UserCall

\* A call of the worker opens the gate of the recording, ends it, or keeps it.
LEMMA WorkerCallKinds ==
  ASSUME IInv, WorkerCall
  PROVE  Kept \/ Opened \/ Ended
<1>1. recording_session \in RecordingSession \cup {NoSession}
  BY DEF IInv, TypeOK, RecordingTypeOK
<1>2. CASE \E id \in SessionId : MarkCapturePermitted(id, reply')
  BY <1>1, <1>2 DEF MarkCapturePermitted, GateMayOpen, recordingVars, Kept, Opened, NoSession
<1>3. CASE EnforceContinuousLimit(reply') \/ SetProviderErrorCooldown(reply')
  BY <1>1, <1>3 DEF EnforceContinuousLimit, SetProviderErrorCooldown, StopCurrentRecording,
                    EndRecording, recordingVars, Kept, Ended
<1>4. CASE \/ \E id \in SessionId : TakePendingPttCapture(id, reply')
           \/ FinishProcessing \/ MarkTranscriptionRequest(reply') \/ AddSoftSpend
           \/ \E code \in AudioErrors \cup {None} : SetLastAudioErrorCode(code)
  BY <1>4 DEF TakePendingPttCapture, FinishProcessing, MarkTranscriptionRequest,
              AddSoftSpend, SetLastAudioErrorCode, recordingVars, Kept
<1> QED
  BY <1>2, <1>3, <1>4 DEF WorkerCall

\* Status queries, transcript calls and time keep the recording.
LEMMA OtherStepKinds ==
  ASSUME Status(reply') \/ TranscriptCall \/ Elapse \/ UNCHANGED <<smvars, reply>>
  PROVE  Kept
BY DEF Status, TranscriptCall, SetLastTranscript, SetLastTranscriptWithError,
       TakeLastTranscript, RestoreLastTranscriptIfAbsent, SetLastOutputErrorCode,
       Elapse, smvars, recordingVars, Kept

\* So every step is of one of the four kinds.
LEMMA StepKinds ==
  ASSUME IInv, [SMNext]_<<smvars, reply>>
  PROVE  Kept \/ Begun \/ Opened \/ Ended
BY UserCallKinds, WorkerCallKinds, OtherStepKinds DEF SMNext, Call

-----------------------------------------------------------------------------
(* Each kind is a step of the lifecycle, or a stutter.                      *)

\* A function that differs from another in one place is that function with an EXCEPT.
LEMMA OneChange ==
  ASSUME NEW f, NEW g, NEW i \in SessionId, NEW v,
         f = [j \in SessionId |-> f[j]], g = [j \in SessionId |-> g[j]],
         g[i] = v, \A j \in SessionId : j # i => g[j] = f[j]
  PROVE  g = [f EXCEPT ![i] = v]
OBVIOUS

\* A recording that begins takes the first id that was never used.
LEMMA BegunIsRequest ==
  ASSUME IInv, IInv', Begun
  PROVE  \E i \in SessionId : Lifecycle!Request(i)
<1> DEFINE i == next_recording_session_id
<1>1. /\ i \in SessionId
      /\ recording_session.id = 0
      /\ recording_session'.id = i
      /\ recording_session'.phase = "StartPending"
      /\ next_recording_session_id' = i + 1
  BY BoundAssumption DEF IInv, TypeOK, RecordingTypeOK, Begun, BeginRecording, NoSession,
                         SessionId
<1>2. LifecyclePhase = [j \in SessionId |-> IF j >= i THEN "unused" ELSE "ended"]
  BY <1>1 DEF LifecyclePhase, SessionId
<1>3. LifecyclePhase' = [j \in SessionId |-> IF j >= i + 1 THEN "unused"
                                             ELSE IF j = i THEN "requested" ELSE "ended"]
  BY <1>1 DEF LifecyclePhase, SessionId
<1>4. LifecyclePhase' = [LifecyclePhase EXCEPT ![i] = "requested"]
  <2>1. /\ LifecyclePhase = [j \in SessionId |-> LifecyclePhase[j]]
        /\ LifecyclePhase' = [j \in SessionId |-> LifecyclePhase'[j]]
    BY DEF LifecyclePhase
  <2>2. /\ LifecyclePhase'[i] = "requested"
        /\ \A j \in SessionId : j # i => LifecyclePhase'[j] = LifecyclePhase[j]
    BY <1>1, <1>2, <1>3 DEF SessionId
  <2> QED
    BY <1>1, <2>1, <2>2, OneChange
<1>5. /\ LifecyclePhase[i] = "unused"
      /\ \A j \in SessionId : /\ LifecyclePhase[j] \notin {"requested", "open"}
                              /\ j < i => LifecyclePhase[j] # "unused"
  BY <1>1, <1>2 DEF SessionId
<1>6. Lifecycle!Request(i)
  BY <1>4, <1>5 DEF Lifecycle!Request, Lifecycle!Live, Lifecycle!SessionId, SessionId
<1> QED
  BY <1>1, <1>6

\* What the two other steps have in common: the session is the newest recording.
LEMMA LivePhase ==
  ASSUME IInv, recording_session \in RecordingSession
  PROVE  /\ recording_session.id \in SessionId
         /\ recording_session.id = next_recording_session_id - 1
         /\ next_recording_session_id \in Int
         /\ LifecyclePhase =
               [j \in SessionId |->
                  IF j > recording_session.id THEN "unused"
                  ELSE IF j = recording_session.id
                       THEN IF recording_session.phase = "Active" THEN "open" ELSE "requested"
                       ELSE "ended"]
<1>1. /\ recording_session.id \in SessionId
      /\ recording_session # NoSession
  BY DEF RecordingSession, NoSession, SessionId
<1>2. /\ recording_session.id = next_recording_session_id - 1
      /\ next_recording_session_id \in Int
  BY <1>1 DEF IInv, TypeOK, RecordingTypeOK, RecordingInv, SessionMatchesState
<1> QED
  BY <1>1, <1>2 DEF LifecyclePhase, SessionId

\* A gate opens only for the live recording, which was requested.
LEMMA OpenedIsOpen ==
  ASSUME IInv, IInv', Opened
  PROVE  \E i \in SessionId : Lifecycle!Open(i)
<1> DEFINE i == recording_session.id
<1>1. /\ recording_session' \in RecordingSession
      /\ recording_session'.id = i /\ recording_session'.phase = "Active"
  BY DEF Opened, RecordingSession, RecordingPhase
<1>2. i \in SessionId
  BY LivePhase DEF Opened
<1>3. LifecyclePhase = [j \in SessionId |-> IF j > i THEN "unused"
                                            ELSE IF j = i THEN "requested" ELSE "ended"]
  BY LivePhase DEF Opened
<1>4. LifecyclePhase' = [j \in SessionId |-> IF j > i THEN "unused"
                                             ELSE IF j = i THEN "open" ELSE "ended"]
  BY <1>1, LivePhase DEF LifecyclePhase, SessionId, Opened
<1>5. LifecyclePhase' = [LifecyclePhase EXCEPT ![i] = "open"]
  <2>1. /\ LifecyclePhase = [j \in SessionId |-> LifecyclePhase[j]]
        /\ LifecyclePhase' = [j \in SessionId |-> LifecyclePhase'[j]]
    BY DEF LifecyclePhase
  <2>2. /\ LifecyclePhase'[i] = "open"
        /\ \A j \in SessionId : j # i => LifecyclePhase'[j] = LifecyclePhase[j]
    BY <1>2, <1>3, <1>4 DEF SessionId
  <2> QED
    BY <1>2, <2>1, <2>2, OneChange
<1>6. LifecyclePhase[i] = "requested"
  BY <1>2, <1>3 DEF SessionId
<1> QED
  BY <1>2, <1>5, <1>6 DEF Lifecycle!Open

\* What ends is the live recording, and its id is not used again.
LEMMA EndedIsEnd ==
  ASSUME IInv, Ended
  PROVE  \E i \in SessionId : Lifecycle!End(i)
<1> DEFINE i == recording_session.id
<1>1. i \in SessionId /\ next_recording_session_id = i + 1
  BY LivePhase DEF Ended, SessionId
<1>2. LifecyclePhase = [j \in SessionId |->
                          IF j > i THEN "unused"
                          ELSE IF j = i
                               THEN IF recording_session.phase = "Active" THEN "open"
                                    ELSE "requested"
                               ELSE "ended"]
  BY LivePhase DEF Ended
<1>3. LifecyclePhase' = [j \in SessionId |-> IF j > i THEN "unused" ELSE "ended"]
  BY <1>1 DEF LifecyclePhase, SessionId, Ended, NoSession
<1>4. LifecyclePhase' = [LifecyclePhase EXCEPT ![i] = "ended"]
  <2>1. /\ LifecyclePhase = [j \in SessionId |-> LifecyclePhase[j]]
        /\ LifecyclePhase' = [j \in SessionId |-> LifecyclePhase'[j]]
    BY DEF LifecyclePhase
  <2>2. /\ LifecyclePhase'[i] = "ended"
        /\ \A j \in SessionId : j # i => LifecyclePhase'[j] = LifecyclePhase[j]
    BY <1>1, <1>2, <1>3 DEF SessionId
  <2> QED
    BY <1>1, <2>1, <2>2, OneChange
<1>5. LifecyclePhase[i] \in {"requested", "open"}
  BY <1>1, <1>2 DEF SessionId
<1> QED
  BY <1>1, <1>4, <1>5 DEF Lifecycle!End, Lifecycle!Live

\* The state machine implements the lifecycle of its recordings.
THEOREM Implementation == SMSpec => ImplementsLifecycle
<1>1. SMInit => Lifecycle!Init
  BY DEF SMInit, Lifecycle!Init, Lifecycle!SessionId, LifecyclePhase, SessionId
<1>2. ASSUME IInv, IInv', [SMNext]_<<smvars, reply>>
      PROVE  [Lifecycle!Next]_LifecyclePhase
  <2>1. CASE Kept
    BY <2>1 DEF Kept, LifecyclePhase
  <2>2. CASE Begun \/ Opened \/ Ended
    BY <1>2, <2>2, BegunIsRequest, OpenedIsOpen, EndedIsEnd
       DEF Lifecycle!Next, Lifecycle!SessionId, SessionId
  <2> QED
    BY <1>2, <2>1, <2>2, StepKinds
<1> QED
  BY <1>1, <1>2, Inductive, PTL DEF SMSpec, ImplementsLifecycle, Lifecycle!Spec

-----------------------------------------------------------------------------
\* No recording ends without its caller being given that very recording, which is
\* how the worker learns that there are players to resume.
THEOREM EveryStopAnnounced == SMSpec => StopsAnnounced
<1> DEFINE Announced ==
             (recording_session # NoSession /\ recording_session' = NoSession) =>
                \/ /\ UserCall
                   /\ StoppedRecording(reply'.transition)
                   /\ reply'.transition.previous = recording_session
                \/ /\ ~UserCall
                   /\ reply'.session = recording_session
<1>1. ASSUME IInv, [SMNext]_<<smvars, reply>>
      PROVE  [Announced]_<<smvars, reply>>
  <2> SUFFICES ASSUME recording_session # NoSession, recording_session' = NoSession
               PROVE  Announced
    OBVIOUS
  <2>1. CASE UserCall
    <3>1. /\ reply' = Ok(Transition(StopReason))
          /\ StopReason # "None"
      BY <1>1, <2>1 DEF UserCall, PttPress, PttRelease, ToggleContinuous, Refused,
                        Idempotent, recordingVars, BeginRecording, NoSession, StopReason
    <3> QED
      BY <2>1, <3>1 DEF Ok, Transition, StoppedRecording
  <2>2. CASE ~UserCall
    <3>1. WorkerCall
      BY <1>1, <2>2, OtherStepKinds DEF SMNext, Call, Kept
    <3>2. EnforceContinuousLimit(reply') \/ SetProviderErrorCooldown(reply')
      BY <3>1 DEF WorkerCall, MarkCapturePermitted, TakePendingPttCapture, FinishProcessing,
                  MarkTranscriptionRequest, AddSoftSpend, SetLastAudioErrorCode,
                  recordingVars, NoSession, GateMayOpen
    <3>3. reply'.session = recording_session
      BY <3>2 DEF EnforceContinuousLimit, SetProviderErrorCooldown, StopCurrentRecording,
                  recordingVars
    <3> QED
      BY <2>2, <3>3
  <2> QED
    BY <2>1, <2>2
<1> QED
  BY <1>1, Inductive, PTL DEF SMSpec, StopsAnnounced

-----------------------------------------------------------------------------
(* The rate limit.                                                          *)

\* In the window the deque holds what was accepted, and no more than allowed; what is
\* older it may hold or not.
WindowOK ==
    /\ accepted \in [InWindow -> Nat]
    /\ \A a \in InWindow : requests_last_minute[a] = accepted[a]
    /\ IsFiniteSet(Requests(accepted)) /\ AcceptedInWindow <= MaxRequests

\* Who is in the set of a deque's entries.
LEMMA RequestsElement ==
  ASSUME NEW f, NEW x
  PROVE  x \in Requests(f) <=> \E a \in DOMAIN f : \E n \in 1 .. f[a] : x = <<a, n>>
BY DEF Requests

\* Pruned, the deque holds the requests accepted in the window.
LEMMA PrunedIsAccepted ==
  ASSUME GuardrailTypeOK, WindowOK
  PROVE  Requests(Prune(requests_last_minute)) = Requests(accepted)
<1> DEFINE p == Prune(requests_last_minute)
<1>1. Ages = InWindow \cup {RateWindow + 1} /\ RateWindow + 1 \notin InWindow
  BY TimeAssumption DEF Ages, InWindow
<1>2. /\ DOMAIN p = Ages /\ p[RateWindow + 1] = 0
      /\ \A a \in InWindow : p[a] = accepted[a]
  BY <1>1 DEF GuardrailTypeOK, WindowOK, Prune
<1>3. DOMAIN accepted = InWindow
  BY DEF WindowOK
<1> HIDE DEF p
<1>4. ASSUME NEW x PROVE x \in Requests(p) <=> x \in Requests(accepted)
  <2>1. x \in Requests(p) <=> \E a \in InWindow : \E n \in 1 .. p[a] : x = <<a, n>>
    BY <1>1, <1>2, RequestsElement
  <2> QED
    BY <1>2, <1>3, <2>1, RequestsElement
<1> QED
  BY <1>4 DEF p

\* So the requests are refused exactly when the window is full.
LEMMA LimitedWhenFull ==
  ASSUME GuardrailTypeOK, WindowOK
  PROVE  /\ AcceptedInWindow \in Nat
         /\ RateLimited <=> AcceptedInWindow = MaxRequests
<1>1. AcceptedInWindow \in Nat /\ AcceptedInWindow <= MaxRequests
  BY FS_CardinalityType DEF WindowOK, AcceptedInWindow, RequestCount
<1>2. RateLimited <=> AcceptedInWindow >= MaxRequests
  BY PrunedIsAccepted DEF RateLimited, AcceptedInWindow, RequestCount
<1> QED
  BY <1>1, <1>2, GuardrailAssumption

\* What a call does to the deque: nothing, or it prunes it, or it adds a request as well.
LEMMA DequeOfCall ==
  ASSUME Call
  PROVE  \/ requests_last_minute' \in {requests_last_minute, Prune(requests_last_minute)}
         \/ /\ ~RateLimited
            /\ requests_last_minute' = [Prune(requests_last_minute) EXCEPT ![0] = @ + 1]
<1>1. CASE UserCall
  BY <1>1 DEF UserCall, PttPress, PttRelease, ToggleContinuous, Refused, guardrailVars
<1>2. CASE WorkerCall
  <2>1. CASE MarkTranscriptionRequest(reply')
    BY <2>1 DEF MarkTranscriptionRequest
  <2>2. CASE ~MarkTranscriptionRequest(reply')
    BY <1>2, <2>2 DEF WorkerCall, MarkCapturePermitted, TakePendingPttCapture, FinishProcessing,
                EnforceContinuousLimit, AddSoftSpend, SetProviderErrorCooldown,
                SetLastAudioErrorCode, guardrailVars
  <2> QED
    BY <2>1, <2>2
<1>3. CASE TranscriptCall \/ Status(reply')
  BY <1>3 DEF TranscriptCall, SetLastTranscript, SetLastTranscriptWithError,
              TakeLastTranscript, RestoreLastTranscriptIfAbsent, SetLastOutputErrorCode,
              Status, guardrailVars
<1> QED
  BY <1>1, <1>2, <1>3 DEF Call

\* One more request makes the set one larger.
LEMMA OneMoreRequest ==
  ASSUME NEW f \in [InWindow -> Nat], IsFiniteSet(Requests(f))
  PROVE  LET g == [f EXCEPT ![0] = @ + 1]
         IN  /\ g \in [InWindow -> Nat] /\ IsFiniteSet(Requests(g))
             /\ Cardinality(Requests(g)) = Cardinality(Requests(f)) + 1
<1> DEFINE g == [f EXCEPT ![0] = @ + 1]
           new == <<0, f[0] + 1>>
<1>1. 0 \in InWindow /\ f[0] \in Nat
  BY TimeAssumption DEF InWindow
<1>2. /\ g \in [InWindow -> Nat] /\ g[0] = f[0] + 1
      /\ \A a \in InWindow \ {0} : g[a] = f[a]
  BY <1>1
<1>3. DOMAIN f = InWindow /\ DOMAIN g = InWindow
  OBVIOUS
<1> HIDE DEF g
<1>4. ASSUME NEW x PROVE x \in Requests(g) <=> x \in Requests(f) \cup {new}
  <2>1. \A n : n \in 1 .. f[0] + 1 <=> n \in 1 .. f[0] \/ n = f[0] + 1
    BY <1>1
  <2> QED
    BY <1>1, <1>2, <1>3, <2>1, RequestsElement
<1>5. new \notin Requests(f)
  <2> SUFFICES ASSUME NEW a \in InWindow, NEW n \in 1 .. f[a], new = <<a, n>>
               PROVE  FALSE
    BY <1>3, RequestsElement
  <2> QED
    BY <1>1
<1>6. Requests(g) = Requests(f) \cup {new}
  BY <1>4
<1>7. IsFiniteSet(Requests(g)) /\ Cardinality(Requests(g)) = Cardinality(Requests(f)) + 1
  BY <1>5, <1>6, FS_AddElement
<1> QED
  BY <1>2, <1>7 DEF g

\* Time makes each request older, and some too old.
LEMMA OlderRequests ==
  ASSUME NEW f \in [InWindow -> Nat], IsFiniteSet(Requests(f))
  PROVE  LET g == [a \in InWindow |-> IF a = 0 THEN 0 ELSE f[a - 1]]
         IN  /\ g \in [InWindow -> Nat] /\ IsFiniteSet(Requests(g))
             /\ Cardinality(Requests(g)) <= Cardinality(Requests(f))
<1> DEFINE g == [a \in InWindow |-> IF a = 0 THEN 0 ELSE f[a - 1]]
           younger == [x \in Requests(g) |-> <<x[1] - 1, x[2]>>]
<1>1. \A a \in InWindow : a \in Int /\ (a # 0 => a - 1 \in InWindow)
  BY TimeAssumption DEF InWindow
<1>2. g \in [InWindow -> Nat]
  BY <1>1
<1>3. g[0] = 0 /\ \A a \in InWindow \ {0} : g[a] = f[a - 1]
  BY TimeAssumption DEF InWindow
<1>4. DOMAIN f = InWindow /\ DOMAIN g = InWindow
  OBVIOUS
<1> HIDE DEF g
<1>5. ASSUME NEW x \in Requests(g)
      PROVE  \E a \in InWindow \ {0} : \E n \in 1 .. f[a - 1] : x = <<a, n>>
  <2>1. PICK a \in InWindow : \E n \in 1 .. g[a] : x = <<a, n>>
    BY <1>4, RequestsElement
  <2>2. a # 0
    BY <1>3, <2>1
  <2> QED
    BY <1>3, <2>1, <2>2
<1>6. younger \in [Requests(g) -> Requests(f)]
  <2> SUFFICES ASSUME NEW x \in Requests(g) PROVE <<x[1] - 1, x[2]>> \in Requests(f)
    OBVIOUS
  <2>1. PICK a \in InWindow \ {0} : \E n \in 1 .. f[a - 1] : x = <<a, n>>
    BY <1>5
  <2> QED
    BY <1>1, <1>4, <2>1, RequestsElement
<1>7. \A x, y \in Requests(g) : younger[x] = younger[y] => x = y
  <2> SUFFICES ASSUME NEW x \in Requests(g), NEW y \in Requests(g), younger[x] = younger[y]
               PROVE  x = y
    OBVIOUS
  <2>1. PICK a \in InWindow \ {0} : \E n \in 1 .. f[a - 1] : x = <<a, n>>
    BY <1>5
  <2>2. PICK b \in InWindow \ {0} : \E m \in 1 .. f[b - 1] : y = <<b, m>>
    BY <1>5
  <2> QED
    BY <1>1, <2>1, <2>2
<1>8. younger \in Injection(Requests(g), Requests(f))
  BY <1>6, <1>7 DEF Injection, IsInjective
<1>9. IsFiniteSet(Requests(g)) /\ Cardinality(Requests(g)) <= Cardinality(Requests(f))
  BY <1>8, FS_Injection
<1> QED
  BY <1>2, <1>9 DEF g

\* No call, and no passing of time, leaves more in the window than is allowed.
LEMMA WindowStep ==
  ASSUME GuardrailTypeOK, WindowOK, [RequestsNext]_requestsVars
  PROVE  WindowOK'
<1>1. /\ requests_last_minute \in [Ages -> Nat] /\ 0 \in InWindow /\ InWindow \subseteq Ages
      /\ RateWindow + 1 \notin InWindow
  BY TimeAssumption DEF GuardrailTypeOK, InWindow, Ages
<1>2. AcceptedInWindow \in Nat
  BY LimitedWhenFull
<1>3. CASE requests_last_minute' \in {requests_last_minute, Prune(requests_last_minute)}
           /\ accepted' = accepted
  BY <1>1, <1>3 DEF WindowOK, Prune, AcceptedInWindow
<1>4. CASE RequestsCall
  <2>1. CASE requests_last_minute' \in {requests_last_minute, Prune(requests_last_minute)}
    <3>1. requests_last_minute'[0] = requests_last_minute[0] /\ requests_last_minute[0] \in Nat
      BY <1>1, <2>1 DEF Prune
    <3> QED
      BY <1>3, <1>4, <2>1, <3>1 DEF RequestsCall
  <2>2. CASE /\ ~RateLimited
             /\ requests_last_minute' = [Prune(requests_last_minute) EXCEPT ![0] = @ + 1]
    <3>1. /\ requests_last_minute'[0] = requests_last_minute[0] + 1
          /\ requests_last_minute[0] \in Nat
          /\ \A a \in InWindow \ {0} : requests_last_minute'[a] = requests_last_minute[a]
      BY <1>1, <2>2 DEF Prune
    <3>2. accepted' = [accepted EXCEPT ![0] = @ + 1]
      BY <1>4, <3>1 DEF RequestsCall
    <3>3. /\ accepted' \in [InWindow -> Nat] /\ IsFiniteSet(Requests(accepted'))
          /\ AcceptedInWindow' = AcceptedInWindow + 1
      BY <3>2, OneMoreRequest DEF WindowOK, AcceptedInWindow, RequestCount
    <3>4. AcceptedInWindow' <= MaxRequests
      BY <1>2, <2>2, <3>3, LimitedWhenFull, GuardrailAssumption DEF WindowOK
    <3>5. \A a \in InWindow : requests_last_minute'[a] = accepted'[a]
      BY <1>1, <3>1, <3>2 DEF WindowOK
    <3> QED
      BY <3>3, <3>4, <3>5 DEF WindowOK
  <2> QED
    BY <1>4, <2>1, <2>2, DequeOfCall DEF RequestsCall
<1>5. CASE RequestsElapse
  <2>1. /\ accepted' \in [InWindow -> Nat] /\ IsFiniteSet(Requests(accepted'))
        /\ AcceptedInWindow' <= AcceptedInWindow /\ AcceptedInWindow' \in Nat
    BY <1>5, OlderRequests, FS_CardinalityType
       DEF RequestsElapse, WindowOK, AcceptedInWindow, RequestCount
  <2>2. \A a \in InWindow : requests_last_minute'[a] = accepted'[a]
    <3> SUFFICES ASSUME NEW a \in InWindow
                 PROVE  requests_last_minute'[a] = accepted'[a]
      OBVIOUS
    <3>1. /\ a \in Ages /\ a # RateWindow + 1 /\ (a # 0 => a - 1 \in InWindow)
      BY TimeAssumption DEF Ages, InWindow
    <3>2. a # 0 => requests_last_minute[a - 1] \in Nat
      BY <1>1, <3>1
    <3>3. requests_last_minute'[a] = IF a = 0 THEN 0 ELSE requests_last_minute[a - 1]
      BY <1>5, <3>1, <3>2 DEF RequestsElapse, Elapse
    <3>4. accepted'[a] = IF a = 0 THEN 0 ELSE accepted[a - 1]
      BY <1>5 DEF RequestsElapse
    <3> QED
      BY <3>1, <3>3, <3>4 DEF WindowOK
  <2> QED
    BY <1>2, <2>1, <2>2, GuardrailAssumption DEF WindowOK
<1>6. CASE UNCHANGED requestsVars
  BY <1>3, <1>6 DEF requestsVars, smvars, guardrailVars
<1> QED
  BY <1>4, <1>5, <1>6 DEF RequestsNext

\* However the calls fall and however long the deque is left unpruned, no window holds
\* more accepted requests than max_requests_per_minute, and none is refused below it.
THEOREM RateLimitIsExact == RequestsSpec => []RateLimitExact
<1>1. RequestsInit => IInv /\ WindowOK
  <2> SUFFICES ASSUME RequestsInit PROVE IInv /\ WindowOK
    OBVIOUS
  <2>1. IInv
    BY InitInv DEF RequestsInit
  <2>2. /\ accepted \in [InWindow -> Nat] /\ DOMAIN accepted = InWindow
        /\ \A a \in InWindow : accepted[a] = 0 /\ requests_last_minute[a] = 0
    BY TimeAssumption DEF RequestsInit, SMInit, InWindow, Ages
  <2>3. ASSUME NEW x PROVE x \notin Requests(accepted)
    <3>1. \A n \in 1 .. 0 : FALSE
      OBVIOUS
    <3> QED
      BY <2>2, <3>1, RequestsElement
  <2>4. Requests(accepted) = {}
    BY <2>3
  <2> QED
    BY <2>1, <2>2, <2>4, FS_EmptySet, GuardrailAssumption
       DEF WindowOK, AcceptedInWindow, RequestCount
<1>2. IInv /\ WindowOK /\ [RequestsNext]_requestsVars => (IInv /\ WindowOK)'
  <2> SUFFICES ASSUME IInv, WindowOK, [RequestsNext]_requestsVars
               PROVE  IInv' /\ WindowOK'
    OBVIOUS
  <2>1. [SMNext]_<<smvars, reply>>
    BY DEF RequestsNext, RequestsCall, RequestsElapse, SMNext, requestsVars
  <2> QED
    BY <2>1, NextInv, WindowStep DEF IInv, TypeOK
<1>3. IInv /\ WindowOK => RateLimitExact
  BY LimitedWhenFull DEF IInv, TypeOK, WindowOK, RateLimitExact
<1> QED
  BY <1>1, <1>2, <1>3, PTL DEF RequestsSpec
=============================================================================
