---------------------------- MODULE VadSegmenter ----------------------------
(***************************************************************************)
(* The VadSegmenter of audio/capture.rs: push_frame and flush, called one  *)
(* at a time by the runtime worker.  A sample is reduced to whether the    *)
(* level of its frame reaches start_threshold_dbfs.  The ring of recent    *)
(* levels is left out: nothing reads it.                                   *)
(***************************************************************************)
EXTENDS Integers, Sequences

CONSTANTS
    FrameMs,            \* audio.frame_ms
    SampleRate,         \* samples per second
    EndSilenceMs, MinSpeechMs, MaxUtteranceMs,      \* vad.*
    PayloadLimitBytes,  \* audio.max_payload_bytes
    U32Max              \* the largest u32, small in the configurations

ASSUME SegmenterAssumption ==
    /\ FrameMs \in Nat \ {0} /\ SampleRate \in Nat \ {0}
    /\ EndSilenceMs \in Nat \ {0}
    /\ MinSpeechMs \in Nat /\ MaxUtteranceMs \in Nat /\ MinSpeechMs <= MaxUtteranceMs
    /\ PayloadLimitBytes \in Nat /\ U32Max \in Nat
    /\ FrameMs <= U32Max /\ EndSilenceMs <= U32Max /\ MaxUtteranceMs <= U32Max

VARIABLES
    active, current_samples, speech_ms, silence_ms,
    pushed,             \* the frame given to the last call, <<>> for flush
    emitted             \* what it returned, <<>> for None

segmenterVars == <<active, current_samples, speech_ms, silence_ms>>
vars == <<segmenterVars, pushed, emitted>>

Sample == {"speech", "quiet"}

\* The worker cuts a chunk into frames of frame_samples; the last may be shorter.
FrameSamples ==
    LET n == (SampleRate * FrameMs) \div 1000 IN IF n = 0 THEN 1 ELSE n

Frames == {[i \in 1 .. n |-> s] : n \in 1 .. FrameSamples, s \in Sample}

IsSpeech(frame) == frame[1] = "speech"

SaturatingAdd(a, b) == IF a + b > U32Max THEN U32Max ELSE a + b

UtteranceMs(samples) == ((Len(samples) * 1000) \div SampleRate) % (U32Max + 1)
PayloadBytes(samples) == 2 * Len(samples)

AtLimit(samples) ==
    \/ UtteranceMs(samples) >= MaxUtteranceMs
    \/ PayloadBytes(samples) >= PayloadLimitBytes

EndsAfterSilence(speech, silence) == silence > EndSilenceMs /\ speech >= MinSpeechMs

EndsBySilence(speech, silence) == silence >= EndSilenceMs /\ speech >= MinSpeechMs

Init ==
    /\ active = FALSE /\ current_samples = <<>>
    /\ speech_ms = 0 /\ silence_ms = 0
    /\ pushed = <<>> /\ emitted = <<>>

ResetKeepsActive ==
    /\ UNCHANGED active /\ current_samples' = <<>>
    /\ speech_ms' = 0 /\ silence_ms' = 0

Reset ==
    /\ active' = FALSE /\ current_samples' = <<>>
    /\ speech_ms' = 0 /\ silence_ms' = 0

SpeechMsAfter(frame) ==
    IF IsSpeech(frame) THEN SaturatingAdd(speech_ms, FrameMs) ELSE speech_ms

QuietMsAfter(frame) ==
    IF IsSpeech(frame) THEN silence_ms ELSE SaturatingAdd(silence_ms, FrameMs)

SilenceMsAfter(frame) ==
    IF IsSpeech(frame) THEN 0 ELSE SaturatingAdd(silence_ms, FrameMs)

\* The samples of the utterance with one more frame.
Extended(frame) == current_samples \o frame

EndsWithoutDuration(frame) ==
    \/ EndsBySilence(SpeechMsAfter(frame), SilenceMsAfter(frame))
    \/ PayloadBytes(Extended(frame)) >= PayloadLimitBytes

EndsWith(frame) ==
    \/ EndsBySilence(SpeechMsAfter(frame), SilenceMsAfter(frame))
    \/ AtLimit(Extended(frame))

IgnoreQuiet(frame) ==
    /\ ~active /\ ~IsSpeech(frame)
    /\ emitted' = <<>>
    /\ UNCHANGED segmenterVars

BeginUtterance(frame) ==
    /\ ~active /\ IsSpeech(frame)
    /\ active' = TRUE
    /\ current_samples' = Extended(frame)
    /\ speech_ms' = FrameMs /\ silence_ms' = 0
    /\ emitted' = <<>>

Extend(frame) ==
    /\ active /\ ~EndsWith(frame)
    /\ current_samples' = Extended(frame)
    /\ speech_ms' = SpeechMsAfter(frame)
    /\ silence_ms' = SilenceMsAfter(frame)
    /\ emitted' = <<>>
    /\ UNCHANGED active

EndUtteranceWithoutFrame(frame) ==
    /\ active /\ EndsWith(frame)
    /\ emitted' = current_samples
    /\ Reset

EndUtterance(frame) ==
    /\ active /\ EndsWith(frame)
    /\ emitted' = Extended(frame)
    /\ Reset

PushFrame(frame) ==
    /\ pushed' = frame
    /\ \/ IgnoreQuiet(frame) \/ BeginUtterance(frame)
       \/ Extend(frame) \/ EndUtterance(frame)

Flush ==
    /\ pushed' = <<>>
    /\ emitted' = current_samples
    /\ Reset

Next == Flush \/ \E frame \in Frames : PushFrame(frame)

Spec == Init /\ [][Next]_vars

-----------------------------------------------------------------------------
TypeOK ==
    /\ active \in BOOLEAN
    /\ current_samples \in Seq(Sample) /\ pushed \in Seq(Sample) /\ emitted \in Seq(Sample)
    /\ speech_ms \in 0 .. U32Max /\ silence_ms \in 0 .. U32Max

\* However the calls come, an utterance that goes on is below both limits (its first
\* frame alone excepted, which push_frame does not test): what a provider is sent
\* passes a limit by at most its last frame.
HeldBelowLimits ==
    ~AtLimit(current_samples) \/ Len(current_samples) <= FrameSamples

Audible == {frame \in Frames : IsSpeech(frame)}

\* The segmenter cuts, and never loses, repeats or reorders: it implements Segmentation.
Outcomes == INSTANCE Segmentation WITH held <- current_samples
ImplementsSegmentation == Outcomes!Spec

\* An utterance that has begun ends, even if it never meets end_by_silence.
UtteranceEnds == active ~> ~active
=============================================================================
