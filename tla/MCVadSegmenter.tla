--------------------------- MODULE MCVadSegmenter ---------------------------
(***************************************************************************)
(* The segmenter with the frames of the current utterance as history, to   *)
(* say of frames what the code says of its counters.                       *)
(***************************************************************************)
EXTENDS VadSegmenter, FiniteSets

VARIABLE frames     \* whether each frame of the current utterance is speech

mcvars == <<vars, frames>>

MCInit == Init /\ frames = <<>>

MCFlush == Flush /\ frames' = <<>>

MCPushFrame ==
    \E frame \in Frames :
        /\ PushFrame(frame)
        /\ frames' = IF current_samples' # <<>> THEN Append(frames, IsSpeech(frame)) ELSE <<>>

MCNext == MCFlush \/ MCPushFrame

\* A recording that goes on delivers frames, of whatever kind.
MCSpec == MCInit /\ [][MCNext]_mcvars /\ WF_mcvars(MCPushFrame)

SpeechFrames(fs) == Cardinality({i \in DOMAIN fs : fs[i]})
TrailingQuiet(fs) == Cardinality({i \in DOMAIN fs : \A j \in i .. Len(fs) : ~fs[j]})

EnoughSpeech(fs) == FrameMs * SpeechFrames(fs) >= MinSpeechMs
LongSilence(fs)  == FrameMs * TrailingQuiet(fs) >= EndSilenceMs

\* An utterance goes on only while its trailing silence is shorter than end_silence_ms
\* or it holds less speech than min_speech_ms: counted over its frames, and across
\* every pause inside it, not by the counters of the code.
GoesOnOnlyUntilSilence == EnoughSpeech(frames) => ~LongSilence(frames)

\* push_frame ends an utterance for one of its three reasons only: a pause inside
\* speech, or noise shorter than min_speech_ms, never cuts one that is below the limits.
CutOnlyWhenDue ==
    [][frames # <<>> /\ Len(emitted') > Len(current_samples) =>
          \/ AtLimit(emitted')
          \/ /\ EnoughSpeech(frames)
             /\ FrameMs * (TrailingQuiet(frames) + 1) >= EndSilenceMs
             /\ emitted'[Len(emitted')] = "quiet"]_mcvars
=============================================================================
