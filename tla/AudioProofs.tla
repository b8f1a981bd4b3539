------------------------------ MODULE AudioProofs ------------------------------
(***************************************************************************)
(* Proofs about what the worker does with audio of its own accord: it cuts *)
(* it into utterances, and records them for debugging.                     *)
(*                                                                         *)
(* Of the segmenter, for every frame length, sample rate, limit and width  *)
(* of the counters.  What is said of the frames of an utterance follows    *)
(* from what the counters of the code are: the frames of speech, and those *)
(* of the silence that the utterance ends with, in milliseconds as far as  *)
(* a u32 counts them.                                                      *)
(*                                                                         *)
(* Of the recorder, for every cap, age, size and number of files, and for  *)
(* a clock that is set as it pleases.                                      *)
(***************************************************************************)
EXTENDS MCVadSegmenter, DebugWav, FiniteSetTheorems, TLAPS

-----------------------------------------------------------------------------
(* The segmenter.                                                           *)

\* An inactive segmenter holds nothing; an active one holds what it began with.
ActiveHolds == active <=> current_samples # <<>>

IInv == TypeOK /\ ActiveHolds /\ HeldBelowLimits

\* A frame has a number of samples; it is never zero.
LEMMA FrameSamplesType == FrameSamples \in Nat /\ FrameSamples > 0
<1>1. (SampleRate * FrameMs) \div 1000 \in Nat
  BY SegmenterAssumption
<1>. QED  BY <1>1 DEF FrameSamples

\* A frame has at least one sample, at most frame_samples, all of one level.
LEMMA FrameType ==
    ASSUME NEW frame \in Frames
    PROVE  /\ frame \in Seq(Sample)
           /\ Len(frame) \in Nat /\ Len(frame) > 0 /\ Len(frame) <= FrameSamples
           /\ frame # <<>>
<1>1. PICK n \in 1 .. FrameSamples, s \in Sample : frame = [i \in 1 .. n |-> s]
  BY DEF Frames
<1>2. frame \in Seq(Sample) /\ Len(frame) = n
  BY <1>1
<1>. QED  BY <1>1, <1>2, FrameSamplesType

\* Adding a frame to what is held keeps a sequence of samples, and is never empty.
LEMMA ExtendedType ==
    ASSUME TypeOK, NEW frame \in Frames
    PROVE  /\ Extended(frame) \in Seq(Sample) /\ Extended(frame) # <<>>
           /\ Len(Extended(frame)) = Len(current_samples) + Len(frame)
<1>1. /\ frame \in Seq(Sample) /\ Len(frame) \in Nat /\ Len(frame) > 0
  BY FrameType
<1>2. current_samples \in Seq(Sample)
  BY DEF TypeOK
<1>3. /\ current_samples \o frame \in Seq(Sample)
      /\ Len(current_samples \o frame) = Len(current_samples) + Len(frame)
  BY <1>1, <1>2
<1>4. Len(current_samples) \in Nat
  BY <1>2
<1>. QED  BY <1>1, <1>3, <1>4 DEF Extended

\* The counters saturate: one more frame leaves them in the range of a u32.
LEMMA CountersStayInRange ==
    ASSUME TypeOK, NEW frame
    PROVE  SpeechMsAfter(frame) \in 0 .. U32Max /\ SilenceMsAfter(frame) \in 0 .. U32Max
BY SegmenterAssumption DEF TypeOK, SpeechMsAfter, SilenceMsAfter, SaturatingAdd

\* A new segmenter is inactive and empty.
LEMMA InitInv == Init => IInv
<1>. SUFFICES ASSUME Init PROVE IInv
  OBVIOUS
<1>1. TypeOK
  <2>1. current_samples \in Seq(Sample) /\ pushed \in Seq(Sample) /\ emitted \in Seq(Sample)
    BY DEF Init
  <2>2. speech_ms \in 0 .. U32Max /\ silence_ms \in 0 .. U32Max
    BY SegmenterAssumption DEF Init
  <2>3. active \in BOOLEAN
    BY Zenon DEF Init
  <2>. QED  BY <2>1, <2>2, <2>3 DEF TypeOK
<1>2. ActiveHolds
  BY DEF Init, ActiveHolds
<1>3. Len(current_samples) = 0
  BY DEF Init
<1>4. HeldBelowLimits
  BY <1>3, FrameSamplesType DEF HeldBelowLimits
<1>. QED  BY <1>1, <1>2, <1>4 DEF IInv

\* After Reset nothing is held.
LEMMA ResetHolds ==
    ASSUME Reset
    PROVE  /\ active' = FALSE /\ current_samples' = <<>> /\ current_samples' \in Seq(Sample)
           /\ speech_ms' \in 0 .. U32Max /\ silence_ms' \in 0 .. U32Max
           /\ HeldBelowLimits'
BY SegmenterAssumption, FrameSamplesType DEF Reset, HeldBelowLimits

\* Each call keeps the invariant; Extend by the limits EndsWith tests, BeginUtterance
\* because an utterance begins with a single frame.
LEMMA PushFrameInv ==
    ASSUME IInv, NEW frame \in Frames, PushFrame(frame)
    PROVE  IInv'
<1>. USE DEF IInv
<1>0. /\ frame \in Seq(Sample) /\ Len(frame) > 0 /\ Len(frame) <= FrameSamples
      /\ Len(frame) \in Nat /\ pushed' = frame
  BY FrameType DEF PushFrame
<1>1. /\ Extended(frame) \in Seq(Sample) /\ Extended(frame) # <<>>
      /\ Len(Extended(frame)) = Len(current_samples) + Len(frame)
  BY ExtendedType
<1>2. CASE IgnoreQuiet(frame)
  BY <1>0, <1>2 DEF IgnoreQuiet, segmenterVars, TypeOK, ActiveHolds, HeldBelowLimits
<1>3. CASE BeginUtterance(frame)
  <2>1. current_samples = <<>>
    BY <1>3 DEF BeginUtterance, ActiveHolds
  <2>2. Len(current_samples') <= FrameSamples
    BY <1>0, <1>1, <1>3, <2>1 DEF BeginUtterance
  <2>3. TypeOK'
    BY <1>0, <1>1, <1>3, SegmenterAssumption DEF BeginUtterance, TypeOK
  <2>. QED  BY <1>1, <1>3, <2>2, <2>3 DEF BeginUtterance, ActiveHolds, HeldBelowLimits
<1>4. CASE Extend(frame)
  <2>1. TypeOK'
    BY <1>0, <1>1, <1>4, CountersStayInRange DEF Extend, TypeOK
  <2>2. ~AtLimit(current_samples')
    BY <1>4 DEF Extend, EndsWith
  <2>. QED  BY <1>1, <1>4, <2>1, <2>2 DEF Extend, ActiveHolds, HeldBelowLimits, AtLimit,
                                         UtteranceMs, PayloadBytes
<1>5. CASE EndUtterance(frame)
  BY <1>0, <1>1, <1>5, ResetHolds DEF EndUtterance, TypeOK, ActiveHolds
<1>. QED  BY <1>2, <1>3, <1>4, <1>5 DEF PushFrame

\* Every step of the segmenter keeps the invariant.
LEMMA NextInv == IInv /\ [Next]_vars => IInv'
<1>. SUFFICES ASSUME IInv, [Next]_vars PROVE IInv'
  OBVIOUS
<1>1. CASE Flush
  BY <1>1, ResetHolds DEF Flush, IInv, TypeOK, ActiveHolds
<1>2. CASE \E frame \in Frames : PushFrame(frame)
  BY <1>2, PushFrameInv
<1>3. CASE UNCHANGED vars
  BY <1>3 DEF vars, segmenterVars, IInv, TypeOK, ActiveHolds, HeldBelowLimits
<1>. QED  BY <1>1, <1>2, <1>3 DEF Next

\* The invariant holds of every run of the segmenter, as Spec allows it.
THEOREM Inductive == Spec => []IInv
BY InitInv, NextInv, PTL DEF Spec

\* The counters stay in the range of a u32 and what is returned is audio that was pushed.
THEOREM TypeCorrect == Spec => []TypeOK
<1>1. IInv => TypeOK  BY DEF IInv
<1>. QED  BY <1>1, Inductive, PTL

\* push_frame holds no utterance past max_utterance_ms or max_payload_bytes: what is
\* sent exceeds a limit by less than the frame that ended it.
THEOREM Bounded == Spec => []HeldBelowLimits
<1>1. IInv => HeldBelowLimits  BY DEF IInv
<1>. QED  BY <1>1, Inductive, PTL

\* Every call of the segmenter is a step of Segmentation or a stutter.
LEMMA StepSegments == IInv /\ [Next]_vars => [Outcomes!Next]_(Outcomes!vars)
<1>. SUFFICES ASSUME IInv, [Next]_vars PROVE [Outcomes!Next]_(Outcomes!vars)
  OBVIOUS
<1>1. CASE Flush
  BY <1>1 DEF Flush, Reset, Outcomes!Next, Outcomes!Flush
<1>2. ASSUME NEW frame \in Frames, PushFrame(frame) PROVE Outcomes!Push
  <2>1. pushed' = frame
    BY <1>2 DEF PushFrame
  <2>2. CASE IgnoreQuiet(frame)
    BY <2>1, <2>2 DEF IgnoreQuiet, segmenterVars, IInv, ActiveHolds, Audible,
                      Outcomes!Push, Outcomes!Drop
  <2>3. CASE BeginUtterance(frame) \/ Extend(frame)
    BY <2>1, <2>3 DEF BeginUtterance, Extend, Extended, Outcomes!Push, Outcomes!Hold
  <2>4. CASE EndUtterance(frame)
    BY <2>1, <2>4 DEF EndUtterance, Reset, Extended, IInv, ActiveHolds,
                      Outcomes!Push, Outcomes!Emit
  <2>. QED  BY <1>2, <2>2, <2>3, <2>4 DEF PushFrame
<1>3. CASE UNCHANGED vars
  BY <1>3 DEF vars, segmenterVars, Outcomes!vars
<1>. QED  BY <1>1, <1>2, <1>3 DEF Next, Outcomes!Next

\* The segmenter loses, repeats and reorders no audio of an utterance that has begun.
THEOREM Segments == Spec => ImplementsSegmentation
<1>1. Init => Outcomes!Init
  BY DEF Init, Outcomes!Init
<1>. QED  BY <1>1, StepSegments, Inductive, PTL DEF Spec, ImplementsSegmentation, Outcomes!Spec

-----------------------------------------------------------------------------
(* The counters and the frames.                                             *)

\* Milliseconds as a u32 counts them.
Counted(ms) == IF ms > U32Max THEN U32Max ELSE ms

\* While an utterance goes on, its counters say what its frames are.
CountersOK ==
    /\ frames \in Seq(BOOLEAN)
    /\ frames = <<>> <=> ~active
    /\ active => /\ speech_ms = Counted(FrameMs * SpeechFrames(frames))
                 /\ silence_ms = Counted(FrameMs * TrailingQuiet(frames))

FramesInv == IInv /\ CountersOK /\ GoesOnOnlyUntilSilence

\* One more frame of speech is counted, a quiet one is not.
LEMMA SpeechFramesAppend ==
    ASSUME NEW fs \in Seq(BOOLEAN), NEW b \in BOOLEAN
    PROVE  /\ SpeechFrames(fs) \in Nat
           /\ SpeechFrames(Append(fs, b)) = IF b THEN SpeechFrames(fs) + 1 ELSE SpeechFrames(fs)
<1>. DEFINE n == Len(fs)
            old == {i \in DOMAIN fs : fs[i]}
            new == {i \in DOMAIN Append(fs, b) : Append(fs, b)[i]}
<1>1. n \in Nat /\ DOMAIN fs = 1 .. n
  OBVIOUS
<1>2. /\ DOMAIN Append(fs, b) = 1 .. n + 1 /\ Append(fs, b)[n + 1] = b
      /\ \A i \in 1 .. n : Append(fs, b)[i] = fs[i]
  OBVIOUS
<1>3. IsFiniteSet(old) /\ Cardinality(old) \in Nat
  <2>1. IsFiniteSet(1 .. n) /\ old \in SUBSET (1 .. n)
    BY <1>1, FS_Interval
  <2>. HIDE DEF old
  <2>. QED  BY <2>1, FS_Subset, FS_CardinalityType
<1>4. n + 1 \notin old
  BY <1>1
<1>5. CASE b
  <2>1. new = old \cup {n + 1}
    BY <1>1, <1>2, <1>5
  <2>. QED  BY <1>3, <1>4, <1>5, <2>1, FS_AddElement DEF SpeechFrames
<1>6. CASE ~b
  <2>1. new = old
    BY <1>1, <1>2, <1>6
  <2>. QED  BY <1>3, <1>6, <2>1 DEF SpeechFrames
<1>. QED  BY <1>5, <1>6

\* A quiet frame prolongs the silence an utterance ends with, and speech ends it.
LEMMA TrailingQuietAppend ==
    ASSUME NEW fs \in Seq(BOOLEAN), NEW b \in BOOLEAN
    PROVE  /\ TrailingQuiet(fs) \in Nat
           /\ TrailingQuiet(Append(fs, b)) = IF b THEN 0 ELSE TrailingQuiet(fs) + 1
<1>. DEFINE n == Len(fs)
            gs == Append(fs, b)
            old == {i \in DOMAIN fs : \A j \in i .. Len(fs) : ~fs[j]}
            new == {i \in DOMAIN gs : \A j \in i .. Len(gs) : ~gs[j]}
<1>1. n \in Nat /\ DOMAIN fs = 1 .. n
  OBVIOUS
<1>2. /\ DOMAIN gs = 1 .. n + 1 /\ Len(gs) = n + 1 /\ gs[n + 1] = b
      /\ \A i \in 1 .. n : gs[i] = fs[i]
  OBVIOUS
<1>3. IsFiniteSet(old) /\ Cardinality(old) \in Nat
  <2>1. IsFiniteSet(1 .. n) /\ old \in SUBSET (1 .. n)
    BY <1>1, FS_Interval
  <2>. HIDE DEF old
  <2>. QED  BY <2>1, FS_Subset, FS_CardinalityType
<1>4. n + 1 \notin old
  BY <1>1
<1>5. CASE b
  <2>1. new = {}
    BY <1>1, <1>2, <1>5
  <2>. QED  BY <1>3, <1>5, <2>1, FS_EmptySet DEF TrailingQuiet
<1>6. CASE ~b
  <2>1. ASSUME NEW i \in 1 .. n PROVE i \in new <=> i \in old
    BY <1>1, <1>2, <1>6
  <2>2. n + 1 \in new
    BY <1>1, <1>2, <1>6
  <2>3. new = old \cup {n + 1}
    BY <1>1, <1>2, <2>1, <2>2
  <2>. QED  BY <1>3, <1>4, <1>6, <2>3, FS_AddElement DEF TrailingQuiet
<1>. QED  BY <1>5, <1>6

\* Without frames there is neither speech nor silence.
LEMMA NoFrames == SpeechFrames(<<>>) = 0 /\ TrailingQuiet(<<>>) = 0
BY FS_EmptySet DEF SpeechFrames, TrailingQuiet

\* Adding a frame to a saturated count is as adding it before.
LEMMA CountedAdd ==
    ASSUME NEW k \in Nat
    PROVE  /\ FrameMs * k \in Nat
           /\ SaturatingAdd(Counted(FrameMs * k), FrameMs) = Counted(FrameMs * (k + 1))
<1>1. FrameMs * k \in Nat /\ FrameMs * (k + 1) = FrameMs * k + FrameMs
  BY SegmenterAssumption
<1>. QED  BY <1>1, SegmenterAssumption DEF SaturatingAdd, Counted

\* What a u32 counts reaches a limit of the configuration when the frames do.
LEMMA CountedReaches ==
    ASSUME NEW ms \in Nat
    PROVE  /\ Counted(ms) >= MinSpeechMs <=> ms >= MinSpeechMs
           /\ Counted(ms) >= EndSilenceMs <=> ms >= EndSilenceMs
BY SegmenterAssumption DEF Counted

\* The counters after a frame are those of the frames with it.
LEMMA CountersAfter ==
    ASSUME FramesInv, active, NEW frame \in Frames
    PROVE  LET fs == Append(frames, IsSpeech(frame))
           IN  /\ fs \in Seq(BOOLEAN) /\ fs # <<>>
               /\ SpeechMsAfter(frame) = Counted(FrameMs * SpeechFrames(fs))
               /\ SilenceMsAfter(frame) = Counted(FrameMs * TrailingQuiet(fs))
<1>. DEFINE b == IsSpeech(frame)
            fs == Append(frames, b)
            s == SpeechFrames(frames)
            q == TrailingQuiet(frames)
<1>1. frames \in Seq(BOOLEAN) /\ b \in BOOLEAN
  BY DEF FramesInv, CountersOK, IsSpeech
<1>2. fs \in Seq(BOOLEAN) /\ fs # <<>>
  BY <1>1
<1>3. /\ s \in Nat /\ SpeechFrames(fs) = IF b THEN s + 1 ELSE s
      /\ q \in Nat /\ TrailingQuiet(fs) = IF b THEN 0 ELSE q + 1
  BY <1>1, SpeechFramesAppend, TrailingQuietAppend
<1>4. speech_ms = Counted(FrameMs * s) /\ silence_ms = Counted(FrameMs * q)
  BY DEF FramesInv, CountersOK
<1>5. Counted(FrameMs * 0) = 0
  BY SegmenterAssumption DEF Counted
<1>. HIDE DEF b, fs, s, q
<1>6. b = IsSpeech(frame)
  BY DEF b
<1>7. SpeechMsAfter(frame) = Counted(FrameMs * SpeechFrames(fs))
  BY <1>3, <1>4, <1>6, CountedAdd DEF SpeechMsAfter
<1>8. SilenceMsAfter(frame) = Counted(FrameMs * TrailingQuiet(fs))
  BY <1>3, <1>4, <1>5, <1>6, CountedAdd DEF SilenceMsAfter
<1>. QED  BY <1>2, <1>7, <1>8 DEF fs, b

\* An utterance that has ended is over, silence and all.
LEMMA NothingHeld ==
    ASSUME frames' = <<>>, ~active'
    PROVE  CountersOK' /\ GoesOnOnlyUntilSilence'
<1>1. <<>> \in Seq(BOOLEAN)
  OBVIOUS
<1>2. CountersOK'
  BY <1>1 DEF CountersOK
<1>3. FrameMs * 0 = 0
  BY SegmenterAssumption
<1>4. FrameMs * TrailingQuiet(frames') = 0
  BY <1>3, NoFrames
<1>5. ~LongSilence(frames')
  BY <1>4, SegmenterAssumption DEF LongSilence
<1>. QED  BY <1>2, <1>5 DEF GoesOnOnlyUntilSilence

\* No call of push_frame leaves an utterance on that end_by_silence would end.
LEMMA FramesPush ==
    ASSUME FramesInv, NEW frame \in Frames, PushFrame(frame),
           frames' = IF current_samples' # <<>> THEN Append(frames, IsSpeech(frame)) ELSE <<>>
    PROVE  CountersOK' /\ GoesOnOnlyUntilSilence'
<1>. DEFINE fs == Append(frames, IsSpeech(frame))
<1>1. /\ frames \in Seq(BOOLEAN) /\ IsSpeech(frame) \in BOOLEAN
      /\ frames = <<>> <=> ~active
      /\ current_samples = <<>> <=> ~active
      /\ Extended(frame) # <<>>
  BY ExtendedType DEF FramesInv, CountersOK, IsSpeech, IInv, ActiveHolds
<1>2. CASE frames' = <<>> /\ ~active'
  BY <1>2, NothingHeld
<1>3. CASE IgnoreQuiet(frame) \/ EndUtterance(frame)
  BY <1>1, <1>2, <1>3 DEF IgnoreQuiet, EndUtterance, Reset, segmenterVars
<1>4. CASE BeginUtterance(frame)
  <2>1. frames = <<>> /\ IsSpeech(frame) /\ frames' = fs /\ active'
    BY <1>1, <1>4 DEF BeginUtterance
  <2>2. fs \in Seq(BOOLEAN) /\ fs # <<>>
    BY <1>1
  <2>3. SpeechFrames(frames') = 1 /\ TrailingQuiet(frames') = 0
    <3>1. SpeechFrames(fs) = SpeechFrames(frames) + 1 /\ TrailingQuiet(fs) = 0
      BY <1>1, <2>1, SpeechFramesAppend, TrailingQuietAppend
    <3>2. SpeechFrames(frames) = 0
      BY <2>1, NoFrames
    <3>3. SpeechFrames(fs) = 1 /\ TrailingQuiet(fs) = 0
      BY <3>1, <3>2
    <3>4. frames' = fs
      BY <2>1
    <3>. QED  BY <3>3, <3>4
  <2>4. speech_ms' = FrameMs /\ silence_ms' = 0
    BY <1>4 DEF BeginUtterance
  <2>5. Counted(FrameMs * 1) = FrameMs /\ Counted(FrameMs * 0) = 0
    BY SegmenterAssumption DEF Counted
  <2>6. CountersOK'
    BY <2>1, <2>2, <2>3, <2>4, <2>5 DEF CountersOK
  <2>7. ~LongSilence(frames')
    BY <2>3, SegmenterAssumption DEF LongSilence
  <2>. QED  BY <2>6, <2>7 DEF GoesOnOnlyUntilSilence
<1>5. CASE Extend(frame)
  <2>1. active /\ active' /\ frames' = fs /\ ~EndsWith(frame)
        /\ speech_ms' = SpeechMsAfter(frame) /\ silence_ms' = SilenceMsAfter(frame)
    BY <1>1, <1>5 DEF Extend
  <2>2. /\ fs \in Seq(BOOLEAN) /\ fs # <<>>
        /\ SpeechMsAfter(frame) = Counted(FrameMs * SpeechFrames(fs))
        /\ SilenceMsAfter(frame) = Counted(FrameMs * TrailingQuiet(fs))
    BY <2>1, CountersAfter
  <2>3. SpeechFrames(fs) \in Nat /\ TrailingQuiet(fs) \in Nat
    BY <2>2, SpeechFramesAppend, TrailingQuietAppend
  <2>. HIDE DEF fs
  <2>4. CountersOK'
    BY <2>1, <2>2 DEF CountersOK
  <2>5. EnoughSpeech(fs) => ~LongSilence(fs)
    <3>1. /\ FrameMs * SpeechFrames(fs) \in Nat /\ FrameMs * TrailingQuiet(fs) \in Nat
      BY <2>3, CountedAdd
    <3>2. ~(Counted(FrameMs * TrailingQuiet(fs)) >= EndSilenceMs
            /\ Counted(FrameMs * SpeechFrames(fs)) >= MinSpeechMs)
      BY <2>1, <2>2 DEF EndsWith, EndsBySilence
    <3>. QED  BY <3>1, <3>2, CountedReaches DEF EnoughSpeech, LongSilence
  <2>. QED  BY <2>1, <2>4, <2>5 DEF GoesOnOnlyUntilSilence
<1>. QED  BY <1>3, <1>4, <1>5 DEF PushFrame

\* What is said of the frames holds at first, and each call keeps it.
LEMMA FramesInductive == MCSpec => []FramesInv
<1>1. MCInit => FramesInv
  <2>. SUFFICES ASSUME MCInit PROVE FramesInv
    OBVIOUS
  <2>1. IInv
    BY InitInv DEF MCInit
  <2>2. frames = <<>> /\ ~active
    BY DEF MCInit, Init
  <2>3. ~LongSilence(frames)
    BY <2>2, NoFrames, SegmenterAssumption DEF LongSilence
  <2>. QED  BY <2>1, <2>2, <2>3 DEF FramesInv, CountersOK, GoesOnOnlyUntilSilence
<1>2. FramesInv /\ [MCNext]_mcvars => FramesInv'
  <2>. SUFFICES ASSUME FramesInv, [MCNext]_mcvars PROVE FramesInv'
    OBVIOUS
  <2>1. IInv'
    BY NextInv DEF FramesInv, MCNext, MCFlush, MCPushFrame, Next, mcvars
  <2>2. CASE MCFlush
    <3>1. frames' = <<>> /\ ~active'
      BY <2>2 DEF MCFlush, Flush, Reset
    <3>2. ~LongSilence(frames')
      BY <3>1, NoFrames, SegmenterAssumption DEF LongSilence
    <3>. QED  BY <2>1, <3>1, <3>2 DEF FramesInv, CountersOK, GoesOnOnlyUntilSilence
  <2>3. CASE MCPushFrame
    BY <2>1, <2>3, FramesPush DEF MCPushFrame, FramesInv
  <2>4. CASE UNCHANGED mcvars
    BY <2>1, <2>4 DEF mcvars, vars, segmenterVars, FramesInv, CountersOK, GoesOnOnlyUntilSilence
  <2>. QED  BY <2>2, <2>3, <2>4 DEF MCNext
<1>. QED  BY <1>1, <1>2, PTL DEF MCSpec

\* However speech and silence alternate, push_frame lets no utterance go on that holds
\* min_speech_ms of speech and ends with end_silence_ms of silence.
THEOREM EndsInSilence == MCSpec => []GoesOnOnlyUntilSilence
<1>1. FramesInv => GoesOnOnlyUntilSilence
  BY DEF FramesInv
<1>. QED  BY <1>1, FramesInductive, PTL

\* push_frame ends an utterance at a limit, or when end_by_silence is due by its frames.
THEOREM CutsWhenDue == MCSpec => CutOnlyWhenDue
<1>. DEFINE Due == frames # <<>> /\ Len(emitted') > Len(current_samples) =>
                      \/ AtLimit(emitted')
                      \/ /\ EnoughSpeech(frames)
                         /\ FrameMs * (TrailingQuiet(frames) + 1) >= EndSilenceMs
                         /\ emitted'[Len(emitted')] = "quiet"
<1>1. FramesInv /\ [MCNext]_mcvars => [Due]_mcvars
  <2>. SUFFICES ASSUME FramesInv, MCNext, frames # <<>>, Len(emitted') > Len(current_samples),
                       ~AtLimit(emitted')
                PROVE  /\ EnoughSpeech(frames)
                       /\ FrameMs * (TrailingQuiet(frames) + 1) >= EndSilenceMs
                       /\ emitted'[Len(emitted')] = "quiet"
    OBVIOUS
  <2>1. active /\ current_samples \in Seq(Sample) /\ Len(current_samples) \in Nat
        /\ frames \in Seq(BOOLEAN)
    BY DEF FramesInv, CountersOK, IInv, TypeOK
  <2>2. PICK frame \in Frames : PushFrame(frame)
    BY <2>1 DEF MCNext, MCFlush, MCPushFrame, Flush
  <2>3. Len(<<>>) = 0
    OBVIOUS
  <2>4. EndUtterance(frame)
    <3>1. emitted' # <<>>
      BY <2>1, <2>3
    <3>. QED  BY <2>1, <2>2, <3>1 DEF PushFrame, IgnoreQuiet, BeginUtterance, Extend
  <2>5. emitted' = Extended(frame) /\ EndsBySilence(SpeechMsAfter(frame), SilenceMsAfter(frame))
    BY <2>4 DEF EndUtterance, EndsWith
  <2>6. ~IsSpeech(frame)
    BY <2>5, SegmenterAssumption DEF EndsBySilence, SilenceMsAfter
  <2>7. /\ speech_ms = Counted(FrameMs * SpeechFrames(frames))
        /\ silence_ms = Counted(FrameMs * TrailingQuiet(frames))
        /\ SpeechFrames(frames) \in Nat /\ TrailingQuiet(frames) \in Nat
    BY <2>1, SpeechFramesAppend, TrailingQuietAppend DEF FramesInv, CountersOK
  <2>8. EnoughSpeech(frames)
    BY <2>5, <2>6, <2>7, CountedAdd, CountedReaches DEF EndsBySilence, SpeechMsAfter, EnoughSpeech
  <2>9. FrameMs * (TrailingQuiet(frames) + 1) >= EndSilenceMs
    <3>1. /\ SilenceMsAfter(frame) = Counted(FrameMs * (TrailingQuiet(frames) + 1))
          /\ TrailingQuiet(frames) + 1 \in Nat
      <4>1. SilenceMsAfter(frame) = SaturatingAdd(silence_ms, FrameMs)
        BY <2>6 DEF SilenceMsAfter
      <4>2. SaturatingAdd(silence_ms, FrameMs) = Counted(FrameMs * (TrailingQuiet(frames) + 1))
        BY <2>7, CountedAdd
      <4>3. TrailingQuiet(frames) + 1 \in Nat
        BY <2>7
      <4>. QED  BY <4>1, <4>2, <4>3
    <3>2. FrameMs * (TrailingQuiet(frames) + 1) \in Nat
      BY <3>1, CountedAdd
    <3>. QED  BY <2>5, <3>1, <3>2, CountedReaches DEF EndsBySilence
  <2>10. emitted'[Len(emitted')] = "quiet"
    <3>1. PICK n \in 1 .. FrameSamples, s \in Sample : frame = [i \in 1 .. n |-> s]
      BY DEF Frames
    <3>2. n \in Nat \ {0} /\ frame \in Seq(Sample) /\ Len(frame) = n
          /\ frame[1] = s /\ frame[n] = s
      BY <3>1, FrameSamplesType
    <3>3. s = "quiet"
      BY <2>6, <3>2 DEF IsSpeech, Sample
    <3>4. /\ Len(current_samples \o frame) = Len(current_samples) + n
          /\ (current_samples \o frame)[Len(current_samples) + n] = frame[n]
      BY <2>1, <3>2
    <3>. QED  BY <2>5, <3>2, <3>3, <3>4 DEF Extended
  <2>. QED  BY <2>8, <2>9, <2>10
<1>. QED  BY <1>1, FramesInductive, PTL DEF MCSpec, CutOnlyWhenDue

-----------------------------------------------------------------------------
(* The recorder.                                                            *)

\* What a directory may hold: the loop over its entries can add their sizes up.
DirectoryOK ==
    /\ \A f \in files : f.size \in Nat /\ f.modified \in 0 .. MaxTime
    /\ now \in 0 .. MaxTime /\ IsFiniteSet(Bytes(files))

-----------------------------------------------------------------------------
(* Lemmas about sizes.                                                      *)

\* A file has as many bytes as its size says.
LEMMA FileBytes ==
    ASSUME NEW f, f.size \in Nat
    PROVE  IsFiniteSet(Bytes({f})) /\ TotalBytes({f}) = f.size
<1>. DEFINE n == f.size
<1>1. Bytes({f}) = {f} \X (1 .. n)
  BY DEF Bytes
<1>2. IsFiniteSet(1 .. n) /\ Cardinality(1 .. n) = n
  BY FS_Interval
<1>3. IsFiniteSet({f}) /\ Cardinality({f}) = 1
  BY FS_Singleton
<1>. HIDE DEF n
<1>4. IsFiniteSet({f} \X (1 .. n)) /\ Cardinality({f} \X (1 .. n)) = 1 * n
  BY <1>2, <1>3, FS_Product
<1>5. 1 * n = n
  BY DEF n
<1>6. IsFiniteSet(Bytes({f})) /\ Cardinality(Bytes({f})) = n
  BY <1>1, <1>4, <1>5
<1>. QED  BY <1>6 DEF n, TotalBytes

\* One more file leaves the total a number.
LEMMA FileAdded ==
    ASSUME NEW fs, IsFiniteSet(Bytes(fs)), NEW f, f.size \in Nat
    PROVE  IsFiniteSet(Bytes(fs \cup {f}))
<1>1. Bytes(fs \cup {f}) = Bytes(fs) \cup Bytes({f})
  BY DEF Bytes
<1>. QED  BY <1>1, FileBytes, FS_Union

\* Fewer files have no more bytes.
LEMMA FewerBytes ==
    ASSUME NEW fs, IsFiniteSet(Bytes(fs)), NEW gs \in SUBSET fs
    PROVE  /\ IsFiniteSet(Bytes(gs))
           /\ TotalBytes(fs) \in Nat /\ TotalBytes(gs) \in Nat
           /\ TotalBytes(gs) <= TotalBytes(fs)
<1>1. Bytes(gs) \in SUBSET Bytes(fs)
  BY DEF Bytes
<1>2. IsFiniteSet(Bytes(gs)) /\ Cardinality(Bytes(gs)) <= Cardinality(Bytes(fs))
  BY <1>1, FS_Subset
<1>. QED  BY <1>2, FS_CardinalityType DEF TotalBytes

-----------------------------------------------------------------------------
\* The sizes of a directory can be added up, whoever wrote into it before.
LEMMA DirectoryInductive == RecorderSpec => []DirectoryOK
<1>1. RecorderInit => DirectoryOK
  <2>. SUFFICES ASSUME RecorderInit PROVE DirectoryOK
    OBVIOUS
  <2>1. PICK size \in Sizes, modified \in 0 .. MaxTime :
           files \in {{}, {[name |-> 1, size |-> size, modified |-> modified]}}
    BY DEF RecorderInit
  <2>. DEFINE f == [name |-> 1, size |-> size, modified |-> modified]
  <2>2. f.size \in Nat /\ f.modified \in 0 .. MaxTime
    BY DebugWavAssumption
  <2>. HIDE DEF f
  <2>3. Bytes({}) = {}
    BY DEF Bytes
  <2>4. IsFiniteSet(Bytes({})) /\ IsFiniteSet(Bytes({f}))
    BY <2>2, <2>3, FS_EmptySet, FileBytes
  <2>5. files = {} \/ files = {f}
    BY <2>1 DEF f
  <2>6. now \in 0 .. MaxTime
    BY DEF RecorderInit
  <2>. QED  BY <2>2, <2>4, <2>5, <2>6 DEF DirectoryOK
<1>2. DirectoryOK /\ [RecorderNext]_recorderVars => DirectoryOK'
  <2>. SUFFICES ASSUME DirectoryOK, [RecorderNext]_recorderVars PROVE DirectoryOK'
    OBVIOUS
  <2>1. CASE UNCHANGED recorderVars
    BY <2>1 DEF DirectoryOK, recorderVars
  <2>2. CASE ClockMoves
    BY <2>2 DEF DirectoryOK, ClockMoves
  <2>3. ASSUME NEW size \in Sizes, files' = files \cup {File(named', size)}, now' = now
        PROVE  DirectoryOK'
    <3>. DEFINE f == File(named', size)
    <3>1. f.size \in Nat /\ f.modified \in 0 .. MaxTime
      BY DebugWavAssumption DEF DirectoryOK, File
    <3>. HIDE DEF f
    <3>2. IsFiniteSet(Bytes(files \cup {f}))
      BY <3>1, FileAdded DEF DirectoryOK
    <3>3. files' = files \cup {f}
      BY <2>3 DEF f
    <3>. QED  BY <2>3, <3>1, <3>2, <3>3 DEF DirectoryOK
  <2>4. ASSUME files' \subseteq files, now' = now
        PROVE  DirectoryOK'
    BY <2>4, FewerBytes DEF DirectoryOK
  <2>5. CASE WriteFails
    BY <2>3, <2>4, <2>5 DEF WriteFails
  <2>6. CASE CleansUp \/ CleanupFails \/ Rests
    <3>1. files' \subseteq files /\ now' = now
      BY <2>6 DEF CleansUp, CleanupFails, Rests, recorderVars
    <3>. QED  BY <2>4, <3>1
  <2>7. CASE \E size \in Sizes : Writes(size)
    BY <2>3, <2>7 DEF Writes
  <2>. QED  BY <2>1, <2>2, <2>5, <2>6, <2>7 DEF RecorderNext
<1>. QED  BY <1>1, <1>2, PTL DEF RecorderSpec

\* A call that returns a path has cleaned up.
LEMMA PathMeansCleanedUp ==
    ASSUME [RecorderNext]_recorderVars, stage = "written", result' = "path", stage' = "idle"
    PROVE  CleansUp
BY DEF RecorderNext, recorderVars, ClockMoves, Writes, WriteFails, CleanupFails, Rests

-----------------------------------------------------------------------------
\* After every recording that was reported, the directory is within its age and its size
\* but for what cannot be removed, however the clock was moved and whatever failed before.
THEOREM LimitsHold == RecorderSpec => RetentionHolds
<1>. DEFINE Reported == stage = "written" /\ result' = "path" /\ stage' = "idle" =>
              /\ \A f \in files' \ locked : now - f.modified <= Ttl
              /\ TotalBytes(files' \ locked) <= SizeCap
<1>1. DirectoryOK /\ [RecorderNext]_recorderVars => [Reported]_recorderVars
  <2>. SUFFICES ASSUME DirectoryOK, [RecorderNext]_recorderVars,
                       stage = "written", result' = "path", stage' = "idle"
                PROVE  /\ \A f \in files' \ locked : now - f.modified <= Ttl
                       /\ TotalBytes(files' \ locked) <= SizeCap
    OBVIOUS
  <2>. DEFINE expired == {f \in files : Expired(f)}
              kept    == files \ expired
  <2>1. PICK trimmed \in TrimmedFrom(kept) :
           files' = files \ ((expired \cup trimmed) \ locked)
    BY PathMeansCleanedUp DEF CleansUp
  <2>2. files' \ locked \in SUBSET (kept \ trimmed) /\ kept \ trimmed \in SUBSET files
    BY <2>1
  <2>3. ASSUME NEW f \in files' \ locked
        PROVE  now - f.modified <= Ttl
    <3>1. f \in files /\ ~Expired(f)
      BY <2>2
    <3>. QED  BY <3>1, DebugWavAssumption DEF DirectoryOK, Expired, Age
  <2>4. TotalBytes(kept \ trimmed) <= SizeCap
    BY <2>1 DEF TrimmedFrom
  <2>. HIDE DEF kept
  <2>5. IsFiniteSet(Bytes(kept \ trimmed))
    BY <2>2, FewerBytes DEF DirectoryOK
  <2>6. TotalBytes(files' \ locked) <= TotalBytes(kept \ trimmed)
        /\ TotalBytes(files' \ locked) \in Nat /\ TotalBytes(kept \ trimmed) \in Nat
    BY <2>2, <2>5, FewerBytes
  <2>. QED  BY <2>3, <2>4, <2>6, DebugWavAssumption
<1>. QED  BY <1>1, DirectoryInductive, PTL DEF RecorderSpec, RetentionHolds

\* The recording whose path was returned is there, unless it alone is larger than the cap,
\* or the clock makes it old or others as new as it.
THEOREM ReportedFileIsThere == RecorderSpec => ReportedFileExists
<1>. DEFINE Reported == stage = "written" /\ result' = "path" /\ stage' = "idle" =>
              \A f \in files : f.name = named =>
                  \/ f \in files'
                  \/ f.size > SizeCap \/ Expired(f)
                  \/ \E g \in files \ {f} : g.modified >= f.modified
<1>1. DirectoryOK /\ [RecorderNext]_recorderVars => [Reported]_recorderVars
  <2>. SUFFICES ASSUME DirectoryOK, [RecorderNext]_recorderVars,
                       stage = "written", result' = "path", stage' = "idle",
                       NEW f \in files, f \notin files', ~Expired(f),
                       \A g \in files \ {f} : ~(g.modified >= f.modified)
                PROVE  f.size > SizeCap
    OBVIOUS
  <2>. DEFINE expired == {g \in files : Expired(g)}
              kept    == files \ expired
  <2>1. PICK trimmed \in TrimmedFrom(kept) :
           files' = files \ ((expired \cup trimmed) \ locked)
    BY PathMeansCleanedUp DEF CleansUp
  <2>2. f \in trimmed
    BY <2>1
  <2>3. /\ trimmed \in SUBSET kept
        /\ \A g \in trimmed, h \in kept \ trimmed : OldestFirst(g, h)
        /\ trimmed # {} => \E last \in trimmed :
              /\ \A g \in trimmed : OldestFirst(g, last)
              /\ ~(TotalBytes(kept \ (trimmed \ {last})) <= SizeCap)
    BY <2>1 DEF TrimmedFrom
  <2>4. PICK last \in trimmed :
              /\ \A g \in trimmed : OldestFirst(g, last)
              /\ ~(TotalBytes(kept \ (trimmed \ {last})) <= SizeCap)
    BY <2>2, <2>3
  <2>5. kept \in SUBSET files
    OBVIOUS
  <2>. HIDE DEF kept
  <2>6. \A g \in files : f.modified \in Int /\ g.modified \in Int
                         /\ (f.modified <= g.modified => g = f)
    BY DEF DirectoryOK
  <2>7. last = f
    BY <2>2, <2>3, <2>4, <2>5, <2>6 DEF OldestFirst
  <2>8. kept \ (trimmed \ {f}) = {f}
    BY <2>2, <2>3, <2>5, <2>6 DEF OldestFirst
  <2>9. TotalBytes({f}) = f.size /\ f.size \in Nat
    BY FileBytes DEF DirectoryOK
  <2>. QED  BY <2>4, <2>7, <2>8, <2>9, DebugWavAssumption
<1>. QED  BY <1>1, DirectoryInductive, PTL DEF RecorderSpec, ReportedFileExists
================================================================================
