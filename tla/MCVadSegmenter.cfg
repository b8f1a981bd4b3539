SPECIFICATION MCSpec
CONSTANTS
    FrameMs = 1
    SampleRate = 2000
    EndSilenceMs = 2
    MinSpeechMs = 2
    MaxUtteranceMs = 6
    PayloadLimitBytes = 26
    U32Max = 8
INVARIANTS
    HeldBelowLimits
    GoesOnOnlyUntilSilence
PROPERTIES
    CutOnlyWhenDue
    ImplementsSegmentation
    UtteranceEnds
