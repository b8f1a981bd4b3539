SPECIFICATION ProviderSpec
CONSTANTS
    MaxRetries = 2
    MaxCalls = 3
INVARIANTS
    UploadsBounded
    FallbackSticks
    TranscriptIsOwn
    LeftBehindOnlyByFailure
PROPERTIES
    ChatterIsNoTranscript
    CallReturns
