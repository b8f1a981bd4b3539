SPECIFICATION SafeSpec
CONSTANTS
    None = None
    MaxTranscripts = 2
    Transcripts = {1, 2}
    OutputErrors = {backend_failed}
    AudioErrors = {input_unavailable}
    CooldownTicks = 1
    ContinuousLimit = 0
    RateWindow = 0
    MaxRequests = 1
    SpendLimit = 2
    AllowOverLimit = FALSE
    RequestCost = 0
    MinHold = 0
    MaxHold = 0
    DefaultHold = 0
    SpendCap = 0
    MaxSessions = 2
    Players = {p1}
    PlaybackEnabled = TRUE
    ChunkFrames = 2
INVARIANTS
    NoPauseLeftBehind
