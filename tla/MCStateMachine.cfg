SPECIFICATION RequestsSpec
CONSTANTS
    None = None
    Transcripts = {t1}
    OutputErrors = {backend_failed}
    AudioErrors = {input_unavailable}
    CooldownTicks = 2
    ContinuousLimit = 1
    RateWindow = 2
    MaxRequests = 2
    SpendLimit = 1
    AllowOverLimit = FALSE
    RequestCost = 1
    MinHold = 1
    MaxHold = 2
    DefaultHold = 1
    SpendCap = 1
    MaxSessions = 3
INVARIANTS
    RecordingInv
    RateLimitExact
PROPERTIES
    StopsAnnounced
    ImplementsLifecycle
