SPECIFICATION Spec
CONSTANTS
    Players = {p1, p2}
    PlaybackEnabled = TRUE
    MaxSessions = 3
INVARIANTS
    PausedOnlyUnderOwner
PROPERTIES
    OnlyOwnPausesResumed
