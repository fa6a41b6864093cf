\* As breaker, but nobody resets by hand and building an upstream request may throw.
SPECIFICATION FairSpec
CONSTANTS
    ErrorThreshold = 50
    RecoveryTimeout = 1
    HalfOpenMaxRequests = 1
    WindowSize = 1
    MinRequests = 1
    MaxTime = 3
    Calls = {c1, c2, c3}
    CanThrow = TRUE
    ManualResets = FALSE
PROPERTIES CircuitRecovers
CHECK_DEADLOCK FALSE
