\* minRequests against a window shorter than the run.
SPECIFICATION Spec
CONSTANTS
    ErrorThreshold = 50
    RecoveryTimeout = 2
    HalfOpenMaxRequests = 2
    WindowSize = 1
    MinRequests = 2
    MaxTime = 4
    Calls = {c1, c2, c3}
    CanThrow = FALSE
    ManualResets = FALSE
SYMMETRY CallSymmetry
PROPERTIES TripsOnlyWithEnoughSamples
CHECK_DEADLOCK FALSE
