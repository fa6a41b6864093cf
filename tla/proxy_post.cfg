\* One POST on a route that configures a retry.
SPECIFICATION Spec
CONSTANTS
    ErrorThreshold = 50
    RecoveryTimeout = 1
    HalfOpenMaxRequests = 1
    WindowSize = 2
    MinRequests = 2
    MaxTime = 2
    Reqs = {p1}
    Idempotent = {}
    Unsendable = {}
    MaxRetries = 1
INVARIANTS OptedInIsRetried
\* All requests end, and the process may.
CHECK_DEADLOCK FALSE
