\* One upstream behind one route, one GET.
SPECIFICATION Spec
CONSTANTS
    ErrorThreshold = 50
    RecoveryTimeout = 1
    HalfOpenMaxRequests = 1
    WindowSize = 2
    MinRequests = 2
    MaxTime = 2
    Reqs = {g1}
    Idempotent = {g1}
    Unsendable = {}
    MaxRetries = 1
SYMMETRY KindSymmetry
INVARIANTS GatewayStaysUp
\* All requests end, and the process may.
CHECK_DEADLOCK FALSE
