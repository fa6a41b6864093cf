\* A GET with a retry, a POST and a request that cannot be sent, on one
\* route whose circuit opens after two results.  No symmetry: it is unsound
\* for liveness.
SPECIFICATION FairSpec
CONSTANTS
    ErrorThreshold = 50
    RecoveryTimeout = 1
    HalfOpenMaxRequests = 1
    WindowSize = 2
    MinRequests = 2
    MaxTime = 3
    Reqs = {g1, p1, u1}
    Idempotent = {g1}
    Unsendable = {u1}
    MaxRetries = 2
INVARIANTS AttemptBound AttemptsRecorded FallsOnlyToAnsweredRetry
PROPERTIES RetriesAskTheBreaker EveryRequestAnswered
\* All requests end, and the process may.
CHECK_DEADLOCK FALSE
