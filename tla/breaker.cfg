\* Four calls race for two probe slots, some throw and some are reset by hand:
\* one trips the circuit, two are probes and one knocks while both slots are
\* taken.  No symmetry: it is unsound for liveness.
SPECIFICATION FairSpec
CONSTANTS
    ErrorThreshold = 50
    RecoveryTimeout = 1
    HalfOpenMaxRequests = 2
    WindowSize = 1
    MinRequests = 2
    MaxTime = 3
    Calls = {c1, c2, c3, c4}
    CanThrow = TRUE
    ManualResets = TRUE
INVARIANTS QuietPeriod ProbeLimit NoWedge
PROPERTIES
    LateResultsLeaveOpenAlone TripsExactlyOnErrorRate
    OpenIsProbed HalfOpenResolves ImplementsContract
\* Calls and clock are finite: the run ends.
CHECK_DEADLOCK FALSE
