\* One gateway, so calls run in the order of their timestamps.  The TTL is
\* (2 + 1) * 2 = 6: the key expires within the run.
SPECIFICATION Spec
CONSTANTS
    Reqs = {r1, r2, r3, r4, r5}
    Gateways = {g1}
    WindowMs = 3
    Capacities = {2}
    Cost = 1
    Second = 2
    MaxTime = 9
    MaxDelay = 2
SYMMETRY ReqSymmetry
INVARIANTS StampsWithinLimit
PROPERTIES DecidesByHistory RetryAfterSuffices
\* Requests and clock are finite: the run ends.
CHECK_DEADLOCK FALSE
