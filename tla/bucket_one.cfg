\* One gateway.  The bucket takes 2 seconds to fill and the key lives for
\* 10, so both happen within the run.
SPECIFICATION Spec
CONSTANTS
    Reqs = {r1, r2, r3, r4, r5}
    Gateways = {g1}
    Capacity = 4
    Rate = 2
    Cost = 3
    RateFloor = 1
    MinTtl = 1
    MaxDelay = 1
    MaxTime = 13
SYMMETRY ReqSymmetry
INVARIANTS IntervalBound
PROPERTIES DecidesByHistory RetryAfterWithinASecond
\* Requests and clock are finite: the run ends.
CHECK_DEADLOCK FALSE
