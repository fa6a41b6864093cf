\* Two gateways on the same key.
SPECIFICATION Spec
CONSTANTS
    Reqs = {r1, r2, r3, r4}
    Gateways = {g1, g2}
    Capacity = 2
    Rate = 1
    Cost = 1
    RateFloor = 1
    MinTtl = 2
    MaxDelay = 2
    MaxTime = 4
SYMMETRY ReqSymmetry
INVARIANTS IntervalBound
\* Requests and clock are finite: the run ends.
CHECK_DEADLOCK FALSE
