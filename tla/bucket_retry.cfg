\* Half a token is missing when the second request comes.
SPECIFICATION Spec
CONSTANTS
    Reqs = {r1, r2}
    Gateways = {g1}
    Capacity = 1
    Rate = 2
    Cost = 1
    RateFloor = 1
    MinTtl = 2
    MaxDelay = 1
    MaxTime = 3
SYMMETRY ReqSymmetry
PROPERTIES RetryAfterSuffices
\* Requests and clock are finite: the run ends.
CHECK_DEADLOCK FALSE
