\* One gateway, two rules of different capacity with the same key.
SPECIFICATION Spec
CONSTANTS
    Reqs = {r1, r2, r3}
    Gateways = {g1}
    WindowMs = 3
    Capacities = {1, 2}
    Cost = 1
    Second = 1
    MaxTime = 4
    MaxDelay = 1
SYMMETRY ReqSymmetry
PROPERTIES RetryAfterSuffices
\* Requests and clock are finite: the run ends.
CHECK_DEADLOCK FALSE
