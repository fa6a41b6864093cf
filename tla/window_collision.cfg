\* One gateway, requests of the same millisecond.
SPECIFICATION Spec
CONSTANTS
    Reqs = {r1, r2, r3}
    Gateways = {g1}
    WindowMs = 3
    Capacities = {2}
    Cost = 1
    Second = 2
    MaxTime = 3
    MaxDelay = 1
SYMMETRY ReqSymmetry
INVARIANTS RequestsWithinLimit
\* Requests and clock are finite: the run ends.
CHECK_DEADLOCK FALSE
