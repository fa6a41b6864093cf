\* Two gateways on the same key.
SPECIFICATION Spec
CONSTANTS
    Reqs = {r1, r2, r3, r4}
    Gateways = {g1, g2}
    WindowMs = 3
    Capacities = {2}
    Cost = 1
    Second = 2
    MaxTime = 5
    MaxDelay = 2
SYMMETRY ReqSymmetry
INVARIANTS StampsWithinLimit
\* Requests and clock are finite: the run ends.
CHECK_DEADLOCK FALSE
