\* Two services share two ids and two urls, one of whose servers closes the
\* connections of its checks; three calls of /register and one change of a
\* server.  No symmetry: unsound for liveness.
SPECIFICATION DiscoveryFairSpec
CONSTANTS
    a = a  b = b  i = i  j = j  u = u  v = v
    Services = {a, b}
    Ids = {i, j}
    Urls = {u, v}
    Weights <- MCWeights
    NaN = NaN
    Offers <- MCOffers
    Closing = {u}
    HealthyThreshold = 2
    UnhealthyThreshold = 3
    MaxCalls = 3
    MaxTurns = 1
INVARIANTS PolledIffRegistered TurnIsFair
PROPERTIES DeadIsEjected WellIsReadmitted
\* Nothing is left to do once nothing is registered.
CHECK_DEADLOCK FALSE
