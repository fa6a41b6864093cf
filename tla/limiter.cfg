\* Two requests through two stacked rules, one configuration poll at a time
\* (repeated for ever), two losses (a stop of Redis or a reset connection) and a
\* client that gives up after one failed reconnection.  No symmetry: unsound for liveness.
SPECIFICATION FairSpec
CONSTANTS
    Polls = {p1}
    MaxReconnects = 1
    MaxLosses = 2
    Reqs = {r1, r2}
    Rules = 2
INVARIANTS FailClosedChecks FailOpenAdmits ChargeBound
PROPERTIES EveryRequestDecided
\* All requests are decided and no client is left to reconnect.
CHECK_DEADLOCK FALSE
