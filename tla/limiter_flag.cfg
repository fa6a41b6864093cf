\* Redis never stops and no connection is reset; the configuration is polled as it always is.
SPECIFICATION FairSpec
CONSTANTS
    Polls = {p1}
    MaxReconnects = 5
    MaxLosses = 0
    Reqs = {r1}
    Rules = 1
PROPERTIES LimiterRecovers
\* The request is decided; the polls go on.
CHECK_DEADLOCK FALSE
