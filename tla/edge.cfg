\* One request of every kind and from every address, under every pair of rule
\* lists; the timeouts keep the order of 10 s, 30 s, 30 s, 30 s.
SPECIFICATION FairSpec
CONSTANTS
    Width = 3
    Mapped = Mapped
    Unparsed <- MCUnparsed
    NaN = NaN
    Reqs = {r1}
    RuleLists <- MCRuleLists
    Arrivals <- MCArrivals
    HeaderTimeout = 1
    BodyTimeout = 2
    SocketTimeout = 2
    DrainTimeout = 2
INVARIANTS AdmittedByRange CompleteIsCutOnlyIdle FallsOnlyToSlowUpload
PROPERTIES ShutdownEnds
\* The process exits.
CHECK_DEADLOCK FALSE
