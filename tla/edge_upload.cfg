\* The timer of the headers runs while the body is sent.
SPECIFICATION Spec
CONSTANTS
    Width = 3
    Mapped = Mapped
    Unparsed <- MCUnparsed
    NaN = NaN
    Reqs = {r1}
    RuleLists <- NoLists
    Arrivals <- UploadArrivals
    HeaderTimeout = 1
    BodyTimeout = 2
    SocketTimeout = 2
    DrainTimeout = 2
CHECK_DEADLOCK FALSE
INVARIANTS CutByBodyTimeout
