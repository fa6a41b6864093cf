\* Three requests of one key, and one of another whose end cleans up too.
\* No symmetry: unsound for liveness.
SPECIFICATION FairSpec
CONSTANTS
    r1 = r1  r2 = r2  r3 = r3  r4 = r4  k1 = k1  k2 = k2
    Reqs = {r1, r2, r3, r4}
    Keys = {k1, k2}
    KeyOf <- MCKeyOf
    MaxWait = 1
INVARIANTS SingleFlight WaitersAreTimed
PROPERTIES FollowersSettle
\* All requests end.
CHECK_DEADLOCK FALSE
