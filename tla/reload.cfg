\* Two polls overlap while three documents are pushed and two requests come
\* for two routes.  No symmetry: unsound for liveness.
SPECIFICATION FairSpec
CONSTANTS
    Fields = {"routes", "limits"}
    Documents <- MCDocuments
    Routes = 2
    Polls = {p1, p2}
    Reqs = {r1, r2}
    MaxPushes = 3
INVARIANTS OptionsOfAnEarlierRequest
PROPERTIES BackOnlyByOverlap NewestTakesEffect
