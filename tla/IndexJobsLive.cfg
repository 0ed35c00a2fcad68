\* One worker process at a time, fairly scheduled; no symmetry, since liveness is checked.
SPECIFICATION FairSpec
CONSTANTS
    a = a  b = b  c = c  d = d  fileA = fileA
    Top = Top  Nobody = Nobody  Gone = Gone  Unstamped = Unstamped
    Processes = {w1, w2}
    Jobs = {j1, j2}
    Paths <- Lone
    Scopes <- LoneScopes
    Files <- FileScopes
    Below <- LoneBelow
    Matched <- LoneBelow
    Shallow <- LoneShallow
    Videos = {a}
    BatchSize = 1
    Overlap = FALSE
    MaxFaults = 1
    MaxChanges = 0
PROPERTIES EveryJobSettles
CHECK_DEADLOCK FALSE
