\* A scan taken over after a crash.
SPECIFICATION Spec
CONSTANTS
    a = a  b = b  c = c  d = d  fileA = fileA
    Top = Top  Nobody = Nobody  Gone = Gone  Unstamped = Unstamped
    Processes = {w1, w2}
    Jobs = {j1}
    Paths <- Lone
    Scopes <- LoneScopes
    Files <- FileScopes
    Below <- LoneBelow
    Matched <- LoneBelow
    Shallow <- LoneShallow
    Videos = {a}
    BatchSize = 1
    Overlap = FALSE
    MaxFaults = 0
    MaxChanges = 1
INVARIANTS ScanReconciles
CHECK_DEADLOCK FALSE
