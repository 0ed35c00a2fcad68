\* Two worker processes side by side, and a second job after the first one settled.
SPECIFICATION Spec
CONSTANTS
    a = a  b = b  c = c  d = d  fileA = fileA
    Top = Top  Nobody = Nobody  Gone = Gone  Unstamped = Unstamped
    Processes = {w1, w2}
    Jobs = {j1, j2}
    Paths <- Lone
    Scopes <- LoneScopes
    Files <- FileScopes
    Below <- LoneBelow
    Matched <- LoneBelow
    Shallow <- LoneShallow
    Videos = {a}
    BatchSize = 1
    Overlap = TRUE
    MaxFaults = 1
    MaxChanges = 0
SYMMETRY Symmetry
PROPERTIES ResultsAreFinal DisownedProcessLeavesJobs ImplementsJobTable
CHECK_DEADLOCK FALSE
