\* One worker process and one job; nothing on disk changes.
SPECIFICATION Spec
CONSTANTS
    Nobody = Nobody  Gone = Gone  Unstamped = Unstamped
    Processes = {w1}
    Jobs = {j1}
    Paths <- MCPaths
    Scopes <- MCScopes
    Top <- MCTop
    Files = {}
    Below <- MCBelow
    Matched <- MCMatched
    Shallow <- MCShallow
    Videos = {}
    BatchSize = 2
    Overlap = FALSE
    MaxFaults = 0
    MaxChanges = 0
PROPERTIES OnlyAbsentFilesDeindexed
CHECK_DEADLOCK FALSE
