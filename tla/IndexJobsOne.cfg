\* One worker process at a time; crashes, lapsing leases and a refused statement.
SPECIFICATION Spec
CONSTANTS
    a = a  b = b  c = c  d = d  fileA = fileA
    Top = Top  Nobody = Nobody  Gone = Gone  Unstamped = Unstamped
    Processes = {w1, w2}
    Jobs = {j1}
    Paths <- Tree
    Scopes <- TreeScopes
    Files <- NoScopes
    Below <- TreeBelow
    Matched <- TreeBelow
    Shallow <- TreeShallow
    Videos = {a}
    BatchSize = 2
    Overlap = FALSE
    MaxFaults = 1
    MaxChanges = 2
SYMMETRY Symmetry
INVARIANTS TypeOK Reconciled AuditedSucceeded
PROPERTIES OnlyAbsentFilesDeindexed
CHECK_DEADLOCK FALSE
