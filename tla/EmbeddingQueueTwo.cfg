\* Two processes side by side, with different versions.
SPECIFICATION Spec
CONSTANTS
    x = x  y = y  w1 = w1  w2 = w2
    Blank = Blank  NoVersion = NoVersion  Nobody = Nobody  Gone = Gone  Unserved = Unserved
    Images = {i1, i2}
    Processes = {w1, w2}
    Contents = {Blank, x}
    Silent = {Blank}
    VersionOf <- MCVersionOf
    Overlap = TRUE
    MaxEdits = 2
    MaxFaults = 1
INVARIANTS ServedVectorsAreCurrent
PROPERTIES ImplementsVectorIndex
CHECK_DEADLOCK FALSE
