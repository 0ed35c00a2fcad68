\* One process at a time, fairly scheduled: edits, crashes, and a restart with another version.
SPECIFICATION FairSpec
CONSTANTS
    x = x  y = y  w1 = w1  w2 = w2
    Blank = Blank  NoVersion = NoVersion  Nobody = Nobody  Gone = Gone  Unserved = Unserved
    Images = {i1, i2}
    Processes = {w1, w2}
    Contents = {Blank, x, y}
    Silent = {Blank}
    VersionOf <- MCVersionOf
    Overlap = FALSE
    MaxEdits = 2
    MaxFaults = 1
INVARIANTS TypeOK NoContextIsTrue ReadyIsServed
PROPERTIES EditsGoFirst DirtyImagesSettle
CHECK_DEADLOCK FALSE
