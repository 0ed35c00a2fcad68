\* A page queues a folder before the helper asks for everything.
SPECIFICATION Spec
CONSTANTS
    Top = Top  NoJob = NoJob
    Browsers = {b1}
    Helpers = {h1}
    Jobs = {j1}
    Scopes = {Top, d}
    MaxFaults = 0
INVARIANTS HelperIndexedAll
CHECK_DEADLOCK FALSE
