CONSTANTS
    Jobs = {j1}
    Requests = {r1}
    Modes = {base}
    NoRequest = none
    MaxParallel = 1
    MaxActive = 2
    MaxRecords = 2
    MaxSync = 0
    MaxRestarts = 0
    Faults = {"shutdown"}
SPECIFICATION Spec
CHECK_DEADLOCK FALSE
INVARIANT UniqueTerminal
