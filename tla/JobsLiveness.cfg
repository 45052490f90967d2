CONSTANTS
    Jobs = {j1, j2}
    Requests = {r1, r2}
    Modes = {base}
    NoRequest = none
    MaxParallel = 1
    MaxActive = 2
    MaxRecords = 2
    MaxSync = 0
    MaxRestarts = 0
    Faults = {"store"}
SPECIFICATION FairSpec
CHECK_DEADLOCK FALSE
INVARIANTS DurableBeforeSpawn
PROPERTIES JobsSettle CapacityReturns
