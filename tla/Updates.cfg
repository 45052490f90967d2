SPECIFICATION FairSpec
CONSTANTS
    Requests = {1, 2}
    Jobs = {j1}
    MaxRestarts = 1
    Faults = {"audit", "timeout", "refuse", "start", "kill"}
INVARIANTS
    TypeOK
    DispatchExcludesJobs
PROPERTIES
    PauseEndsWithUpdate
    ReportedEnds
CHECK_DEADLOCK FALSE
