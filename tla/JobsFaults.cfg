CONSTANTS
    Jobs = {j1, j2, j3}
    Requests = {r1, r2, r3}
    Modes = {base}
    NoRequest = none
    MaxParallel = 1
    MaxActive = 1
    MaxRecords = 2
    MaxSync = 1
    MaxRestarts = 0
    Faults = {"store", "shutdown", "expiry", "termination"}
SPECIFICATION Spec
CHECK_DEADLOCK FALSE
INVARIANTS OneTerminalPerRun SlotsAccounted WithinCapacity
PROPERTIES ClosedStaysClosed
SYMMETRY Symmetry
