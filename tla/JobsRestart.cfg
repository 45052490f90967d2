CONSTANTS
    Jobs = {j1, j2}
    Requests = {r1}
    Modes = {base, leased}
    NoRequest = none
    MaxParallel = 1
    MaxActive = 2
    MaxRecords = 2
    MaxSync = 1
    MaxRestarts = 1
    Faults = {"crash", "store", "aging", "audit", "termination", "expiry", "refusal"}
SPECIFICATION Spec
CHECK_DEADLOCK FALSE
INVARIANTS TypeOK QuarantineReported StartedOnce RetriesRecover StoreAlwaysOpens OutputIsDurable
PROPERTIES ContractHolds
SYMMETRY Symmetry
