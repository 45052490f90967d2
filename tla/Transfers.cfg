SPECIFICATION FairSpec
CONSTANTS
    Transfers = {1, 2}
    Clients = {1, 2}
    Reader = 0
    Operations = {"upload", "download"}
    Backends = {"file", "helper"}
    MaxPending = 2
    Oldest = 2
    Capacity = 1
    ListLimit = 2
    ReaderLines = 3
    MaxRestarts = 1
    ListsDuring = {"idle", "attempting", "closing", "over"}
    AuditFaults = {"fail", "tear", "stall"}
    Faults = {"io", "lease", "stall", "cancel"}
INVARIANTS
    TypeOK
    TrailIsTail
    ListingIsNewest
    TerminalTellsTruth
    OneAtATime
PROPERTIES
    AnsweredAnyway
CHECK_DEADLOCK FALSE
