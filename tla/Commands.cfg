SPECIFICATION FairSpec
CONSTANTS
    Commands = {1, 2}
    MaxParallel = 1
    Platforms = {"linux", "win32"}
    Kinds = {"sync", "job"}
    Descendants = {"quiet", "escaped", "privileged"}
    Faults = {"audit", "spawn", "tool", "decode", "limit", "refusal"}
INVARIANTS
    TypeOK
    ShellsWithinCapacity
    HeldUntilGone
    ToldOnlyWhenGone
    AnswerOnRecord
    ShutdownReachesAll
PROPERTIES
    ComesToRest
CHECK_DEADLOCK FALSE
