CONSTANTS
    Commands = {c1, c2}
    Admins = {a1}
    None = none
    Duration = 2
    MaxRevoked = 2
    MaxTime = 0
    MaxJumps = 0
    MaxBoots = 1
    Faults = {}
SPECIFICATION Spec
CHECK_DEADLOCK FALSE
PROPERTIES FailedOpenStaysClosed
