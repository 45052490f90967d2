CONSTANTS
    Commands = {c1}
    Admins = {a1, a2}
    None = none
    Duration = 1
    MaxRevoked = 2
    MaxTime = 1
    MaxJumps = 0
    MaxBoots = 1
    Faults = {"slow", "audit", "corrupt"}
SPECIFICATION Spec
CHECK_DEADLOCK FALSE
INVARIANTS CloseConfirmed
PROPERTIES GrantStillPublished CloseWinsOverOpening LateNeverGrants
SYMMETRY Symmetry
