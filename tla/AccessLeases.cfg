CONSTANTS
    Commands = {c1, c2}
    Admins = {a1}
    None = none
    Duration = 2
    MaxRevoked = 2
    MaxTime = 2
    MaxJumps = 1
    MaxBoots = 2
    Faults = {"read", "audit", "crash", "stop", "label", "replaced"}
SPECIFICATION Spec
CHECK_DEADLOCK FALSE
INVARIANTS AccessType NeverReactivated AuditedFirst EndsSettledBeforeExit
PROPERTIES GrantBounded
SYMMETRY Symmetry
