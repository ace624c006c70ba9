SPECIFICATION Spec
CONSTANTS
    x = x
    MaxBackups = 3
    MaxFaults = 2
    MaxAsks = 1
    Patterns <- NoPattern
    Latest <- FewOnly
    Inherited = 10
    Batch = 2
PROPERTY ConsistentKept
CHECK_DEADLOCK FALSE
