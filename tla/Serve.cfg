SPECIFICATION FairSpec
CONSTANTS
    Poll = 1
    Max = 5
    CallMax = 2
    MaxOrphans = 3
    MaxFails = 4
INVARIANTS TypeOK BackedOff PickedUp StatusKept
PROPERTIES OrphansReaped ServeStops
CHECK_DEADLOCK FALSE
