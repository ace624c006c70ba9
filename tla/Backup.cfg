SPECIFICATION FairSpec
CONSTANTS
    x = x
    MaxBackups = 2
    MaxFaults = 1
    MaxAsks = 1
    Patterns <- OnePattern
    Latest <- NoneAsked
    Inherited = 6
    Batch = 2
INVARIANTS TypeOK RulesExact AbortClean PinHonest
PROPERTIES CommitHonest CommittedKept FloorEnough VerbsEnd
CHECK_DEADLOCK FALSE
