SPECIFICATION FairSpec
CONSTANTS
    Pipe = 2
    Out = 3
    Err = 5
    Places = 2
INVARIANTS TypeOK OutputWhole TailLast
PROPERTIES CallPromised CancelEnds RunEnds
CHECK_DEADLOCK FALSE
