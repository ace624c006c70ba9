SPECIFICATION Spec
CONSTANTS
    ComposeNames = {"web"}
    userDataTag = "_userdata"
    OtherTags = {"not a name"}
    NoTag = ""
    Stamps = {"s1"}
    Names = {"docs", "conf"}
    Shapes <- MCShapes
    Flags <- MCFlags
    MaxSnaps = 2
    MaxAsks = 2
    MaxFaults = 1
INVARIANTS TypeOK Faithful RefusedUntouched ListedRestorable
PROPERTIES OnlyNamed
CHECK_DEADLOCK FALSE
