SPECIFICATION Spec
CONSTANTS
    p1 = p1
    p2 = p2
    Player <- People
    Leader = p1
    Manners <- EveryManner
CHECK_DEADLOCK FALSE
INVARIANTS
    TypeOK
    NobodyLeftBehind
PROPERTIES
    FieldCleared
    EventEnds
