SPECIFICATION Spec
CONSTANTS
    NoKey = NoKey
    Tracks = {t1, t2, t3, t4, t5, t6}
    Clients = {r1, r2}
    Edits = {"play", "remove", "requeue", "shuffle", "save", "load"}
    BatchSizes = {1, 2}
    Positions <- BothEnds
    QueueSizeLimit = 3
    PlaylistSizeLimit = 2
    MaxEdits = 4
    MaxOrdKey = 64
    EdgeOrdKeyDiff = 8
    RequeueOrdKeyDiff = 4
SYMMETRY Symmetry
INVARIANTS OvershootBounded
PROPERTIES PlayedWhereAsked QuietWritesKeepHead RequeuedIsLast LoadedBehindInOrder
CHECK_DEADLOCK FALSE
