SPECIFICATION Spec
CONSTANTS
    Tracks = {t1, t2}
    Channels = {c1}
    NoKey = NoKey
    NoTrack = NoTrack
    NoChannel = NoChannel
    Workers = {w1}
    Loop = Loop
    Clients = {r1, r2}
    Faults = {"extract"}
    InitialRows <- InChannel
    MaxStored = 1
    MaxOrdKey = 32
    EdgeOrdKeyDiff = 16
    RequeueOrdKeyDiff = 8
    Ops = {"play", "skip", "remove", "stop", "loop", "seek"}
    Positions = {0, 1}
    MaxCalls = 2
    MaxCrashes = 0
SYMMETRY Symmetry
INVARIANTS TypeOK WakeupDue PlaysHead
CHECK_DEADLOCK FALSE
