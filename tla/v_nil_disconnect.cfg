SPECIFICATION Spec
CONSTANTS
    Tracks = {t1, t2}
    Channels = {c1}
    NoKey = NoKey
    NoTrack = NoTrack
    NoChannel = NoChannel
    Workers = {w1}
    Loop = Loop
    Clients = {r1, r2}
    Faults = {}
    InitialRows <- InChannel
    MaxStored = 1
    MaxOrdKey = 64
    EdgeOrdKeyDiff = 16
    RequeueOrdKeyDiff = 8
    Ops = {"leave"}
    Positions = {0, 1}
    MaxCalls = 1
    MaxCrashes = 0
SYMMETRY Symmetry
INVARIANTS NoNilDisconnect
CHECK_DEADLOCK FALSE
