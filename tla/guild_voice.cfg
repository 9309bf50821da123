SPECIFICATION Spec
CONSTANTS
    Tracks = {t1}
    Channels = {c1}
    NoKey = NoKey
    NoTrack = NoTrack
    NoChannel = NoChannel
    Workers = {w1, w2}
    Loop = Loop
    Clients = {r1, r2}
    Faults = {"db", "voice", "stream", "request"}
    InitialRows <- PausedInChannel
    MaxStored = 1
    MaxOrdKey = 64
    EdgeOrdKeyDiff = 16
    RequeueOrdKeyDiff = 8
    Ops = {"join", "leave", "pause", "resume"}
    Positions = {0, 1}
    MaxCalls = 2
    MaxCrashes = 1
SYMMETRY Symmetry
INVARIANTS ResumeKept
CHECK_DEADLOCK FALSE
