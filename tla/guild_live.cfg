SPECIFICATION NotedSpec
CONSTANTS
    Tracks = {t1}
    Channels = {c1}
    NoKey = NoKey
    NoTrack = NoTrack
    NoChannel = NoChannel
    Workers = {w1}
    Loop = Loop
    Clients = {r1}
    Faults = {}
    InitialRows <- PausedInChannel
    MaxStored = 1
    MaxOrdKey = 64
    EdgeOrdKeyDiff = 16
    RequeueOrdKeyDiff = 8
    Ops = {"play", "skip", "pause"}
    Positions = {0}
    MaxCalls = 2
    MaxCrashes = 0
INVARIANT NewsDue
PROPERTIES QueueWakes RemovedTrackEnds ChangeNotified
CHECK_DEADLOCK FALSE
