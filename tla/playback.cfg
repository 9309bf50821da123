SPECIFICATION FairSpec
CONSTANTS
    Tracks = {t1}
    NoTrack = NoTrack
    BurstNum = 2
    Length <- Frames
    SeekTo <- Positions
    MaxEvents = 2
INVARIANTS TypeOK PositionNotAhead FewLateStores
PROPERTIES PositionGrows  LeaverGetsLock
CHECK_DEADLOCK FALSE
