SPECIFICATION FairSpec
CONSTANTS
    Bots = {b1}
    Tokens = {t1, t2}
    OldTokens = {t1}
    Clients = {c1, c2}
    Takers = {k1}
    NoBot = NoBot
    NoToken = NoToken
    Methods = {"guild", "stream"}
    Faults = {"db", "session"}
    MaxTargets = 1
    MaxInputs = 3
INVARIANTS TypeOK NoLateRequest SessionsClosed FewLostSessions GuildsOfOneCrowd NewestHandled
PROPERTIES DrainEnds
CHECK_DEADLOCK FALSE
