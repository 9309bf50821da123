SPECIFICATION Spec
CONSTANTS
    Bots = {b1}
    Tokens = {t1}
    OldTokens = {t1}
    Clients = {c1}
    Takers = {}
    NoBot = NoBot
    NoToken = NoToken
    Methods = {}
    Faults = {}
    MaxTargets = 2
    MaxInputs = 2
INVARIANTS EveryMessageHandled
CHECK_DEADLOCK FALSE
