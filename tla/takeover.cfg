SPECIFICATION FairSpec
CONSTANTS
    Instances = {a1, a2, a3}
    Bots = {b1}
    Slots = {s0, s1, s2}
    InitSlot = s0
    NoOwner = NoOwner
    Dead = Dead
    NoBot = NoBot
    Stored = {b1}
    Registers = {}
    Faults = {"crash"}
    MaxStarts = 3
INVARIANTS OneManager ManagerHoldsLock TakeoverDue
PROPERTIES NoStolenVoice OneSession TakenOver
CHECK_DEADLOCK FALSE
