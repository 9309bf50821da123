SPECIFICATION Spec
CONSTANTS
    Instances = {a1, a2}
    Bots = {b1}
    Slots = {s0, s1, s2}
    InitSlot = s0
    NoOwner = NoOwner
    Dead = Dead
    NoBot = NoBot
    Stored = {}
    Registers = {b1}
    Faults = {"crash", "session", "stall", "slow", "query", "overtake"}
    MaxStarts = 3
SYMMETRY Symmetry
INVARIANTS TypeOK FenceDue
CHECK_DEADLOCK FALSE
