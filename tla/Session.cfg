CONSTANTS
    Clients = {c1, c2}
    Sessions = {s1, s2}
    Codes = {o1}
    MaxAge = 1
    AccessLife = 1
    CodeLife = 1
    MaxNow = 2
    MaxTurns = 1
    MaxAdmin = 2
    None = None
    Keys = {k1, k2}
    Attempts = {r1, r2}
    Max = 2
    Window = 1
    MaxLocal = 1
    MaxClock = 3
    MaxCount = 3
    MaxOutages = 1
    Jobs = {j1, j2, j3, j4}
    Workers = {w1, w2, w3, w4}
    Size = 2
    MaxQueue = 1
    MaxFaults = 2
SYMMETRY Symmetry
SPECIFICATION SignInSpec
INVARIANTS SessionEnds SsoCodeOnce LimitEnds PoolAtWork
PROPERTIES EndedStaysEnded
CHECK_DEADLOCK FALSE
