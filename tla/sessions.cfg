SPECIFICATION Spec
CONSTANTS
    Sockets = {s1, s2}
    Requests = {r1}
    CacheKinds = {TRUE, FALSE}
    MaxHistory = 3
    MaxTurns = 2
    MaxActive = 2
    MaxFaults = 1
    None = None
SYMMETRY ActorSymmetry
INVARIANTS
    HistoryOrdered
    LastTurnKept
    WipeSticks
    NoDeadConnection
CHECK_DEADLOCK FALSE
