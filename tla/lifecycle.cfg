SPECIFICATION Spec
CONSTANTS
    Artifacts = {"plan", "hara", "fsc", "fsc2", "tsc", "hw", "sw", "manual", "case"}
    Wp <- WpOf
    Projects = {p1, p2}
    MaxFiles = 3
SYMMETRY ProjectSymmetry
INVARIANTS
    TypeOK
    VersionChain
    OneLiveVersion
    TraceSound
    TraceInherited
    TraceComplete
PROPERTY
    HistoryFrozen
CHECK_DEADLOCK FALSE
