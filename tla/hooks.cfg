SPECIFICATION HookSpec
CONSTANTS
    Plugins = {"core", "a"}
    CorePlugin = "core"
    Priority <- Priorities
    Syncers = {"loop", "pool"}
    Loop = "loop"
    Nothing = "nothing"
    MaxSyncs = 2
CONSTRAINT Turning
INVARIANTS
    SnapshotPipe
    RaiseIsContained
CHECK_DEADLOCK FALSE
