SPECIFICATION Spec
CONSTANTS
    Plugins = {"core_plugin", "a", "b"}
    Path <- SamePath
    Packages <- FailingPackages
    Files = {"tools", "pytools"}
    Lasting = {"pytools"}
    NoFile = NoFile
    MaxInstalls = 4
    MaxCrashes = 1
INVARIANTS
    SavedActive
    HooksOfActive
    RoutesMatch
    CodeFresh
PROPERTY
    BootEventually
CHECK_DEADLOCK FALSE
