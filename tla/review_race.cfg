SPECIFICATION Spec
CONSTANTS
    Threads = {t1, t2}
    MaxVersion = 3
    MaxOps = 4
    Absent = Absent
    Torn = Torn
    Mixed = Mixed
    MaxCrashes = 1
SYMMETRY ThreadSymmetry
INVARIANTS
    NoLostRevision
    SupersededHasSuccessor
    NoVersionGap
    LiveWhenQuiet
PROPERTY
    ImplementsLifecycle
CHECK_DEADLOCK FALSE
