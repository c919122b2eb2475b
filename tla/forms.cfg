SPECIFICATION Spec
CONSTANTS
    Turns = {"t1", "t2"}
    Keys = {"name", "note"}
    Required = {"name"}
    Good = {"v1", "v2"}
    MaxForms = 2
INVARIANTS
    EndsOnce
    SubmittedComplete
    ConfirmedAsShown
    OpenIsActive
CHECK_DEADLOCK FALSE
