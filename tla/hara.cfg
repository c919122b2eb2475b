SPECIFICATION Spec
CONSTANTS
    Items = {brake, wiper}
    TextFiles = {brake}
    PdfFiles = {wiper}
    Turns = {t1, t2}
    MaxRuns = 5
    NotSet = NotSet
    Scenarios = {"urban", "rain", "new"}
    Unknown = {"typo"}
    Exposure <- Levels3
    MaxCustom = 1
SYMMETRY TurnSymmetry
INVARIANTS
    StageBacked
CHECK_DEADLOCK FALSE
