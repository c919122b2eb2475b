SPECIFICATION SettingsSpec
CONSTANTS
    Threads = {t1, t2}
    Usernames = {"admin", "ann"}
    UserIds = {3}
    Values <- PluginLists
    Core = "core_plugin"
    Absent = Absent
    Miss = Miss
    MaxOps = 3
CONSTRAINT Uncrossed
SYMMETRY Symmetry
INVARIANTS
    UsersAsSaved
    SettingAsSaved
CHECK_DEADLOCK FALSE
