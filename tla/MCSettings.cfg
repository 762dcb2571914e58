\* Two events at a time, in any order, with a fault and redeliveries.
CONSTANTS
    Msg = {"m1", "m2", "m3", "m4"}
    Setting = {"tasksPerCategory", "showDoneTasks"}
    Ev <- FirstDay
    MaxAttempts = 2
    MaxAtWork = 2
    MaxFaults = 1
    ThrowAt = {"user", "get", "upsert", "merge", "load", "set", "publish"}
    Crashes = TRUE
SPECIFICATION FairSpec
INVARIANTS SettingsInv
PROPERTIES SettingsMoveForward SettingsCatchUp
CHECK_DEADLOCK FALSE
