SPECIFICATION FairSpec
CONSTANTS
    Configs <- AllConfigs
    Window = 1
    RollbackThreshold = 0
    TagFailStreakLimit = 5
    SeqModulus = 64
    Attempts = 2
    MaxScans = 2
    MaxReboots = 1
    MaxRestarts = 1
    MaxReleases = 1
INVARIANTS AllowShownIfGranted GrantedAtMostOnce
PROPERTIES QuarantineHasCause JobsEnd
CHECK_DEADLOCK FALSE
