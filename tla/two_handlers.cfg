SPECIFICATION Spec
CONSTANTS
    Window = 2
    RollbackThreshold = 1
    TagFailStreakLimit = 2
    SeqModulus = 5
    Frames <- MCFrames
    NoWindow = NoWindow
    MaxFrames = 3
    MaxReleases = 1
INVARIANTS NoRegrantLater QuarantineHolds AnomalyHasCause
