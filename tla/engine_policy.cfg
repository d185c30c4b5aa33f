SPECIFICATION FairSpec
CONSTANTS
    r0 = r0
    r1 = r1
    d1 = d1
    c1 = c1
    staff = staff
    guest = guest
    NoRole = NoRole
    NoCard = NoCard
    NoReply = NoReply
    Readers = {r0, r1}
    Doors = {d1}
    Cards = {c1}
    Roles = {staff, guest}
    ZeroReader = r0
    Frames <- PolicyFrames
    InitStores <- PolicyStores
    Window = 2
    RollbackThreshold = 1
    TagFailStreakLimit = 2
    SeqModulus = 16
    MaxKv = 2
    AntiReplay = TRUE
    SkewChecked = FALSE
    AllowPrev = TRUE
    EnforceBinding = TRUE
    StaticPepper = FALSE
    DeterministicNonce = FALSE
    DetectorEnabled = FALSE
    Exclusive = FALSE
    MaxFrames = 2
    MaxChanges = 2
    MaxRestarts = 0
INVARIANTS GrantJustified BindingsHaveReaders
PROPERTIES EveryFrameEnds
