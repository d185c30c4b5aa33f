SPECIFICATION Spec
CONSTANTS
    r0 = r0
    r1 = r1
    d1 = d1
    c1 = c1
    staff = staff
    guest = guest
    NoRole = NoRole
    NoCard = NoCard
    NoReply = NoReply
    Readers = {r0, r1}
    Doors = {d1}
    Cards = {c1}
    Roles = {staff, guest}
    ZeroReader = r0
    Frames <- ProtocolFrames
    InitStores <- ProtocolStores
    Window = 1
    RollbackThreshold = 1
    TagFailStreakLimit = 2
    SeqModulus = 16
    MaxKv = 1
    AntiReplay = TRUE
    SkewChecked = TRUE
    AllowPrev = TRUE
    EnforceBinding = TRUE
    StaticPepper = FALSE
    DeterministicNonce = TRUE
    DetectorEnabled = TRUE
    Exclusive = FALSE
    MaxFrames = 3
    MaxChanges = 1
    MaxRestarts = 1
INVARIANTS NoGrantInQuarantine StreakQuarantines GrantsAudited GrantedOnce ReplayHasCause
PROPERTIES QuarantineFreezes QuarantineAnnounced
