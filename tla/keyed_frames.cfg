SPECIFICATION Spec
CONSTANTS
    Base = 4
    U32 = 1
    U64 = 2
    NonceSize = 2
    TagSize = 1
    Magic <- MCMagic
    Version = 1
    PtLen <- MCPtLen
    MaxPtLen = 2
    Readers <- MCIds
    Doors <- MCIds
    Cards <- MCCards
    Roles = {"staff", "guest"}
    MaxKv = 3
    NoRole = NoRole
    Scans <- MCScans
    Enrolments <- MCEnrolments
    Rotated = {1}
    Yamls <- MCYamls
    InitStores <- MCInitStores
    Times = {1}
    NoResult = NoResult
    Unenrolled = Unenrolled
    MaxSeals = 2
    MaxDamage = 2
    MaxChanges = 2
    MaxEvents = 2
INVARIANTS AcceptedAsSealed NonceRepeatsOnlyWithHeader RotationKeepsCards RoleIsLatest
