SPECIFICATION FairSpec
CONSTANTS
    p1 = p1
    p2 = p2
    Polls = {p1, p2}
    MaxEvents = 2
    Limit = 1
    MaxOverlaps = 1
    MaxPushes = 3
    MaxRestarts = 1
INVARIANTS BufferIsTail ShownInOrder SkippedWithCause
PROPERTY CursorRecovers
