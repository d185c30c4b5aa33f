SPECIFICATION Spec
CONSTANTS
    a1 = a1
    a2 = a2
    e1 = e1
    e2 = e2
    w1 = w1
    Nobody = Nobody
    Appenders = {a1, a2}
    Events = {e1, e2}
    Writes = {w1}
    Modes = {TRUE, FALSE}
    ChainModes = {TRUE, FALSE}
    MaxRows = 3
    MaxCrashes = 2
    MaxDamage = 2
INVARIANTS CommittedChain TransactionsWhole VerifiedIsIntact NoFalseAlarm AckedWritesKept
