SPECIFICATION FairSpec
CONSTANTS
    i1 = i1
    i2 = i2
    h1 = h1
    Importers = {i1, i2}
    Handlers = {h1}
    Uploads <- SomeUploads
    Original = Original
    Empty = Empty
    Partial = Partial
    NoFile = NoFile
    Nobody = Nobody
    Disks = {TRUE, FALSE}
    MaxImports = 2
    MaxScans = 1
    MaxRestarts = 1
INVARIANTS OpenOnFile ServedVerified OkMeansServed BackupHoldsPrevious
PROPERTY ImportsEnd
CHECK_DEADLOCK FALSE
