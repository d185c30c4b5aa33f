SPECIFICATION Spec
CONSTANTS
    i1 = i1
    i2 = i2
    h1 = h1
    Importers = {i1}
    Handlers = {h1}
    Uploads <- OneUpload
    Original = Original
    Empty = Empty
    Partial = Partial
    NoFile = NoFile
    Nobody = Nobody
    Disks = {FALSE}
    MaxImports = 1
    MaxScans = 1
    MaxRestarts = 0
INVARIANT NoDeadUse
CHECK_DEADLOCK FALSE
