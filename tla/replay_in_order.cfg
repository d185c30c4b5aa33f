SPECIFICATION InOrderSpec
CONSTANTS
    Window = 3
    Seqs <- MCSeqs
    MaxAccepts = 7
INVARIANTS NoDuplicateAccepted
PROPERTY PromiseKept
