SPECIFICATION Spec
CONSTANTS
    Window = 3
    Seqs <- MCSeqs
    MaxAccepts = 6
INVARIANTS WindowInv ForgottenOnlyWhenOvertaken
PROPERTY RefusedOnlyWithCause
