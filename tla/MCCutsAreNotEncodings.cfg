SPECIFICATION Spec
CONSTANTS
    Candidates <- MCCandidates
    Symbol <- MCSymbol
    SCORING_ROWS = 3
    File <- MCFile
    MAX_ROWS = 2
    PREVIEW_ROWS = 1
    UNSPLIT_ROWS = 2
    Unset = Unset
    Null = Null
INVARIANTS
    CutsAreNotEncodings
CHECK_DEADLOCK FALSE
