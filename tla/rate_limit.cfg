SPECIFICATION StorageSpec
CONSTANTS
    Payers = {p1, p2}
    None = None
    Tokens = {t1, t2, t3}
    NoList = NoList
    Durations = {2, 3}
    Limits = {0, 1, 2}
    MinDuration = 2
    MaxLimit = 2
    U64Max = 6
    MaxCalls = 6
SYMMETRY Symmetry
INVARIANTS RateTypeOK BurstBound RejectionEarned WindowInv ListedOnce
PROPERTIES OneAtATime
