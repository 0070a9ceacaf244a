SPECIFICATION Spec
CONSTANTS
    Accounts = {a1, a2}
    Callers = {e1, e2}
    None = None
    U32Max = 25
    MaxReports = 3
SYMMETRY Symmetry
INVARIANTS ReputationTypeOK ScoreEarned
