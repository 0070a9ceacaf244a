SPECIFICATION Spec
CONSTANTS
    Runs = {r1, r2, r3}
    OldIds = {"old", "older"}
    Others = {"a", "b"}
    None = None
    Files <- SomeFiles
SYMMETRY Symmetry
INVARIANTS LastIdStands OthersKept
CHECK_DEADLOCK FALSE
