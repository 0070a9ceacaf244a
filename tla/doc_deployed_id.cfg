SPECIFICATION Spec
CONSTANTS
    Runs = {r1}
    OldIds = {"old", "older"}
    Others = {"a", "b"}
    None = None
    Files <- SomeFiles
INVARIANT DeployedIdReported
CHECK_DEADLOCK FALSE
