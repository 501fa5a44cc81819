SPECIFICATION Spec
CONSTANTS
    Caller = {"a"}
    Candidates = 1
    MaxFailures = 2
INVARIANTS ClosedCannotReconnect
CHECK_DEADLOCK FALSE
