\* One file, one error of the server on an attachment that works.
SPECIFICATION Spec
CONSTANTS
    Caller = {"a"}
    Candidates = 1
    MaxFailures = 1
PROPERTIES ReplacesOnlyFailed
CHECK_DEADLOCK FALSE
