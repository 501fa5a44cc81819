SPECIFICATION Spec
CONSTANTS
    Caller = {"a", "b"}
    Candidates = 2
    MaxFailures = 2
INVARIANTS TypeOK ReplacementSettles ClosedInstallsAtMostOne
PROPERTIES ReplacesOnlyReported CallsSettle
\* Users of a closed session need not call again.
CHECK_DEADLOCK FALSE
