\* One start, no failure: the owner drops a materialization that just waits.
SPECIFICATION Spec
CONSTANTS
    f1 = f1
    f2 = f2
    Path = {f1}
    MaxChanges = 1
    MaxStarts = 1
    MaxFaults = 0
    Capacity = 2
    CursorTemplate = TRUE
PROPERTY DropReturns
CHECK_DEADLOCK FALSE
