\* One change is missed by a catch-up that times out.
SPECIFICATION Spec
CONSTANTS
    f1 = f1
    f2 = f2
    Path = {f1, f2}
    MaxChanges = 2
    MaxStarts = 2
    MaxFaults = 1
    Capacity = 2
    CursorTemplate = TRUE
INVARIANT CoherentAfterTimeout
SYMMETRY Symmetry
CHECK_DEADLOCK FALSE
