\* A file is removed and created again; both records reach the tree twice.
SPECIFICATION Spec
CONSTANTS
    f1 = f1
    f2 = f2
    Path = {f1, f2}
    MaxChanges = 2
    MaxStarts = 2
    MaxFaults = 1
    Capacity = 2
    CursorTemplate = TRUE
INVARIANT CursorSoundAcrossReplay
SYMMETRY Symmetry
CHECK_DEADLOCK FALSE
