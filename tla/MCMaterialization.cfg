\* Two files and two changes, a queue of two events that the doubled delivery of
\* stream and catch-up overflows; the process starts twice, and one thing fails.
SPECIFICATION Spec
CONSTANTS
    f1 = f1
    f2 = f2
    Path = {f1, f2}
    MaxChanges = 2
    MaxStarts = 2
    MaxFaults = 1
    Capacity = 2
    CursorTemplate = TRUE
INVARIANTS
    TypeOK
    CoherentViewAfterCatchUp
    CursorSoundAfterCatchUp
CONSTRAINT Explored
SYMMETRY Symmetry
\* The process may stay down, or wait for changes that do not come.
CHECK_DEADLOCK FALSE
