SPECIFICATION Spec
CONSTANTS
    f1 = f1
    f2 = f2
    f3 = f3
    t1 = t1
    t2 = t2
    t3 = t3
    NOFID = NOFID
    Fid = {f1, f2, f3}
    Tag = {t1, t2, t3}
    MaxGeneration = 5
    MaxFids = 2
    ConfigVariant = "9P2000.R"
    MaxNames = 1
    MaxOffset = 1
    Modes = {"read", "rdwr", "bad"}
SYMMETRY Symmetry
INVARIANTS
    TypeOK
    KeysFresh
    ReservationLedger
    ReservationsExclude
    FidLimit
    SourceStable
    CompletionApplies
    PlainDialect
PROPERTIES
    ReservedFidsFrozen
\* A session may quiesce: the peer need not send anything more.
CHECK_DEADLOCK FALSE
