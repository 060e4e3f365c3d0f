SPECIFICATION Spec
CONSTANTS
    p = p
    q = q
    t1 = t1
    t2 = t2
    Pids = {p, q}
    Things = {t1, t2}
    Absent = Absent
    Idle = Idle
    MaxTicks = 3
    MaxGestures = 1
    MaxEvents = 3
SYMMETRY MCSymmetry
INVARIANTS
    TypeOK
    NothingCountedTwice
    NoIoLost
    TotalWithinSession
PROPERTIES
    ShareBounded
CHECK_DEADLOCK FALSE
