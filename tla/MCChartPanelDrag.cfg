SPECIFICATION Spec
CONSTANTS
    Types = {"sys-mem", "threads"}
    KindsOf <- MCKindsOf
    Pids = {1, 2}
    Columns = {1, 2}
    Widths = {1, 2}
    Span = 2
    MaxPieces = 2
    Idle = 1
    Hover = 4
    Fresh = 2
    Step = 2
    MaxChanges = 2
INVARIANTS
    DragLasts
CHECK_DEADLOCK FALSE
