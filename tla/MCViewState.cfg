SPECIFICATION Spec
CONSTANTS
    Off = Off
    a = a
    b = b
    Instances = {a, b}
    Sessions = {"none", "editor"}
    Unnamed = "none"
    CommandLines <- MCCommandLines
    Toggled = {"show_cpu"}
    Ifaces = {"eth0"}
    Looks = {"curve", "bars"}
    DefaultLook = "curve"
    MenuIntervals = {50}
    DefaultInterval = 20
    MaxStarts = 3
    MaxGestures = 1
SYMMETRY MCSymmetry
INVARIANTS
    TypeOK
    StartsInWindow
    IfacesListed
PROPERTIES
    StartsAsAsked
    RestartKeepsState
CHECK_DEADLOCK FALSE
