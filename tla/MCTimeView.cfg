SPECIFICATION Spec
CONSTANTS
    MinSpan = 2
    MaxSpan = 9
    DefaultSpan = 5
    Windows <- MCWindows
    PlotWidth = 4
    PanDeltas <- MCPanDeltas
    MaxTime = 14
INVARIANTS
    TypeOK
    LiveShowsNewest
    PausedIsFullAndBehind
    ZoomKeepsAnchor
PROPERTIES
    SampleKeepsView
    ImplementsLiveWindow
