SPECIFICATION Spec
CONSTANTS
    Pids = {1, 2}
    Names = {"vi", "/bin/vi"}
    Matches <- MCMatches
    Digits <- MCDigits
    PidText <- MCPidText
    Globs <- MCGlobs
    Pieces <- MCPieces
    Words <- MCWords
    Base <- MCBase
    Fits <- MCFits
    FitsPath <- MCFitsPath
    Texts <- MCTexts
    Universes <- MCUniverses
    Machine <- MCProcesses
    Toggles = {"numfd"}
    Devices = {"sda"}
    Addrs = {"lo"}
    Ifaces = {"eth0"}
    Intervals = {1, 2}
    InitialOptions <- MCInitialOptions
    RescanPeriod = 2
    MaxSession = 2
    MaxGestures = 3
INVARIANTS
    PanesShowCharts
