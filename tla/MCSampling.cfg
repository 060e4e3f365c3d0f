SPECIFICATION Spec
CONSTANTS
    Devices = {"sda"}
    Ifaces = {"eth0"}
    Addrs = {"10.0.0.1"}
    InitialWatch <- MCInitialWatch
    SessionMax = 2
    FaultyLogs <- MCFaultyLogs
    MaxTicks = 3
    MaxGestures = 2
    MaxEvents = 2
INVARIANTS
    TypeOK
    NoTrafficCountedTwice
    NothingLostSinceClear
    TimesInOrder
    LogAgreesWithChart
    OneLineAnInterval
CHECK_DEADLOCK FALSE
