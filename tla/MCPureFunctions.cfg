CONSTANTS
    Base = 4
    Micro = 4
    HourLen = 4
    Extra = 1
    Spring = 12
    Autumn = 32
    Files <- MCFiles
    Windows <- MCWindows
    Moments <- MCMoments
    Delays <- MCDelays
    Words <- MCWords
    Servers <- MCServers
    Ports <- MCPorts
    Targets <- MCTargets
    EventLogs <- MCLogs
SPECIFICATION Spec
INVARIANTS
    SameFormSameQuery
    RowsTellTheEvent
    AnalysisAddsUp
    StartsAtARecord
    WatchedWhileWritten
    SettingsReadBack
CHECK_DEADLOCK FALSE
