CONSTANTS
    DayPnls <- MCDayPnls
    MaxDayLoss = 2
    RapidLoss = 1
    Window = 2
    HistoryLen = 3
    DisconnectThreshold = 4
    HeartbeatTimeout = 1
    AutoReset = 2
SPECIFICATION Spec
PROPERTIES
    LongOutageTrips
