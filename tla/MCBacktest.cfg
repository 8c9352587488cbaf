CONSTANTS
    k1 = k1
    k2 = k2
    Symbols <- MCSymbols
    Slip = 10
    MaxHistory = 3
    Dates <- MCDates
    MonthOf <- MCMonthOf
    Holidays = {8}
    HasWeekly = TRUE
    Tokens = {k1, k2}
    Markets <- MCMarkets
    Signals <- MCSignals
    Starts = {0, 1}
    NumDays = 2
    Minutes = 2
    BrokerageCap = 15000
    LevyOn <- MCLevyOn
    Qtys = {1, 2}
    Prices <- MCPrices
    MaxClosed = 5
    MaxFills = 4
SPECIFICATION Spec
CHECK_DEADLOCK FALSE
INVARIANTS
    TypeOK
    LedgersAgree
    PaperPnl
    ReportExact
    ReconcileOk
