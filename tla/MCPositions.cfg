CONSTANTS
    t1 = t1
    t2 = t2
    Strategies = {s1}
    Tokens <- MCTokens
    Qtys = {1, 2}
    Prices <- MCPrices
    MaxClosed = 1
    MaxFills = 5
SPECIFICATION Spec
SYMMETRY Symmetry
INVARIANTS
    TypeOK
    BookConsistent
    MarkToMarket
    LastTripPnl
PROPERTIES
    NetLedger
