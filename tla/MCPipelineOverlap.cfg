SPECIFICATION Spec
CONSTANTS
    spot = spot
    vix = vix
    Tokens = {spot, vix}
    Timeframes <- MCTimeframes
    MaxCandles = 2
    BufferSize = 2
    MaxFailures = 1
    Sids = {a, b}
    Wanted <- MCWanted
    MaxStarts = 2
    Tapes <- MCTapes
    MaxEvents = 2
PROPERTIES
    ClearedAfterCommit
CHECK_DEADLOCK FALSE
