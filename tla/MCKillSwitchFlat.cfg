CONSTANTS
    Keys = {k1}
    Holdings = {0, 2}
    OrderLots <- MCOrderLots
    MaxRetries = 3
    MaxOrders = 0
SPECIFICATION Spec
CHECK_DEADLOCK FALSE
INVARIANTS
    FlatOnSuccess
