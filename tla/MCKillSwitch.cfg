CONSTANTS
    Keys = {k1, k2}
    Holdings = {0, 2}
    OrderLots <- MCOrderLots
    MaxRetries = 2
    MaxOrders = 2
SPECIFICATION Spec
CHECK_DEADLOCK FALSE
INVARIANTS
    TypeOK
    PromptSuccessFlat
    LateOrderBounded
PROPERTIES
    KillCompletes
