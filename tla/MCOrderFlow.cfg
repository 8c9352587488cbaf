CONSTANTS
    Keys = {k1}
    Legs <- MCLegs
    MaxLots = 2
    MaxOpenOrders = 2
    RedisBus = FALSE
    MaxOrders = 3
    MaxGlitches = 0
SPECIFICATION Spec
INVARIANTS
    TypeOK
    FillBookedOnce
    OpenOrdersBounded
    BookGapExplained
