CONSTANTS
    Keys = {k1}
    Legs <- MCUnitLegs
    MaxLots = 2
    MaxOpenOrders = 2
    RedisBus = TRUE
    MaxOrders = 3
    MaxGlitches = 0
SPECIFICATION Spec
INVARIANTS
    FillBookedOnce
