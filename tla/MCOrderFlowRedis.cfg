CONSTANTS
    Keys = {k1}
    Legs <- MCLegs
    MaxLots = 2
    MaxOpenOrders = 2
    RedisBus = TRUE
    MaxOrders = 2
    MaxGlitches = 1
SPECIFICATION Spec
INVARIANTS
    WatchedWhileOpen
PROPERTIES
    FillEventuallyBooked
