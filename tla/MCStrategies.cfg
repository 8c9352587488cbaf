SPECIFICATION Spec
CONSTANTS
    Strikes <- MCStrikes
    Spots <- MCSpots
    Moods <- MCMoods
    QuoteSets <- MCQuoteSets
    Lots = 2
    Width = 1
    PcrFilterEnabled = TRUE
    MaxPainFilterEnabled = TRUE
    MaxRolls = 2
    MaxHedge = 1
    MaxTrouble = 2
    MaxNews = 0
    MaxEntries = 2
INVARIANTS
    TypeOK
    HeldAsBelieved
    OneEntryPerDay
    RollsCapped
    HedgeWithinCap
    NoCountedSwitch
CHECK_DEADLOCK FALSE
PROPERTY SettlesAfterClose
