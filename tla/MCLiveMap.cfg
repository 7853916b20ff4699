SPECIFICATION FairSpec
CONSTANTS
    f1 = f1
    Flight = {f1}
    NoFlight = NoFlight
    NoTime = NoTime
    EntryTTL = 1
    TrailRetention = 1
    Lists <- MCLists
    MaxCaptures = 2
    MaxFetch = 2
    MaxPolls = 2
    MaxTime = 2
    MaxSetup = 2
    Budgets <- MCBudgets
CHECK_DEADLOCK FALSE
INVARIANTS
    LinesSpanRetention
    LinesRunForward
PROPERTIES
    MapCatchesUp
    LinesCatchUp
