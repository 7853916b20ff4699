SPECIFICATION Spec
CONSTANTS
    NoName <- MCNoName
    Kind <- MCKind
    Zones <- MCZones
    Day = 3
    WeekDays = 2
    Limit = 1
    MaxRows = 2
    MaxInView = 1
    MaxTime = 9
    MaxBuild = 1
INVARIANTS
    TypeOK
    TodayIsToday
    WeekIsSevenToEightDays
    WindowsNest
    ListsMatchCounts
    HistogramHoldsToday
