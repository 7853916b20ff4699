SPECIFICATION FairSpec
CONSTANTS
    f1 = f1
    j1 = j1
    j2 = j2
    j3 = j3
    Flight = {f1}
    NoFlight = NoFlight
    NoTime = NoTime
    NoJob = NoJob
    EntryTTL = 0
    TrailRetention = 0
    Job = {j1, j2, j3}
    Units <- MCUnits
    Workloads <- MCWorkloads
    MaxTime = 1
    MaxCrash = 1
    MaxImport = 1
CHECK_DEADLOCK FALSE
INVARIANTS
    OneUnitAtATime
    EntryTimeAccountedFor
    RowsMatchOutcome
    ReadsDifferByImportsOnly
PROPERTIES
    RefinesUnitsOfWork
    EveryJobEnds
