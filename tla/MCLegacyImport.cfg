SPECIFICATION Spec
CONSTANTS
    i1 = i1
    i2 = i2
    e1 = e1
    e2 = e2
    Import <- Imports
    Event <- Events
    Facts <- AllFacts
    Windows <- AllWindows
    Tolerance = 1
    MaxDelay = 1
    Nobody = Nobody
    MaxFail = 1
SYMMETRY Symmetry
INVARIANTS
    ImportsNeverRepeat
    AllOrNothing
PROPERTIES
    StagedIsKept
    SkippedIsSameEvent
    RefinesAtomicImport
CHECK_DEADLOCK FALSE
