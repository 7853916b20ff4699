SPECIFICATION FairMigrationsSpec
CONSTANTS
    s1 = s1
    m1 = m1
    m2 = m2
    Row <- Rows
    TableOf <- Places
    OldShapes <- Shapes
    MaxFail = 2
INVARIANTS
    VersionTellsTruth
    RerunIsNoOp
PROPERTIES
    AlwaysOpens
CHECK_DEADLOCK FALSE
