SPECIFICATION Spec
CONSTANTS
    MaxSetup = 4
    MaxEvents = 3
CHECK_DEADLOCK FALSE
INVARIANTS
    UnloadLeavesNothing
    TwiceOnlyAfterFailedSetup
