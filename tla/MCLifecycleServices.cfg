SPECIFICATION Spec
CONSTANTS
    MaxSetup = 2
    MaxEvents = 2
CHECK_DEADLOCK FALSE
INVARIANTS
    ServicesEndWithTheEntry
