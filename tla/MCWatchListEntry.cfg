SPECIFICATION WatchSpec
CONSTANTS
    NoText = NoText
    Lists <- MCLists
    Aircraft <- MCAircraft
    HeloCodes <- MCHelo
    CodeSets <- MCCodes
    Skies <- MCSkies
    MaxEvents = 3
    MaxImports = 1
CHECK_DEADLOCK FALSE
INVARIANTS
    EveryEventIsTagged
