SPECIFICATION Spec
CONSTANTS
    f1 = f1
    Flight = {f1}
    NoFlight = NoFlight
    NoTime = NoTime
    EntryTTL = 0
    TrailRetention = 0
    Movement = {"landed"}
    MaxEvents = 3
    MaxTime = 1
    MaxFault = 1
    MaxInstance = 2
CHECK_DEADLOCK FALSE
INVARIANTS
    DroppedOnlyByUnload
    EntryJoinedOnce
    JoinsItsOwnVisit
PROPERTIES
    RefinesEventLog
