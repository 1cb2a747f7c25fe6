SPECIFICATION Spec
CONSTANTS
    MaxTime = 10
    Schedules <- ThreeSchedules
    Next <- NextOf
    MaxMissedScans = 3
    None = None
CHECK_DEADLOCK FALSE
INVARIANTS TypeOK MostRecentUnlessCapped ReturnsDueTick ScanIsLastMissed
