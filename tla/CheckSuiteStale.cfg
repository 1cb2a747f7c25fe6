SPECIFICATION Spec
CONSTANTS
    MaxTime = 2
    Schedules <- LivenessSchedules
    Next <- NextOf
    Invalid = Invalid
    Expressions <- StaleExpressions
    MaxActive = 2
    SuiteMayGo = FALSE
    MaxMissedScans = 80
    StartingDeadline = 2
    Policies <- AllowOnly
    SuccessfulLimit = 2
    FailedLimit = 2
    Triggers <- NoTriggers
    Verdicts <- SucceededOnly
    MaxEdits = 1
    MaxFaults = 1
    FreshReads = FALSE
    None = None
    a = a
CHECK_DEADLOCK FALSE
INVARIANTS TypeOK TickRunsOnce
PROPERTY LastScheduleMonotone
