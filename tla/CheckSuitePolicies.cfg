SPECIFICATION Spec
CONSTANTS
    MaxTime = 3
    Schedules <- OddTimes
    Next <- NextOf
    Invalid = Invalid
    Expressions <- OddTimes
    MaxActive = 32
    SuiteMayGo = TRUE
    MaxMissedScans = 80
    StartingDeadline = 0
    Policies <- ForbidOrReplace
    SuccessfulLimit = 1
    FailedLimit = 1
    Triggers <- OneTrigger
    Verdicts <- SucceededOnly
    MaxEdits = 1
    MaxFaults = 1
    FreshReads = TRUE
    None = None
    a = a
CHECK_DEADLOCK FALSE
PROPERTIES ScheduledAlone HandledTicksRest GcKeepsNewest
