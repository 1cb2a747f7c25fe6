SPECIFICATION FairSpec
CONSTANTS
    MaxTime = 1
    Schedules <- LivenessSchedules
    Next <- NextOf
    Invalid = Invalid
    Expressions <- LivenessExpressions
    MaxActive = 2
    SuiteMayGo = TRUE
    MaxMissedScans = 80
    StartingDeadline = 1
    Policies <- AllowOnly
    SuccessfulLimit = 2
    FailedLimit = 2
    Triggers <- OneTrigger
    Verdicts <- SucceededOnly
    MaxEdits = 1
    MaxFaults = 1
    FreshReads = FALSE
    None = None
    a = a
CHECK_DEADLOCK FALSE
PROPERTIES KeepsPromise TicksHandled ActiveBecomesExact ConditionBecomesTrue NothingLeft
