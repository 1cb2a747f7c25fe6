SPECIFICATION FairSpec
CONSTANTS
    NumRunners = 2
    Checks <- OneCheck
    RestrictedTo <- Unrestricted
    Replicas <- OneReplica
    Pods <- TwoPods
    RunnerOf <- OneEach
    Timeout = 1
    Second = 1
    Whole <- WholeSeconds
    BackoffLimit = 0
    MaxStart = 2
    MaxTime = 4
    MaxFaults = 0
    ReadYourWrites = TRUE
    SuiteMayGo = FALSE
    RunMayGo = FALSE
    Clashing <- NoRunner
    Refusable <- SecondRunner
    None = None
    p1 = p1
    p2 = p2
    p3 = p3
    c1 = c1
    c2 = c2
PROPERTY TimeoutEndsRun
CHECK_DEADLOCK FALSE
