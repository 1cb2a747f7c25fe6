SPECIFICATION Spec
CONSTANTS
    NumRunners = 2
    Checks <- TwoChecks
    RestrictedTo <- SecondOnly
    Replicas <- OneReplica
    Pods <- TwoPods
    RunnerOf <- OneEach
    Timeout = 1
    Second = 1
    Whole <- WholeSeconds
    BackoffLimit = 0
    MaxStart = 0
    MaxTime = 2
    MaxFaults = 0
    ReadYourWrites = TRUE
    SuiteMayGo = FALSE
    RunMayGo = FALSE
    Clashing <- NoRunner
    Refusable <- SecondRunner
    None = None
    p1 = p1
    p2 = p2
    p3 = p3
    c1 = c1
    c2 = c2
INVARIANTS SummaryConsistent GaugeAgreesWithVerdict
CHECK_DEADLOCK FALSE
