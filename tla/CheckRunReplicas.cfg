SPECIFICATION Spec
CONSTANTS
    NumRunners = 1
    Checks <- OneCheck
    RestrictedTo <- Unrestricted
    Replicas <- TwoReplicas
    Pods <- ThreePods
    RunnerOf <- AllOnFirst
    Timeout = 1
    Second = 1
    Whole <- WholeSeconds
    BackoffLimit = 1
    MaxStart = 0
    MaxTime = 2
    MaxFaults = 0
    ReadYourWrites = FALSE
    SuiteMayGo = FALSE
    RunMayGo = FALSE
    Clashing <- FirstRunner
    Refusable <- NoRunner
    None = None
    p1 = p1
    p2 = p2
    p3 = p3
    c1 = c1
    c2 = c2
SYMMETRY PodSymmetry
INVARIANTS TypeOK VerdictSound ErrorHasCause
PROPERTY EntriesKept
CHECK_DEADLOCK FALSE
