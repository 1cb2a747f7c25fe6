SPECIFICATION FairSpec
CONSTANTS
    NumRunners = 1
    Checks <- OneCheck
    RestrictedTo <- Unrestricted
    Replicas <- OneReplica
    Pods <- OnePodSet
    RunnerOf <- AllOnFirst
    Timeout = 1
    Second = 1
    Whole <- WholeSeconds
    BackoffLimit = 0
    MaxStart = 0
    MaxTime = 2
    MaxFaults = 1
    ReadYourWrites = FALSE
    SuiteMayGo = FALSE
    RunMayGo = TRUE
    Clashing <- FirstRunner
    Refusable <- NoRunner
    None = None
    p1 = p1
    p2 = p2
    p3 = p3
    c1 = c1
    c2 = c2
PROPERTIES EventuallyFinished JobsCollected
CHECK_DEADLOCK FALSE
