SPECIFICATION FairSpec
CONSTANTS
    NumRunners = 1
    Checks <- OneCheck
    RestrictedTo <- Unrestricted
    Replicas <- OneReplica
    Pods <- OnePodSet
    RunnerOf <- AllOnFirst
    Timeout = 2
    Second = 2
    Whole <- HalfSeconds
    BackoffLimit = 0
    MaxStart = 1
    MaxTime = 4
    MaxFaults = 2
    ReadYourWrites = TRUE
    SuiteMayGo = TRUE
    RunMayGo = FALSE
    Clashing <- NoRunner
    Refusable <- NoRunner
    None = None
    p1 = p1
    p2 = p2
    p3 = p3
    c1 = c1
    c2 = c2
INVARIANTS ErrorHasCause CompletionConsistent CountedOnce DeletedSuiteHasNoGauges
PROPERTIES TerminalIsFinal ImplementsLifecycle
CHECK_DEADLOCK FALSE
