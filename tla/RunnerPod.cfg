SPECIFICATION FairSpec
CONSTANTS
    NumChecks = 3
    Known <- FirstTwo
    Expect <- SecondFails
    Attempts <- ThreeTwoOne
    Limit = 2
    Steps = 6
    None = None
INVARIANTS TypeOK EntryIsGenuine FailureUsesAllAttempts
PROPERTIES ImplementsPodLife EventuallyExits
CHECK_DEADLOCK FALSE
