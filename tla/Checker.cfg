SPECIFICATION FairSpec
CONSTANTS
    None = None
    loopback = loopback
    near = near
    far = far
    Specs <- AllSpecs
    Newer = newer
    DefaultTimeout <- Timeouts
    Addresses <- ThreeAddresses
    Guarded <- Loopback
    Resolutions <- TwoHosts
    Statuses <- TwoStatuses
    StatusOK = "200"
    MaxRedirects = 2
    MaxTime = 3
INVARIANTS TypeOK ObservedHasEvidence NoHastyFailure InTime NothingLeftOpen
PROPERTIES EventuallyReturns
CHECK_DEADLOCK FALSE
