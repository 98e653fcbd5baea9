CONSTANTS
    NoUser = NoUser
    Failed = Failed
    Idle = Idle
    Sent = Sent
    Done = Done
    MaxInFlight <- MCMaxInFlight
    MfaInitialUsers <- MCMfaInitialUsers
    MaxConfirms <- MCMaxConfirms
    MaxSends <- MCMaxSends
    MaxReverts <- MCMaxReverts
SPECIFICATION FairSpec
PROPERTIES
    SpinnerClears
    VerifiedLeaves
CHECK_DEADLOCK FALSE
