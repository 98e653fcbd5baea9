CONSTANTS
    NoUser = NoUser
    Failed = Failed
    Idle = Idle
    Sent = Sent
    Done = Done
    MaxInFlight <- MCMaxInFlight
    MfaInitialUsers <- MCMfaInitialUsers
    MaxConfirms <- MCMaxConfirms
    MaxSends <- MCMaxSends
    MaxReverts <- MCMaxReverts
SPECIFICATION Spec
PROPERTY
    RevertOnlyForLatestFailure
CHECK_DEADLOCK FALSE
