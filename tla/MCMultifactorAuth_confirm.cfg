CONSTANTS
    NoUser = NoUser
    Failed = Failed
    Idle = Idle
    Sent = Sent
    Done = Done
    MaxInFlight <- MCMaxInFlight
    MfaInitialUsers <- MCMfaInitialUsers
    MaxConfirms <- MCMaxConfirms
    MaxSends <- MCMaxSends
    MaxReverts <- MCMaxReverts
SPECIFICATION Spec
INVARIANT
    ConfirmsNotConcurrent
CHECK_DEADLOCK FALSE
