CONSTANTS
    NoUser = NoUser
    Failed = Failed
    Idle = Idle
    Sent = Sent
    Done = Done
    MaxInFlight <- MCMaxInFlightOverlap
    MfaInitialUsers <- MCMfaInitialUsers
    MaxConfirms <- MCMaxConfirms
    MaxSends <- MCMaxSends
    MaxReverts <- MCMaxReverts
SPECIFICATION Spec
INVARIANTS
    TypeOK
    RedirectOnlyWhenVerified
CHECK_DEADLOCK FALSE
