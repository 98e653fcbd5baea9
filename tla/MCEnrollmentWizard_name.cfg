CONSTANTS
    NoUser = NoUser
    Failed = Failed
    Idle = Idle
    Sent = Sent
    Done = Done
    MaxInFlight <- MCMaxInFlight
    MaxStep <- MCMaxStep
    InitialUsers <- MCInitialUsers
SPECIFICATION Spec
INVARIANT
    RedirectAfterNameSettles
CHECK_DEADLOCK FALSE
