CONSTANTS
    NoUser = NoUser
    Failed = Failed
    Idle = Idle
    Sent = Sent
    Done = Done
    MaxInFlight <- MCMaxInFlight
    MaxStep <- MCMaxStep
    InitialUsers <- MCInitialUsers
SPECIFICATION Spec
INVARIANTS
    TypeOK
    CommitLeavesSetup
    RedirectOnlyWhenEnrolled
    NoIllegalSkip
CHECK_DEADLOCK FALSE
