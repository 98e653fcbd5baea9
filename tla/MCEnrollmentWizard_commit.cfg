CONSTANTS
    NoUser = NoUser
    Failed = Failed
    Idle = Idle
    Sent = Sent
    Done = Done
    MaxInFlight <- MCMaxInFlight
    MaxStep <- MCMaxStep
    InitialUsers <- MCInitialUsers
SPECIFICATION Spec
PROPERTY
    CommitRequiresFactor
CHECK_DEADLOCK FALSE
