CONSTANTS
    NoUser = NoUser
    Failed = Failed
    Idle = Idle
    Sent = Sent
    Done = Done
    MaxInFlight <- MCMaxInFlight
    MaxStep <- MCMaxStep
    InitialUsers <- MCInitialUsers
SPECIFICATION FairSpec
PROPERTY
    EnrolledLeaves
CHECK_DEADLOCK FALSE
