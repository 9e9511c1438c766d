SPECIFICATION Spec
CONSTANTS
    MaxRequests = 3
INVARIANTS
    TypeOK
    RunningMeansRun
    NothingLost
PROPERTIES
    StopCarriedOut
    DeadDaemonNoticed
