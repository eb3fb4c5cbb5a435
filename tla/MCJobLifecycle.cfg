CONSTANTS
    Conns <- OneConn
    Jobs <- OneJob
    ConnOf <- JobsConn
    MaxChanges = 9
    Overtaking = FALSE
    MaxAutos = 1
    Disturbances <- Anything
    MaxFaults = 1
SPECIFICATION LifecycleFairSpec
CHECK_DEADLOCK FALSE
INVARIANTS LifecycleTypeOK NoLostToken  EndIsToldOnce DoneMeansStopping
 
