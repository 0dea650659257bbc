CONSTANTS
    Procs <- MCProcs
    Bases <- MCBases
    Requests <- MCRequests
    MaxClock = 1
SPECIFICATION Spec
INVARIANTS
    BTypeOK
    LogFollowsNotifications
PROPERTIES
    Termination
    AbstractSpec
CHECK_DEADLOCK FALSE
