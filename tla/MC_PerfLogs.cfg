CONSTANTS
    Cores <- MC_Cores
    Blks <- MC_Blks
    Nums <- MC_Nums
    Times <- MC_Times
    YzLogs <- MC_YzLogs
    BcosLogs <- MC_BcosLogs
    CmLogs <- MC_CmLogs
    Window <- MC_Window
SPECIFICATION Spec
INVARIANTS
    PTypeOK
    RowsFollowLogs
    CmRowsLastBlock
PROPERTIES
    PTermination
\* collect_data returns or raises: a finished script takes no further step.
CHECK_DEADLOCK FALSE
