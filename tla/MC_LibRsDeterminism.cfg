CONSTANTS
    Names <- MCNames
    Vis <- MCVis
    Ids <- MCIds
    MarkerTextIds = {}
    Inputs <- TieInputs
SPECIFICATION TwoSpec
INVARIANT Deterministic
CHECK_DEADLOCK FALSE
