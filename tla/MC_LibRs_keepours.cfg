\* Spec 4.4 step 2: a region without declarations keeps its "ours" side.
CONSTANTS
    Names <- MCNames
    Vis <- MCVis
    Ids <- MCIds
    MarkerTextIds = {}
    Inputs <- WellFormedInputs
SPECIFICATION Spec
INVARIANTS
    GenericConflictKeepsOurs
CHECK_DEADLOCK FALSE
