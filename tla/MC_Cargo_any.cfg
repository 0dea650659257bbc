CONSTANTS
    Members <- MCMembers
    Tables <- MCTables
    Ids <- MCIds
    Inputs <- AnyInputs
SPECIFICATION Spec
INVARIANTS
    CTypeOK
    MarkersEliminated
CHECK_DEADLOCK FALSE
