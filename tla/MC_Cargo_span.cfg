CONSTANTS
    Members <- MCMembers
    Tables <- MCTables
    Ids <- MCIds
    Inputs <- SpanInputs
SPECIFICATION Spec
INVARIANT Preservation
CHECK_DEADLOCK FALSE
