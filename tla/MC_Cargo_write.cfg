CONSTANTS
    Members <- MCMembers
    Tables <- MCTables
    Ids <- MCIds
    Inputs <- ScenarioAInputs
SPECIFICATION Spec
INVARIANT WriteAllOrNothing
CHECK_DEADLOCK FALSE
