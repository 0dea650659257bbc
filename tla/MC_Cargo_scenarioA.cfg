CONSTANTS
    Members <- MCMembers
    Tables <- MCTables
    Ids <- MCIds
    Inputs <- ScenarioAInputs
SPECIFICATION Spec
INVARIANTS
    MembersComplete
    Preservation
CHECK_DEADLOCK FALSE
