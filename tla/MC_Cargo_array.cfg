CONSTANTS
    Members <- MCMembers
    Tables <- MCTables
    Ids <- MCIds
    Inputs <- ArrayInputs
SPECIFICATION Spec
INVARIANT MembersComplete
CHECK_DEADLOCK FALSE
