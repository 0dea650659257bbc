\* Well-formed conflicted lib.rs files and arbitrary line sequences (stray,
\* nested and unterminated markers, the marker text inside a code line).
CONSTANTS
    Names <- MCNames
    Vis <- MCVis
    Ids <- MCIds
    MarkerTextIds = {2}
    Inputs <- AllInputs
SPECIFICATION Spec
INVARIANTS
    TypeOK
    ScanCollectsAllMods
    ModsMergedOnce
    OutsideLinesPreserved
PROPERTIES
    Termination
CHECK_DEADLOCK FALSE
