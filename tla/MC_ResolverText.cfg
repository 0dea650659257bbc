\* Every sequence of up to 5 lines over "", "a", "b".
CONSTANTS
    EmptyLine = EmptyLine
    LineA = LineA
    LineB = LineB
    MaxLen = 5
SPECIFICATION Spec
INVARIANT TwoBlankLinesKept
CHECK_DEADLOCK FALSE
