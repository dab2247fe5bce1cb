CONSTANTS
    MaxParts = 6
    MaxTotal = 8
    NULL = NULL
    Shapes <- DivisibleShapes
SPECIFICATION Spec
INVARIANTS OnlyReadyDataSent Placed WholeBuffer
