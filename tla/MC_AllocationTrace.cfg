CONSTANTS
    Allocators = {x, y}
    NPairs = 1
    MaxPieces = 4

SPECIFICATION Spec

INVARIANT WholeLines

CHECK_DEADLOCK FALSE
