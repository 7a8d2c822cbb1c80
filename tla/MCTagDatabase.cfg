SPECIFICATION Spec
CONSTANTS
    Processes = {p1, p2}
    Tables = 2
    Rows = 3
    MaxStarts = 4
SYMMETRY Symmetry
INVARIANT MadeOnce
INVARIANT SeededInOrder
PROPERTY StaysDerived
CHECK_DEADLOCK FALSE
