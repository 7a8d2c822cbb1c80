SPECIFICATION Spec
CONSTANTS
    Processes = {p1, p2}
    Tables = 2
    Rows = 3
    MaxStarts = 2
INVARIANT ServesDerived
CHECK_DEADLOCK FALSE
