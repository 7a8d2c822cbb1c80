SPECIFICATION Spec
CONSTANTS
    t1 = t1
    t2 = t2
    Terminals = {t1, t2}
    MaxCommands = 2
    MaxVolumes = 1
SYMMETRY MCSymmetry
PROPERTY OneAtATime
CHECK_DEADLOCK FALSE
