SPECIFICATION Spec
CONSTANTS
    t1 = t1
    t2 = t2
    Terminals = {t1, t2}
    MaxCommands = 8
    MaxVolumes = 3
SYMMETRY MCSymmetry
INVARIANT PurgeIsFinal
PROPERTY MemoriesOutlive
CHECK_DEADLOCK FALSE
