SPECIFICATION Spec
CONSTANTS
    t1 = t1
    t2 = t2
    s1 = s1
    s2 = s2
    f1 = f1
    f2 = f2
    Terminals <- MCTerminals
    Sites <- MCSites
    Families <- MCFamilies
    Port <- MCPort
    MaxProcs = 3
    MaxCommands = 3
    MaxFaults = 1
    None = None
SYMMETRY Symmetry
INVARIANTS
    TypeOK
    ReadyIsOurs
    NoOrphans
CHECK_DEADLOCK FALSE
