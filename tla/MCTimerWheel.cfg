CONSTANTS
    Timer = {t1, t2}
    NR_SLOT = 4
    GRAGNULARITY = 2
    Expires = {0, 1, 4}
    MaxStall = 3
    MaxTime = 10
SPECIFICATION Spec
INVARIANTS TypeOK LinkedOnce NoneOverdue
PROPERTIES NeverEarly ProcessEnds
