SPECIFICATION Spec
CHECK_DEADLOCK FALSE
CONSTANTS
    None = None
    t1 = t1
    t2 = t2
    c1 = c1
    Turns = {t1, t2}
    Repeats = {t1, t2}
    Cells = {c1}
    Notes = {}
    KeepRecent = 6
    MaxFlushes = 1
    May = {}
INVARIANTS OnlyDroppedIsUndone
