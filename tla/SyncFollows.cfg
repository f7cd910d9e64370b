SPECIFICATION Spec
CHECK_DEADLOCK FALSE
CONSTANTS
    None = None
    t1 = t1
    t2 = t2
    t3 = t3
    t4 = t4
    c1 = c1
    c2 = c2
    n1 = n1
    Turns = {t1, t2, t3, t4}
    Repeats = {}
    Cells = {c1, c2}
    Notes = {n1}
    KeepRecent = 8
    MaxFlushes = 2
    May = {"edit", "compact"}
SYMMETRY Symmetry
INVARIANTS CopiesFollowClient
PROPERTIES NotesArePreserved
