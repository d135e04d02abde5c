SPECIFICATION Spec
SYMMETRY ThreadSymmetry
CHECK_DEADLOCK FALSE
CONSTANTS
    a = a
    b = b
    c = c
    d = d
    e = e
    Tasks = {a, b, c, d, e}
    Threads = {x, y, z}
    NoTask = NoTask
    Pre <- ForkJoin
    Bypass = FALSE
INVARIANTS
    OpenTaskHasRow
    RecordedOnce
    MirrorInv
PROPERTY
    ImplementsLog
