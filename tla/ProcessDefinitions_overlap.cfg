SPECIFICATION Spec
CONSTANTS
    Threads = {t1, t2}
    Names = {dmc}
    Configs <- MCConfigs
    MaxSaves = 3
    u1 = u1
    u2 = u2
    r1 = r1
SYMMETRY Symmetry
INVARIANTS
    TypeOK
    ConfigAsSaved
    TasksHaveOpers
    PromisedIsStored
PROPERTIES
    DeleteLeavesNothing
CHECK_DEADLOCK FALSE
