CONSTANTS
    q1 = q1
    q2 = q2
    Questions = {q1, q2}
    Undefined = Undefined
    LeftPages <- MCLeftPages
    MajorPages <- MCMajorPages
    MaxId = 3
    MaxSel = 2
    MaxCalls = 1
SPECIFICATION Spec
PROPERTIES
    ReviewCoversSelection
CHECK_DEADLOCK FALSE
