SPECIFICATION Spec
CONSTANTS
    None = None
    Notes = {n1, n2}
    MaxCalls = 3
    MaxPresses = 3
    MaxEvents = 1
SYMMETRY MCSymmetry
INVARIANTS
    TypeOK
    ListIsTrue
    DotNeverOutlives
CHECK_DEADLOCK FALSE
