SPECIFICATION Spec
CONSTANTS
    Opener = {p1, p2}
    Latest = 2
    MaxRows = 2
    MaxAside = 0
    None = None
SYMMETRY OpenerSymmetry
CHECK_DEADLOCK FALSE
INVARIANTS
    CopyIsTheOldState
