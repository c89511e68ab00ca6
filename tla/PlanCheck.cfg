SPECIFICATION Spec
CONSTANTS
    None = None
    a = a
    b = b
    c = c
    s = s
    x = x
    Nodes = {a, b, c}
    Sources = {s}
    Cases <- TheCases
    Answers = {"Present", "Missing", "Unverified"}
    Now = 3
INVARIANT ReusedWereChecked
INVARIANT ChangeReachesDescendants
CHECK_DEADLOCK FALSE
