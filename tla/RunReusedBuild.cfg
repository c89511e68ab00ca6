SPECIFICATION Spec
CONSTANTS
    None = None
    m1 = m1
    m2 = m2
    Nodes = {m1}
    Sources = {}
    Runs = {r1, r2, r3}
    Targets = {dev}
    Codes = {c1, c2}
    ParentsOf <- Alone
    Lag <- NoLag
    Quorum <- AnyQuorum
    Selections <- Everything
    FullRefreshes = {FALSE}
    TableVersions = FALSE
    Overlap = FALSE
    MaxTime = 0
    MaxVersion = 0
CHECK_DEADLOCK FALSE
SYMMETRY Symmetry
INVARIANT ReusedBuildIsThere
