SPECIFICATION Spec
CONSTANTS
    None = None
    m1 = m1
    m2 = m2
    Nodes = {m1}
    Sources = {}
    Runs = {r1, r2}
    Targets = {dev}
    Codes = {c1}
    ParentsOf <- Alone
    Lag <- NoLag
    Quorum <- AnyQuorum
    Selections <- Everything
    FullRefreshes = {FALSE, TRUE}
    TableVersions = FALSE
    Overlap = FALSE
    MaxTime = 0
    MaxVersion = 0
CHECK_DEADLOCK FALSE
SYMMETRY Symmetry
INVARIANT FailedChecksVouchForNothing
