SPECIFICATION Spec
CONSTANTS
    None = None
    m1 = m1
    m2 = m2
    Nodes = {m1}
    Sources = {src}
    Runs = {r1, r2}
    Targets = {dev}
    Codes = {c1}
    ParentsOf <- ReadsSource
    Lag <- NoLag
    Quorum <- AnyQuorum
    Selections <- Everything
    FullRefreshes = {FALSE}
    TableVersions = TRUE
    Overlap = FALSE
    MaxTime = 2
    MaxVersion = 1
CHECK_DEADLOCK FALSE
SYMMETRY Symmetry
INVARIANT TypeOK
INVARIANT ReuseMissesNothing
INVARIANT RecordedIsTrue
