SPECIFICATION FairSpec
CONSTANTS
    None = None
    m1 = m1
    m2 = m2
    Nodes = {m1}
    Sources = {}
    Runs = {r1, r2}
    Targets = {dev}
    Codes = {c1, c2}
    ParentsOf <- Alone
    Lag <- NoLag
    Quorum <- AnyQuorum
    Selections <- Everything
    FullRefreshes = {FALSE}
    TableVersions = FALSE
    Overlap = TRUE
    MaxTime = 0
    MaxVersion = 0
CHECK_DEADLOCK FALSE
INVARIANT RecordedIsTrue
PROPERTY EveryRunEnds
