SPECIFICATION Spec
CONSTANTS
    None = None
    m1 = m1
    m2 = m2
    Nodes = {m1, m2}
    Sources = {}
    Runs = {r1, r2}
    Targets = {dev, prod}
    Codes = {c1}
    ParentsOf <- Chain
    Lag <- NoLag
    Quorum <- AnyQuorum
    Selections <- FirstAndAll
    FullRefreshes = {FALSE}
    TableVersions = FALSE
    Overlap = TRUE
    MaxTime = 0
    MaxVersion = 0
CHECK_DEADLOCK FALSE
SYMMETRY Symmetry
INVARIANT NoLostUpdate
INVARIANT LedgerAgrees
INVARIANT NoRunIsStuck
