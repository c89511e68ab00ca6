SPECIFICATION Spec
CONSTANTS
    Command = {k1, k2}
    Targets = {t1, t2}
    MaxTime = 2
    MaxData = 1
    MaxChecks = 1
    None = None
SYMMETRY Symmetry
CHECK_DEADLOCK FALSE
INVARIANTS
    TypeOK
    TestedNotBeforeBuild
    NoBuildLost
    SkippedSourceIsTested
