SPECIFICATION FairSpec
CONSTANTS
    Scopes = {dev, prod}
    Writers = {w1, w2}
    NoWriter = NoWriter
    MaxSnapshots = 3
    MaxRuns = 1
INVARIANTS
    TypeOK
    ChainIntact
    AnswersAreTrue
    DoctorAlarmsOnlyOnRace
PROPERTIES
    ImplementsContract
    EveryCommitReturns
