SPECIFICATION Spec
CONSTANTS
    u1 = u1
    r1 = r1
    r2 = r2
    N = 2
    User <- MCUser
    Owner <- MCOwner
    ResponseOf <- MCResponseOf
    Rejected = {}
    Run = {r1, r2}
    NoRun = NoRun
    Answers <- MCAnswers
    Workers = 1
    Limit = 2
    MaxActive = 2
    MaxExits = 1
    MaxRedos = 1
SYMMETRY Symmetry
INVARIANTS
    TypeOK
    GoroutinesContained
    FinishedRunSettles
    AssetGapsExplained
    ExportedPairEligible
    AttributedToItsRun
    AssetsMatchQuality
CHECK_DEADLOCK FALSE
