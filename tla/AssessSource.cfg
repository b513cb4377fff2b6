SPECIFICATION Spec
CONSTANTS
    m1 = m1
    m2 = m2
    dated = dated
    brand = brand
    Model <- MCModel
    Id <- MCId
    OccursIn <- MCOccursIn
    Generic <- MCGeneric
    NoModel = NoModel
    NoFamily = NoFamily
    Sites <- MCSites
    Scenarios <- MCScenarios
INVARIANTS
    TypeOK
    InferenceFits
    BestIsBest
    ProbeIsServed
    CleanExit
    SmokeIsComplete
    ModelIsVouched
CHECK_DEADLOCK FALSE
