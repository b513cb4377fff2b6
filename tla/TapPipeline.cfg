SPECIFICATION FairSpec
CONSTANTS
    Exchange = {e1, e2}
    Worker = {w1, w2}
    QueueSize = 1
    Payloads <- MCAllPayloads
    MaxExits = 1
    Handler = Handler
    Nobody = Nobody
    NoRow = NoRow
INVARIANTS
    TypeOK
    PersistedByOne
    RowsReferenceBlobs
    SkippedStoresNoBody
    GapsExplained
    SpoolAccounted
PROPERTIES
    ImplementsLedger
    AnsweredIsSettled
CHECK_DEADLOCK FALSE
