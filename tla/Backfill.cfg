SPECIFICATION FairSpec
CONSTANTS
    MaxRow = 3
    MaxLogs = 2
    MaxRequests = 1
    MaxErrors = 1
    Limit <- MCLimit
INVARIANTS
    TypeOK
    EnrichedByOwnLog
PROPERTIES
    EnrichmentStays
    OnlyCrowdedOutWait
